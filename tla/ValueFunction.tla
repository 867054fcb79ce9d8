---------------------------- MODULE ValueFunction ----------------------------
(***************************************************************************)
(* The value of a move (src/scoring/value_function.py) with the binary     *)
(* load probability of src/scoring/demand_predictor.py:                    *)
(*                                                                         *)
(*    V(m) = (T_saved * P_load * W_order) / (C_move + C_opportunity)       *)
(*                                                                         *)
(* Numbers are fixed-point: distances are in metres at one metre a second, *)
(* weights of orders in tenths, utilizations in percent, values in         *)
(* thousandths.  A warehouse has appointments and orders, in the order     *)
(* the WMS lists them, and busy, the average utilization of its resources. *)
(***************************************************************************)
EXTENDS Constraints

CONSTANTS
    DoorCoords,  \* coordinates of the dock doors that are known
    MoveWeight,  \* weights.movement_cost, relative to the numerator's weights
    IdleWeight,  \* weights.opportunity_cost, likewise
    Handling,    \* config.handling_time_seconds
    Opportunity  \* config.base_opportunity_seconds

ASSUME ValueAssumption ==
    /\ DOMAIN DoorCoords \subseteq Int
    /\ \A d \in DOMAIN DoorCoords : DoorCoords[d] \in [x : Int, y : Int]
    /\ {MoveWeight, IdleWeight, Handling, Opportunity} \subseteq Nat

Scale == 1000

(* An order departs with an appointment; lines are the SKUs of its lines   *)
(* that are not picked; urgency is its priority, decayed until its cutoff. *)
OutboundOrder == [appointment : Nat, lines : SUBSET Sku, urgency : Int]

Absolute(n) == IF n < 0 THEN -n ELSE n
Least(m, n) == IF m < n THEN m ELSE n

Manhattan(p, q) == Absolute(p.x - q.x) + Absolute(p.y - q.y)

(* _dock_door_coords: doors without known coordinates are five metres apart. *)
DoorSite(d) == IF d \in DOMAIN DoorCoords THEN DoorCoords[d] ELSE [x |-> 0, y |-> 5 * d]

(* DemandPredictor.predict: some order that leaves with the appointment    *)
(* has a line of the SKU that is not picked.                               *)
Loads(wh, a, sku) ==
    \E o \in DOMAIN wh.orders : wh.orders[o].appointment = a /\ sku \in wh.orders[o].lines

(* priority * exp(-time until cutoff / decay), clamped to [0.1, 10].       *)
OrderWeight(order) == IF order.urgency < 1 THEN 1 ELSE Least(order.urgency, 100)

(* Appointments by orders: the pairs score() walks over.                   *)
Departures(wh, sku) ==
    {d \in (DOMAIN wh.appointments) \X (DOMAIN wh.orders) :
        Loads(wh, d[1], sku) /\ wh.orders[d[2]].appointment = d[1]}

WeightOf(wh, d) == OrderWeight(wh.orders[d[2]])

Before(d, e) == d[1] < e[1] \/ (d[1] = e[1] /\ d[2] < e[2])

BestDepartureOfAll(wh, sku) ==
    CHOOSE d \in (DOMAIN wh.appointments) \X (DOMAIN wh.orders) :
        /\ wh.orders[d[2]].appointment = d[1]
        /\ \A e \in (DOMAIN wh.appointments) \X (DOMAIN wh.orders) :
              wh.orders[e[2]].appointment = e[1] => WeightOf(wh, d) >= WeightOf(wh, e)

(* The first of the heaviest.  Its order need not be one that has the SKU. *)
BestDeparture(wh, sku) ==
    CHOOSE d \in Departures(wh, sku) :
        \A e \in Departures(wh, sku) \ {d} :
            \/ WeightOf(wh, d) > WeightOf(wh, e)
            \/ WeightOf(wh, d) = WeightOf(wh, e) /\ Before(d, e)

DoorOf(wh, sku) == DoorSite(wh.appointments[BestDeparture(wh, sku)[1]])

TimeSaved(from, to, door) == Manhattan(Site[from], door) - Manhattan(Site[to], door)

MovementCost(from, to) == Manhattan(Site[from], Site[to]) + Handling

OpportunityCost(percent) == (100 * Opportunity) \div (100 - Least(percent, 95))

Denominator(wh, move) ==
    LET cost == MoveWeight * MovementCost(move.from, move.to)
                + IdleWeight * OpportunityCost(wh.busy)
    IN  IF cost <= 0 THEN 1 ELSE cost

ScoreOfSavings(wh, move) ==
    LET saved == TimeSaved(move.from, move.to, DoorOf(wh, move.sku))
    IN  (Scale * saved * WeightOf(wh, BestDeparture(wh, move.sku)))
            \div (10 * Denominator(wh, move))

(* MovementScorer.score: nothing for a SKU that no appointment loads, nor  *)
(* for a move that does not bring it nearer.                               *)
Score(wh, move) ==
    IF Departures(wh, move.sku) = {} THEN 0
    ELSE IF TimeSaved(move.from, move.to, DoorOf(wh, move.sku)) <= 0 THEN 0
    ELSE ScoreOfSavings(wh, move)
=============================================================================
