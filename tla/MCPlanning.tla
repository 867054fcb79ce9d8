------------------------------ MODULE MCPlanning ------------------------------
(***************************************************************************)
(* Small warehouses for Planning and Routes: two doors, two storage        *)
(* locations and a chilled one, three staging spots, two of them in one    *)
(* bay and one frozen; two SKUs of incompatible classes, a chilled one and *)
(* a plain one.                                                            *)
(***************************************************************************)
EXTENDS Routes, TLC

CONSTANTS solvent, oxidizer, cheese, paper, far, near, cold, gate1, gate2, freezer

Place(aisle, bay, x, y, zone, staging, door) ==
    [aisle |-> aisle, bay |-> bay, x |-> x, y |-> y, zone |-> zone,
     staging |-> staging, door |-> door]

MCSite ==
    far     :> Place(1, 1, 20, 4, "AMBIENT", FALSE, 0)
 @@ near    :> Place(1, 2, 8, 6, "AMBIENT", FALSE, 0)
 @@ cold    :> Place(2, 1, 4, 13, "CHILLED", FALSE, 0)
 @@ gate1   :> Place(9, 1, 2, 5, "AMBIENT", TRUE, 1)
 @@ gate2   :> Place(9, 1, 2, 10, "AMBIENT", TRUE, 2)
 @@ freezer :> Place(8, 1, 1, 13, "FROZEN", TRUE, 2)

MCDoorCoords == 2 :> [x |-> 0, y |-> 11]

MCClass == solvent :> "3" @@ oxidizer :> "5_1" @@ cheese :> NoClass @@ paper :> NoClass
MCNeeds == solvent :> "AMBIENT" @@ oxidizer :> "AMBIENT" @@ cheese :> "CHILLED" @@ paper :> "AMBIENT"

Pallet(sku, loc) == [sku |-> sku, loc |-> loc]
Order(appointment, lines, urgency) ==
    [appointment |-> appointment, lines |-> lines, urgency |-> urgency]

MCStocks == {
    <<Pallet(solvent, far), Pallet(oxidizer, near), Pallet(solvent, near)>>,
    <<Pallet(oxidizer, gate2), Pallet(solvent, far), Pallet(cheese, cold)>>,
    <<Pallet(cheese, cold), Pallet(oxidizer, near), Pallet(solvent, far), Pallet(paper, gate2)>>,
    <<Pallet(cheese, near), Pallet(oxidizer, far)>>,
    <<Pallet(paper, gate2), Pallet(solvent, far)>>,
    <<>>}

MCOrders == {
    <<Order(1, {solvent, oxidizer, cheese, paper}, 30)>>,
    <<Order(1, {oxidizer, paper}, 20), Order(2, {solvent, cheese}, 200)>>,
    <<Order(2, {oxidizer, cheese}, 0), Order(2, {}, 50), Order(1, {solvent, oxidizer}, 50)>>}

MCWarehouses ==
    [stock : MCStocks,
     staging : {<<>>, <<gate1, freezer>>, <<gate1, gate2>>, <<gate2, freezer, gate1>>},
     appointments : {<<>>, <<1>>, <<1, 2>>, <<2, 1>>},
     orders : MCOrders,
     full : {{}, {gate1}},
     busy : {0, 80}]

Edge(l, m, distance, speed, oneWay) ==
    [from |-> l, to |-> m, distance |-> distance, speed |-> speed, oneWay |-> oneWay]

(* The way between far and near, one way and then overwritten in one       *)
(* direction by a longer one; from cold to near only, and a stop of a      *)
(* place at itself.                                                        *)
MCGraph ==
    <<Edge(far, near, 9, 2, TRUE), Edge(cold, near, 1, 2, TRUE),
      Edge(near, far, 30, 3, FALSE), Edge(near, near, 7, 1, TRUE)>>

MCPlanner(graph, speed, resources, depot, horizon) ==
    [graph |-> graph, speed |-> speed, handling |-> 45, resources |-> resources,
     depot |-> depot, horizon |-> horizon]

MCPlanners == {
    MCPlanner(MCGraph, 2, 2, None, 16),
    MCPlanner(<<>>, 0, 1, gate1, 7200),
    MCPlanner(<<>>, 3, 0, None, 7200)}
=============================================================================
