-------------------------------- MODULE Routes --------------------------------
(***************************************************************************)
(* The routes by which resources carry out the tasks of a cycle            *)
(* (src/optimizer/routing.py), after Planning has chosen them, as          *)
(* DESIGN.md has it; nothing in src/ calls the planner yet.                *)
(*                                                                         *)
(* Distances are in metres and times in seconds, speeds whole metres per   *)
(* second.  The routing solver is external: it answers any division of the *)
(* tasks among the resources that its model admits, or none.               *)
(***************************************************************************)
EXTENDS Planning

CONSTANTS
    Planners, \* planners, with the resources, depot and horizon of a call
    None      \* no depot given, or no planner called yet

GraphEdge == [from : Location, to : Location, distance : Nat, speed : Nat \ {0}, oneWay : BOOLEAN]

Planner ==
    [graph : Seq(GraphEdge), speed : Nat, handling : Nat, resources : Nat,
     depot : Location \cup {None}, horizon : Nat]

ASSUME RoutesAssumption == \A p \in Planners : p \in Planner

VARIABLES
    planner, \* the planner that was called
    outcome, \* solver_status, "NONE" before the call
    routes   \* resource -> its route, for those that have a stop

routeVars == <<planner, outcome, routes>>

-----------------------------------------------------------------------------
(* Edges, in the order they are added: a two-way edge counts for both      *)
(* directions, and the last one added for a direction is the one in force. *)
Leads(e, l, m) ==
    \/ e.from = l /\ e.to = m
    \/ ~ e.oneWay /\ e.from = m /\ e.to = l

EdgesBetween(p, l, m) == {i \in DOMAIN p.graph : Leads(p.graph[i], l, m)}

EdgeInForce(p, l, m) == p.graph[Max(EdgesBetween(p, l, m))]

TravelTime(p, l, m) ==
    IF EdgesBetween(p, l, m) = {} \/ l = m
    THEN IF p.speed > 0 THEN Distance(l, m) \div p.speed ELSE 0
    ELSE EdgeInForce(p, l, m).distance \div EdgeInForce(p, l, m).speed

LegOfNoTime(p, l, m) == TravelTime(p, l, m)

(* Another node is at least a second away, in the same place too.          *)
Leg(p, l, m) == Max({1, TravelTime(p, l, m)})

-----------------------------------------------------------------------------
Source(t) == From(wh, t.candidate)

Rank(t) == CHOOSE i \in DOMAIN offered : offered[i] = t.candidate

(* The batch, sorted by score.                                             *)
Ordered ==
    CHOOSE f \in [1..Cardinality(tasks) -> tasks] :
        /\ \A t \in tasks : \E i \in DOMAIN f : f[i] = t
        /\ \A i, j \in DOMAIN f : i < j => f[i] # f[j] /\ Rank(f[i]) <= Rank(f[j])

(* Where node n is: the depot is node 0, the tasks come after it.          *)
Stands(p, n) ==
    IF n > 0 THEN Source(Ordered[n])
    ELSE IF p.depot = None THEN Source(Ordered[1]) ELSE p.depot

TimeMatrix(p, i, j) == IF i = j THEN 0 ELSE Leg(p, Stands(p, i), Stands(p, j))

(* When a tour that leaves the depot at 0 comes to its nodes: without      *)
(* slack, the times of the legs add up.                                    *)
Arrivals(p, tour) ==
    LET at0[k \in 1..Len(tour)] ==
            IF k = 1 THEN TimeMatrix(p, 0, tour[1])
            ELSE at0[k - 1] + TimeMatrix(p, tour[k - 1], tour[k])
    IN  at0

Return(p, tour) == Arrivals(p, tour)[Len(tour)] + TimeMatrix(p, tour[Len(tour)], 0)

Tours == UNION {[1..k -> 1..Cardinality(tasks)] : k \in 0..Cardinality(tasks)}

Solved == {"ROUTING_SUCCESS", "ROUTING_PARTIAL_SUCCESS"}

(* The statuses without one.                                               *)
Unsolved ==
    {"ROUTING_NOT_SOLVED", "ROUTING_FAIL", "ROUTING_FAIL_TIMEOUT", "ROUTING_INVALID",
     "ROUTING_INFEASIBLE"}

(* Where in a solution's tours node n is.                                  *)
Visits(s, n) ==
    {x \in (DOMAIN s) \X (1..Cardinality(tasks)) :
        x[2] \in DOMAIN s[x[1]] /\ s[x[1]][x[2]] = n}

(* What the solver's model admits: every node once, home by the horizon.   *)
Solutions(p) ==
    {s \in [1..p.resources -> Tours] :
        /\ \A n \in 1..Cardinality(tasks) : Cardinality(Visits(s, n)) = 1
        /\ \A v \in 1..p.resources : s[v] # <<>> => Return(p, s[v]) <= p.horizon}

(* From where one task ends to where the next begins.                      *)
Gap(t, u) == Distance(t.to, Source(u))

Gaps(tour) ==
    MapThenSumSet(LAMBDA k : Gap(Ordered[tour[k - 1]], Ordered[tour[k]]), 2..Len(tour))

Stop(p, tour, k) ==
    [task |-> Ordered[tour[k]],
     arrival |-> Arrivals(p, tour)[k],
     departure |-> Arrivals(p, tour)[k] + p.handling]

Route(p, tour) ==
    [stops |-> [k \in DOMAIN tour |-> Stop(p, tour, k)],
     distance |-> Gaps(tour),
     time |-> Return(p, tour)]

ExtractBusy(p, s) == [v \in {w \in DOMAIN s : Len(s[w]) > 1} |-> Route(p, s[v])]

(* _extract_routes: one route for each vehicle that has a stop.            *)
Extract(p, s) == [v \in {w \in DOMAIN s : s[w] # <<>>} |-> Route(p, s[v])]

-----------------------------------------------------------------------------
RoutesInit ==
    /\ Init
    /\ planner = None
    /\ outcome = "NONE"
    /\ routes = <<>>

Answer(st, rs) ==
    /\ outcome' = st
    /\ routes' = rs
    /\ UNCHANGED vars

(* plan(): nothing to route, no solution found, or a solution, which the   *)
(* solver may have stopped improving.                                      *)
Plan(p) ==
    /\ pc = "done"
    /\ outcome = "NONE"
    /\ planner' = p
    /\ IF tasks = {} \/ p.resources = 0
       THEN Answer("INFEASIBLE", <<>>)
       ELSE \/ \E st \in Unsolved : Answer(st, <<>>)
            \/ \E st \in Solved, s \in Solutions(p) : Answer(st, Extract(p, s))

RoutesNext ==
    \/ Next /\ UNCHANGED routeVars
    \/ \E p \in Planners : Plan(p)

RoutesSpec == RoutesInit /\ [][RoutesNext]_<<vars, routeVars>>

-----------------------------------------------------------------------------
(* The stops for a task: a resource and the number of its stop.            *)
StopsFor(t) ==
    {x \in (DOMAIN routes) \X (1..Cardinality(tasks)) :
        x[2] \in DOMAIN routes[x[1]].stops /\ routes[x[1]].stops[x[2]].task = t}

(* A successful plan sends exactly one resource, once, for each task of    *)
(* the cycle, and for nothing else.                                        *)
EachTaskIsRouted ==
    outcome \in Solved =>
        /\ \A t \in tasks : Cardinality(StopsFor(t)) = 1
        /\ \A v \in DOMAIN routes : \A k \in DOMAIN routes[v].stops :
              routes[v].stops[k].task \in tasks

(* A resource is at one stop at a time and home after the last and by the  *)
(* horizon, whatever the graph and although pallets stand in one place,    *)
(* edges are overwritten, and the default speed may be 0.                  *)
OneStopAtATime ==
    \A v \in DOMAIN routes :
        LET stops == routes[v].stops IN
        /\ \A j, k \in DOMAIN stops : j < k => stops[j].arrival < stops[k].arrival
        /\ \A k \in DOMAIN stops : stops[k].arrival < routes[v].time
        /\ routes[v].time <= planner.horizon

(* What makes these inductive: a plan is made of a cycle that is over.     *)
RoutesInvariant ==
    /\ PlanningInvariant
    /\ outcome \in {"NONE", "INFEASIBLE"} \cup Unsolved \cup Solved
    /\ outcome # "NONE" => pc = "done"
    /\ outcome \notin Solved => routes = <<>>
    /\ EachTaskIsRouted
    /\ OneStopAtATime

(* "Estimated seconds from route start when resource departs"              *)
(* (optimizer/routing.py): before it arrives at the next stop.             *)
DepartsBeforeItArrives ==
    \A v \in DOMAIN routes :
        LET stops == routes[v].stops
        IN  \A k \in DOMAIN stops : k > 1 => stops[k - 1].departure <= stops[k].arrival

(* "Build integer travel-time matrix (seconds, rounded up)"                *)
(* (optimizer/routing.py): no stop sooner than its distance allows.        *)
LegsAreRoundedUp ==
    \A v \in DOMAIN routes :
        LET stops == routes[v].stops
            gone(k) == Distance(Source(stops[k - 1].task), Source(stops[k].task))
        IN  planner.graph = <<>> =>
                \A k \in DOMAIN stops : k > 1 =>
                    (stops[k].arrival - stops[k - 1].arrival) * planner.speed >= gone(k)

(* "one_way: If True, the reverse traversal is not permitted"              *)
(* (optimizer/routing.py): no route drives against a one-way edge.         *)
OneWayIsKept ==
    \A v \in DOMAIN routes :
        LET stops == routes[v].stops
        IN  \A k \in DOMAIN stops, i \in DOMAIN planner.graph :
                k > 1 /\ planner.graph[i].oneWay =>
                    ~ /\ planner.graph[i].to = Source(stops[k - 1].task)
                      /\ planner.graph[i].from = Source(stops[k].task)

(* "total_distance_meters: Total Manhattan distance traveled"              *)
(* (optimizer/routing.py): also while carrying pallets.                    *)
DistanceIsTravelled ==
    \A v \in DOMAIN routes :
        routes[v].distance >=
            MapThenSumSet(LAMBDA k : Distance(Source(routes[v].stops[k].task), routes[v].stops[k].task.to),
                          DOMAIN routes[v].stops)
=============================================================================
