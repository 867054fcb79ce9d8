----------------------------- MODULE DigitalTwin -----------------------------
(***************************************************************************)
(* The simulated shift (src/simulation/digital_twin.py): forklifts that    *)
(* pending movements and the lines of arriving trucks queue for.           *)
(*                                                                         *)
(* A SimPy process is one job; what it does at an event is one action, and *)
(* jobs that are due at the same instant move in any order.  Time goes in  *)
(* ticks.  A place is the dock door a SKU is staged at, or Bulk.  (New     *)
(* orders that arrive during a shift are only logged, hence left out.)     *)
(***************************************************************************)
EXTENDS Integers, FiniteSets, FiniteSetsExt, Functions, Sequences

CONSTANTS
    Sku,       \* the SKUs of the inventory
    Stray,     \* a SKU that is not in it
    Door,
    Bulk,
    Plans,     \* movements and trucks of the shifts to simulate
    Forklifts, \* config.forklift_count
    LoadTime,  \* config.loading_time_per_pallet_seconds
    FastTime,  \* the same, times staging_loading_speedup
    Shift,     \* config.shift_duration_seconds
    MaxRuns    \* bound: calls of run

Place == Door \cup {Bulk}

AnySku == Sku \cup {Stray}

PendingMovement == [sku : AnySku, to : Place, time : Nat]

Appointment == [arrival : Nat, departure : Int, door : Door, lines : Seq(AnySku)]

ASSUME DigitalTwinAssumption ==
    /\ Bulk \notin Door
    /\ Stray \notin Sku
    /\ {Forklifts, Shift} \subseteq Nat \ {0}
    /\ {LoadTime, FastTime, MaxRuns} \subseteq Nat
    /\ \A p \in Plans :
          /\ p.movements \in Seq(PendingMovement)
          /\ p.trucks \in [DOMAIN p.trucks -> Appointment]
          /\ IsFiniteSet(DOMAIN p.trucks)
          /\ DOMAIN p.movements \cap DOMAIN p.trucks = {}

VARIABLES
    plan,     \* _pending_movements, _appointments and _orders
    runs,     \* calls of run so far
    running,  \* one of them is under way
    where,    \* _inventory: the place of each SKU
    now,      \* the simulated clock
    queue,    \* the requests that wait for a forklift, in order
    place,    \* where each job stands
    wake,     \* when its timeout ends
    line,     \* the line of its orders a truck is at
    seen,     \* the place _load_line looked up for it
    loads,    \* a truck's loads_from_staging (fast) and loads_from_storage (slow)
    left,     \* its departure_time
    metrics   \* EpisodeMetrics

jobVars == <<place, wake, line, seen, loads, left>>
vars == <<plan, runs, running, where, now, queue, jobVars, metrics>>

Movement == plan.movements  \* sku, to and time of each
Truck == plan.trucks        \* arrival, departure, door and lines (SKUs) of each
Moves == DOMAIN Movement
Trucks == DOMAIN Truck
Job == Moves \cup Trucks

NoMetrics == [executed |-> 0, cost |-> 0, served |-> 0, early |-> 0, late |-> 0]

TypeOK ==
    /\ plan \in Plans
    /\ runs \in 0..MaxRuns
    /\ running \in BOOLEAN
    /\ where \in [Sku -> Place]
    /\ now \in 0..(Shift - 1)
    /\ queue \in Seq(Job)
    /\ place \in [Job -> {"away", "wait", "granted", "work", "between", "gone"}]
    /\ wake \in [Job -> Nat]
    /\ line \in [Trucks -> Nat \ {0}]
    /\ seen \in [Trucks -> Place]
    /\ loads \in [Trucks -> [fast : Nat, slow : Nat]]
    /\ left \in [Trucks -> 0..(Shift - 1)]
    /\ metrics \in [DOMAIN NoMetrics -> Nat]

Init ==
    /\ plan \in Plans
    /\ runs = 0
    /\ running = FALSE
    /\ where \in [Sku -> Place]
    /\ now = 0
    /\ queue = <<>>
    /\ place = [j \in Job |-> "gone"]
    /\ wake = [j \in Job |-> 0]
    /\ line = [k \in Trucks |-> 1]
    /\ seen = [k \in Trucks |-> Bulk]
    /\ loads = [k \in Trucks |-> [fast |-> 0, slow |-> 0]]
    /\ left = [k \in Trucks |-> 0]
    /\ metrics = NoMetrics

-----------------------------------------------------------------------------
Holding == {j \in Job : place[j] \in {"granted", "work"}}

(* A request that must wait.                                               *)
Queued(j) == Append(queue, j)

(* The forklift of j goes to whoever waits longest.                        *)
Release(j, next) ==
    IF queue = <<>>
    THEN /\ place' = [place EXCEPT ![j] = next]
         /\ UNCHANGED queue
    ELSE /\ place' = [place EXCEPT ![j] = next, ![Head(queue)] = "granted"]
         /\ queue' = Tail(queue)

(* The first n movements get a forklift at once.                           *)
GrantedAtOnce == {i \in Moves : i <= Forklifts}

(* run: everything but the inventory starts anew, and the movements ask    *)
(* for a forklift, in their order, before any truck does.                  *)
Run ==
    /\ ~running
    /\ runs < MaxRuns
    /\ runs' = runs + 1
    /\ running' = TRUE
    /\ now' = 0
    /\ queue' = [i \in 1..(Cardinality(Moves) - Cardinality(GrantedAtOnce)) |-> Forklifts + i]
    /\ place' = [j \in Job |-> IF j \in Trucks THEN "away"
                               ELSE IF j \in GrantedAtOnce THEN "granted" ELSE "wait"]
    /\ wake' = [j \in Job |-> IF j \in Trucks THEN Truck[j].arrival ELSE 0]
    /\ line' = [k \in Trucks |-> 1]
    /\ seen' = [k \in Trucks |-> Bulk]
    /\ loads' = [k \in Trucks |-> [fast |-> 0, slow |-> 0]]
    /\ left' = [k \in Trucks |-> 0]
    /\ metrics' = NoMetrics
    /\ UNCHANGED <<plan, where>>

(* apply_movement, which passes over a SKU without a position.             *)
Applied(stock, sku, to) == IF sku \in Sku THEN [stock EXCEPT ![sku] = to] ELSE stock

(* _execute_movement, with a forklift.                                     *)
Travel(i) ==
    /\ place[i] = "granted"
    /\ place' = [place EXCEPT ![i] = "work"]
    /\ wake' = [wake EXCEPT ![i] = now + Movement[i].time]
    /\ UNCHANGED <<plan, runs, running, where, now, queue, line, seen, loads, left, metrics>>

(* Its timeout: the SKU is there now, and the forklift free.  A movement of *)
(* a SKU without a position has been executed as well.                     *)
PutDown(i) ==
    /\ place[i] = "work"
    /\ wake[i] = now
    /\ where' = Applied(where, Movement[i].sku, Movement[i].to)
    /\ metrics' = [metrics EXCEPT !.executed = @ + 1, !.cost = @ + Movement[i].time]
    /\ Release(i, "gone")
    /\ UNCHANGED <<plan, runs, running, now, wake, line, seen, loads, left>>

(* A truck that has arrived, or done with a line.                          *)
AtDoor(k) == place[k] = "between" \/ (place[k] = "away" /\ wake[k] = now)

FinishedBeforeLast(k) == line[k] >= Len(Truck[k].lines)

(* All its lines are loaded.                                               *)
Finished(k) == line[k] > Len(Truck[k].lines)

RequestAlwaysGranted(k) == "granted"

(* What the request of a truck gets.                                       *)
RequestOutcome(k) == IF Cardinality(Holding) < Forklifts THEN "granted" ELSE "wait"

(* Where _load_line finds a SKU; without a position it is a slow load, as  *)
(* from Bulk.                                                              *)
Found(sku) == IF sku \in Sku THEN where[sku] ELSE Bulk

(* _load_line looks its SKU up, then asks for a forklift.                  *)
Request(k) ==
    /\ AtDoor(k)
    /\ ~Finished(k)
    /\ seen' = [seen EXCEPT ![k] = Found(Truck[k].lines[line[k]])]
    /\ place' = [place EXCEPT ![k] = RequestOutcome(k)]
    /\ queue' = IF RequestOutcome(k) = "wait" THEN Queued(k) ELSE queue
    /\ UNCHANGED <<plan, runs, running, where, now, wake, line, loads, left, metrics>>

PreStaged(k) == seen[k] = Truck[k].door

(* With a forklift: a fast load or a slow one.                             *)
Load(k) ==
    /\ place[k] = "granted"
    /\ place' = [place EXCEPT ![k] = "work"]
    /\ wake' = [wake EXCEPT ![k] = now + (IF PreStaged(k) THEN FastTime ELSE LoadTime)]
    /\ loads' = IF PreStaged(k) THEN [loads EXCEPT ![k].fast = @ + 1]
                                ELSE [loads EXCEPT ![k].slow = @ + 1]
    /\ UNCHANGED <<plan, runs, running, where, now, queue, line, seen, left, metrics>>

LineLoaded(k) ==
    /\ place[k] = "work"
    /\ wake[k] = now
    /\ line' = [line EXCEPT ![k] = @ + 1]
    /\ Release(k, "between")
    /\ UNCHANGED <<plan, runs, running, where, now, wake, seen, loads, left, metrics>>

BookedSigned(k) ==
    [metrics EXCEPT !.served = @ + 1, !.late = @ + (now - Truck[k].departure)]

(* The departure in the metrics: early by delta, or late by it.            *)
Booked(k) ==
    IF Truck[k].departure >= now
    THEN [metrics EXCEPT !.served = @ + 1, !.early = @ + (Truck[k].departure - now)]
    ELSE [metrics EXCEPT !.served = @ + 1, !.late = @ + (now - Truck[k].departure)]

(* The end of _truck_process.                                              *)
Depart(k) ==
    /\ AtDoor(k)
    /\ Finished(k)
    /\ left' = [left EXCEPT ![k] = now]
    /\ metrics' = Booked(k)
    /\ place' = [place EXCEPT ![k] = "gone"]
    /\ UNCHANGED <<plan, runs, running, where, now, queue, wake, line, seen, loads>>

-----------------------------------------------------------------------------
(* SimPy's event loop.                                                     *)

Timed == {j \in Job : place[j] \in {"away", "work"}}

(* Somebody has still something to do at this instant.                     *)
Due ==
    \/ \E j \in Job : place[j] \in {"granted", "between"}
    \/ \E j \in Timed : wake[j] = now

NextEvents == {wake[j] : j \in Timed} \cap 0..(Shift - 1)

Advance ==
    /\ running
    /\ ~Due
    /\ NextEvents # {}
    /\ now' = Min(NextEvents)
    /\ UNCHANGED <<plan, runs, running, where, queue, jobVars, metrics>>

(* run(until) stops before the events of that instant; what is under way   *)
(* is left as it is.                                                       *)
ShiftEnds ==
    /\ running
    /\ ~Due
    /\ NextEvents = {}
    /\ running' = FALSE
    /\ UNCHANGED <<plan, runs, where, now, queue, jobVars, metrics>>

Next ==
    \/ Run
    \/ running /\ \E i \in Moves : Travel(i) \/ PutDown(i)
    \/ running /\ \E k \in Trucks : Request(k) \/ Load(k) \/ LineLoaded(k) \/ Depart(k)
    \/ Advance
    \/ ShiftEnds

Spec == Init /\ [][Next]_vars

-----------------------------------------------------------------------------
LoadTimeOf(k) == loads[k].fast * FastTime + loads[k].slow * LoadTime

(* What forklifts have done by now for the trucks.                         *)
LoadingDone ==
    SumFunction([k \in Trucks |->
                    LoadTimeOf(k) - (IF place[k] = "work" THEN wake[k] - now ELSE 0)])

(* The metrics never book more work than the forklifts can have done since *)
(* the shift began, and nobody waits while one of them is free.            *)
ForkliftsAreShared ==
    /\ runs > 0 => LoadingDone + metrics.cost <= Forklifts * now
    /\ queue # <<>> => Cardinality(Holding) = Forklifts

Served == {k \in Trucks : running /\ place[k] = "gone"}

(* A truck leaves when each of its lines is loaded, no sooner than that    *)
(* takes, and earliness and lateness add up to what the served ones had.   *)
DeparturesAddUp ==
    /\ running => metrics.served = Cardinality(Served)
    /\ \A k \in Served :
          /\ loads[k].fast + loads[k].slow = Len(Truck[k].lines)
          /\ left[k] - Truck[k].arrival >= LoadTimeOf(k)
    /\ running => metrics.early - metrics.late =
          SumFunction([k \in Served |-> Truck[k].departure - left[k]])

-----------------------------------------------------------------------------
(* What makes these inductive.                                             *)

ForkliftsAreHeld ==
    /\ Cardinality(Holding) <= Forklifts
    /\ queue # <<>> => Cardinality(Holding) = Forklifts

QueueIsOfWaiting ==
    /\ \A n \in DOMAIN queue : place[queue[n]] = "wait"
    /\ \A m, n \in DOMAIN queue : queue[m] = queue[n] => m = n

NothingIsOverdue == \A j \in Timed : now <= wake[j]

(* What forklifts have done by now for movements that are under way.       *)
MovingDone ==
    SumFunction([i \in Moves |->
                    IF place[i] = "work" THEN Movement[i].time - (wake[i] - now) ELSE 0])

WorkTakesTime ==
    /\ \A i \in Moves : place[i] \notin {"away", "between"}
    /\ \A i \in Moves : place[i] = "work" => wake[i] <= now + Movement[i].time
    /\ runs > 0 => LoadingDone + MovingDone + metrics.cost <= Forklifts * now

Loaded(k) == loads[k].fast + loads[k].slow

(* How far a truck is, and when it can be there.                           *)
Progress(k) ==
    LET lines == Len(Truck[k].lines) IN
    /\ place[k] = "away" =>
          line[k] = 1 /\ Loaded(k) = 0 /\ wake[k] = Truck[k].arrival
    /\ place[k] \in {"wait", "granted"} =>
          line[k] <= lines /\ Loaded(k) = line[k] - 1 /\ now - Truck[k].arrival >= LoadTimeOf(k)
    /\ place[k] = "work" =>
          line[k] <= lines /\ Loaded(k) = line[k] /\ wake[k] - Truck[k].arrival >= LoadTimeOf(k)
    /\ place[k] = "between" =>
          line[k] <= lines + 1 /\ Loaded(k) = line[k] - 1
          /\ now - Truck[k].arrival >= LoadTimeOf(k)
    /\ place[k] = "gone" =>
          Loaded(k) = lines /\ left[k] - Truck[k].arrival >= LoadTimeOf(k)

Left == {k \in Trucks : place[k] = "gone"}

DeparturesAreBooked ==
    runs > 0 =>
        /\ \A k \in Trucks : Progress(k)
        /\ metrics.served = Cardinality(Left)
        /\ metrics.early - metrics.late =
              SumFunction([k \in Left |-> Truck[k].departure - left[k]])

ShiftInvariant ==
    /\ TypeOK
    /\ ForkliftsAreHeld
    /\ QueueIsOfWaiting
    /\ NothingIsOverdue
    /\ WorkTakesTime
    /\ DeparturesAreBooked
    /\ running => runs > 0

-----------------------------------------------------------------------------
(* Statements of the documentation that the code does not keep.            *)

(* "For each order line the forklift either loads from staging (fast) or   *)
(* from bulk storage (slow)": fast exactly if the SKU is staged there.     *)
FastWhenStaged ==
    [][\A k \in Trucks :
          running /\ Load(k) =>
             (PreStaged(k) <=> Found(Truck[k].lines[line[k]]) = Truck[k].door)]_vars

(* trucks_served: "Number of carrier appointments that loaded at least one *)
(* pallet."                                                                *)
ServedLoaded ==
    running => metrics.served = Cardinality({k \in Served : loads[k].fast + loads[k].slow > 0})
=============================================================================
