--------------------------- MODULE SimulationProofs ---------------------------
(***************************************************************************)
(* What a simulated shift and a training episode keep, for any plans, any  *)
(* number of forklifts, and any candidates: the invariant EnvInvariant is  *)
(* inductive, and the properties of both follow from it.                   *)
(***************************************************************************)
EXTENDS WarehouseEnv, Sums

-----------------------------------------------------------------------------
(* What a plan is made of.                                                 *)

LEMMA PlanShape ==
    ASSUME TypeOK
    PROVE  /\ Movement \in Seq(PendingMovement)
           /\ Moves = 1..Len(Movement) /\ Len(Movement) \in Nat
           /\ IsFiniteSet(Moves) /\ Cardinality(Moves) = Len(Movement)
           /\ IsFiniteSet(Trucks) /\ IsFiniteSet(Job) /\ Moves \cap Trucks = {}
           /\ \A i \in Moves : /\ Movement[i].time \in Nat
                               /\ Movement[i].sku \in AnySku /\ Movement[i].to \in Place
           /\ \A k \in Trucks : /\ Truck[k].arrival \in Nat /\ Truck[k].departure \in Int
                                /\ Truck[k].door \in Place /\ Truck[k].lines \in Seq(AnySku)
<1>1. /\ Movement \in Seq(PendingMovement)
      /\ Truck \in [Trucks -> Appointment]
      /\ IsFiniteSet(Trucks) /\ Moves \cap Trucks = {}
  BY DigitalTwinAssumption DEF TypeOK, Movement, Truck, Moves, Trucks
<1>2. Moves = 1..Len(Movement) /\ Len(Movement) \in Nat
  BY <1>1 DEF Moves
<1>3. IsFiniteSet(Moves) /\ Cardinality(Moves) = Len(Movement)
  <2> DEFINE n == Len(Movement)
  <2>1. n \in Nat /\ Moves = 1..n
    BY <1>2
  <2> HIDE DEF n
  <2>2. IsFiniteSet(1..n) /\ Cardinality(1..n) = n
    BY <2>1, FS_Interval
  <2> QED
    BY <2>1, <2>2 DEF n
<1>4. IsFiniteSet(Job)
  BY <1>1, <1>3, FS_Union DEF Job
<1>5. \A i \in Moves : Movement[i] \in PendingMovement
  BY <1>1, <1>2
<1>6. \A k \in Trucks : Truck[k] \in Appointment
  BY <1>1
<1> QED
  BY <1>1, <1>2, <1>3, <1>4, <1>5, <1>6 DEF PendingMovement, Appointment, Place

(* What every step of a shift finds, and what none changes.                *)
LEMMA Frame ==
    ASSUME TypeOK, plan' = plan
    PROVE  /\ Moves' = Moves /\ Trucks' = Trucks /\ Job' = Job
           /\ Movement' = Movement /\ Truck' = Truck
           /\ Moves \cap Trucks = {} /\ Job = Moves \cup Trucks
           /\ now \in 0..(Shift - 1) /\ Shift \in Nat \ {0} /\ now \in Nat
           /\ \A j \in Job : wake[j] \in Nat
           /\ \A i \in Moves : Movement[i].time \in Nat
           /\ \A k \in Trucks : Truck[k].arrival \in Nat
<1>1. Movement' = Movement /\ Truck' = Truck
  BY DEF Movement, Truck
<1>2. Moves' = Moves /\ Trucks' = Trucks /\ Job' = Job
  BY DEF Moves, Trucks, Job, Movement, Truck
<1>3. now \in 0..(Shift - 1) /\ Shift \in Nat \ {0} /\ now \in Nat
  BY DigitalTwinAssumption DEF TypeOK
<1>4. \A j \in Job : wake[j] \in Nat
  BY DEF TypeOK
<1> QED
  BY <1>1, <1>2, <1>3, <1>4, PlanShape DEF Job

LEMMA MetricNames == DOMAIN NoMetrics = {"executed", "cost", "served", "early", "late"}
BY DEF NoMetrics

LEMMA HeldIsFinite ==
    ASSUME TypeOK
    PROVE  IsFiniteSet(Holding) /\ Cardinality(Holding) \in Nat
<1>1. IsFiniteSet(Job) /\ Holding \subseteq Job
  BY PlanShape DEF Holding
<1> QED
  BY <1>1, FS_Subset, FS_CardinalityType

-----------------------------------------------------------------------------
(* The sums of a state, as sums over sets that no step changes.            *)

LoadedBy(k) == LoadTimeOf(k) - (IF place[k] = "work" THEN wake[k] - now ELSE 0)
MovedBy(i) == IF place[i] = "work" THEN Movement[i].time - (wake[i] - now) ELSE 0

LEMMA WorkIsSum ==
    /\ LoadingDone = SumFunctionOnSet([k \in Trucks |-> LoadedBy(k)], Trucks)
    /\ MovingDone = SumFunctionOnSet([i \in Moves |-> MovedBy(i)], Moves)
BY DEF LoadingDone, MovingDone, LoadedBy, MovedBy, SumFunction

LEMMA WorkIsInteger ==
    ASSUME TypeOK
    PROVE  /\ \A k \in Trucks : LoadedBy(k) \in Int /\ LoadTimeOf(k) \in Nat
           /\ \A i \in Moves : MovedBy(i) \in Int
           /\ LoadingDone \in Int /\ MovingDone \in Int
<1>1. /\ IsFiniteSet(Trucks) /\ IsFiniteSet(Moves)
      /\ \A i \in Moves : Movement[i].time \in Nat
  BY PlanShape
<1>2. \A j \in Job : wake[j] \in Nat
  BY DEF TypeOK
<1>3. \A k \in Trucks : LoadTimeOf(k) \in Nat
  <2>1. \A k \in Trucks : loads[k].fast \in Nat /\ loads[k].slow \in Nat
    BY DEF TypeOK
  <2>2. FastTime \in Nat /\ LoadTime \in Nat
    BY DigitalTwinAssumption
  <2> QED
    BY <2>1, <2>2 DEF LoadTimeOf
<1>4. now \in Nat
  BY DigitalTwinAssumption DEF TypeOK
<1>5. \A k \in Trucks : LoadedBy(k) \in Int
  BY <1>2, <1>3, <1>4 DEF LoadedBy, Job
<1>6. \A i \in Moves : MovedBy(i) \in Int
  BY <1>1, <1>2, <1>4 DEF MovedBy, Job
<1>7. LoadingDone \in Int
  BY <1>1, <1>5, WorkIsSum, SumTakesOut
<1>8. MovingDone \in Int
  BY <1>1, <1>6, WorkIsSum, SumTakesOut
<1> QED
  BY <1>3, <1>5, <1>6, <1>7, <1>8

(* What a step adds to the work is what it adds to that of one job.        *)
LEMMA SameWork ==
    ASSUME TypeOK, plan' = plan
    PROVE  /\ (\A k \in Trucks : LoadedBy(k)' = LoadedBy(k)) => LoadingDone' = LoadingDone
           /\ (\A i \in Moves : MovedBy(i)' = MovedBy(i)) => MovingDone' = MovingDone
<1>1. Trucks' = Trucks /\ Moves' = Moves /\ IsFiniteSet(Trucks) /\ IsFiniteSet(Moves)
  BY PlanShape DEF Trucks, Moves, Truck, Movement
<1>2. /\ LoadingDone' = SumFunctionOnSet([k \in Trucks |-> LoadedBy(k)'], Trucks)
      /\ MovingDone' = SumFunctionOnSet([i \in Moves |-> MovedBy(i)'], Moves)
  BY <1>1 DEF LoadingDone, MovingDone, LoadedBy, MovedBy, SumFunction
<1>3. ASSUME \A k \in Trucks : LoadedBy(k)' = LoadedBy(k)
      PROVE  LoadingDone' = LoadingDone
  BY <1>1, <1>2, <1>3, WorkIsSum, SumsAgree
<1>4. ASSUME \A i \in Moves : MovedBy(i)' = MovedBy(i)
      PROVE  MovingDone' = MovingDone
  BY <1>1, <1>2, <1>4, WorkIsSum, SumsAgree
<1> QED
  BY <1>3, <1>4

-----------------------------------------------------------------------------
(* The invariant starts, and each step of a shift keeps it.                *)

LEMMA InitShift == Init => ShiftInvariant
<1> SUFFICES ASSUME Init
             PROVE  ShiftInvariant
  OBVIOUS
<1>1. TypeOK
  <2>1. /\ Shift \in Nat \ {0} /\ MaxRuns \in Nat /\ Bulk \in Place
        /\ 0 \in Nat /\ 1 \in Nat \ {0} /\ 0 \in 0..MaxRuns /\ 0 \in 0..Shift - 1
    BY DigitalTwinAssumption DEF Place
  <2>2. <<>> \in Seq(Job)
    OBVIOUS
  <2>3. metrics \in [DOMAIN NoMetrics -> Nat]
    BY DEF Init, NoMetrics
  <2> QED
    BY <2>1, <2>2, <2>3 DEF Init, TypeOK
<1>2. Holding = {} /\ Timed = {}
  BY DEF Init, Holding, Timed
<1>3. ForkliftsAreHeld
  BY <1>2, FS_EmptySet, DigitalTwinAssumption DEF Init, ForkliftsAreHeld
<1>4. QueueIsOfWaiting /\ NothingIsOverdue
  BY <1>2 DEF Init, QueueIsOfWaiting, NothingIsOverdue
<1>5. WorkTakesTime /\ DeparturesAreBooked /\ (running => runs > 0)
  BY DEF Init, WorkTakesTime, DeparturesAreBooked, Job
<1> QED
  BY <1>1, <1>3, <1>4, <1>5 DEF ShiftInvariant

LEMMA RunShift ==
    ASSUME ShiftInvariant, Run
    PROVE  ShiftInvariant'
<1>1. TypeOK /\ plan' = plan
  BY DEF ShiftInvariant, Run
<1>2. Moves' = Moves /\ Trucks' = Trucks /\ Job' = Job /\ Movement' = Movement /\ Truck' = Truck
  BY <1>1 DEF Moves, Trucks, Job, Movement, Truck
<1>3. /\ Moves = 1..Len(Movement) /\ Len(Movement) \in Nat
      /\ IsFiniteSet(Trucks) /\ IsFiniteSet(Moves) /\ Moves \cap Trucks = {}
      /\ \A k \in Trucks : Truck[k].arrival \in Nat
      /\ Cardinality(Moves) = Len(Movement)
  BY <1>1, PlanShape
<1>4. Forklifts \in Nat \ {0} /\ Shift \in Nat \ {0} /\ MaxRuns \in Nat
  BY DigitalTwinAssumption
<1> DEFINE g == IF Len(Movement) <= Forklifts THEN Len(Movement) ELSE Forklifts
<1>5. GrantedAtOnce = 1..g /\ g \in Nat
  BY <1>3, <1>4 DEF GrantedAtOnce
<1>6. Cardinality(GrantedAtOnce) = g
  <2> HIDE DEF g
  <2>1. Cardinality(1..g) = g
    BY <1>5, FS_Interval
  <2> QED
    BY <1>5, <2>1
<1>7. queue' = [i \in 1..(Len(Movement) - g) |-> Forklifts + i]
  BY <1>3, <1>6 DEF Run
<1>8. \A i \in 1..(Len(Movement) - g) : Forklifts + i \in Moves /\ Forklifts + i \notin GrantedAtOnce
  BY <1>3, <1>4 DEF GrantedAtOnce
<1>9. TypeOK'
  <2>1. queue' \in Seq(Job)
    <3>1. Len(Movement) - g \in Nat
      BY <1>3, <1>4
    <3>2. \A i \in 1..(Len(Movement) - g) : Forklifts + i \in Job
      BY <1>8 DEF Job
    <3> HIDE DEF g
    <3> QED
      BY <1>7, <3>1, <3>2
  <2>2. runs' \in 0..MaxRuns /\ now' \in 0..(Shift - 1)
    BY <1>1, <1>4 DEF Run, TypeOK
  <2>3. wake' \in [Job -> Nat]
    BY <1>3 DEF Run
  <2>4. place' \in [Job -> {"away", "wait", "granted", "work", "between", "gone"}]
    BY DEF Run
  <2>5. /\ left' \in [Trucks -> 0..(Shift - 1)] /\ loads' \in [Trucks -> [fast : Nat, slow : Nat]]
        /\ seen' \in [Trucks -> Place] /\ line' \in [Trucks -> Nat \ {0}]
    BY <1>4 DEF Run, Place
  <2>6. metrics' \in [DOMAIN NoMetrics -> Nat]
    BY DEF Run, NoMetrics
  <2> QED
    BY <1>1, <1>2, <2>1, <2>2, <2>3, <2>4, <2>5, <2>6 DEF TypeOK, Run
<1>10. Holding' = GrantedAtOnce
  BY <1>2, <1>3 DEF Holding, Run, Job, GrantedAtOnce
<1>11. ForkliftsAreHeld'
  BY <1>3, <1>4, <1>6, <1>7, <1>10 DEF ForkliftsAreHeld
<1>12. QueueIsOfWaiting'
  <2>1. \A i \in 1..(Len(Movement) - g) : place'[Forklifts + i] = "wait"
    BY <1>3, <1>8 DEF Run, Job
  <2>2. /\ DOMAIN queue' = 1..(Len(Movement) - g)
        /\ \A n \in DOMAIN queue' : queue'[n] = Forklifts + n
    BY <1>7
  <2> HIDE DEF g
  <2>3. \A n \in DOMAIN queue' : place'[queue'[n]] = "wait"
    BY <2>1, <2>2
  <2>4. \A m, n \in DOMAIN queue' : queue'[m] = queue'[n] => m = n
    BY <1>3, <1>4, <1>5, <2>2
  <2> QED
    BY <2>3, <2>4 DEF QueueIsOfWaiting
<1>13. NothingIsOverdue'
  BY <1>2, <1>3 DEF NothingIsOverdue, Timed, Run, Job
<1>14. LoadingDone' = 0 /\ MovingDone' = 0
  <2>1. \A k \in Trucks : LoadedBy(k)' = 0
    BY <1>2, <1>3, DigitalTwinAssumption DEF LoadedBy, LoadTimeOf, Run, Job
  <2>2. \A i \in Moves : MovedBy(i)' = 0
    BY <1>2, <1>3 DEF MovedBy, Run, Job
  <2>3. /\ LoadingDone' = SumFunctionOnSet([k \in Trucks |-> LoadedBy(k)'], Trucks)
        /\ MovingDone' = SumFunctionOnSet([i \in Moves |-> MovedBy(i)'], Moves)
    BY <1>2 DEF LoadingDone, MovingDone, LoadedBy, MovedBy, SumFunction
  <2>4. \A S : IsFiniteSet(S) => \A f : (\A x \in S : f[x] \in {0}) => SumFunctionOnSet(f, S) \in {0}
    <3> SUFFICES ASSUME NEW S, IsFiniteSet(S), NEW f, \A x \in S : f[x] \in {0}
                 PROVE  SumFunctionOnSet(f, S) \in {0}
      OBVIOUS
    <3> HIDE DEF g
    <3>1. 0 \in {0} /\ \A a, b \in {0} : a + b \in {0}
      OBVIOUS
    <3> QED
      BY <3>1, SumStaysIn
  <2> QED
    BY <1>3, <2>1, <2>2, <2>3, <2>4
<1>15. WorkTakesTime'
  <2>1. \A i \in Moves : place'[i] \in {"granted", "wait"}
    BY <1>3 DEF Run, Job
  <2>2. metrics'.cost = 0 /\ now' = 0
    BY DEF Run, NoMetrics
  <2> QED
    BY <1>2, <1>4, <1>14, <2>1, <2>2 DEF WorkTakesTime
<1>16. DeparturesAreBooked'
  <2>1. \A k \in Trucks : place'[k] = "away"
    BY DEF Run, Job
  <2>2. \A k \in Trucks : Progress(k)'
    BY <1>2, <2>1 DEF Progress, Loaded, Run, Job
  <2>3. Left' = {}
    BY <1>2, <2>1 DEF Left
  <2>4. SumFunction([k \in Left |-> Truck[k].departure - left[k]])' = 0
    <3>1. SumFunctionOnSet([k \in {} |-> Truck'[k].departure - left'[k]], {}) = 0
      BY FS_EmptySet, SumTakesOut
    <3> QED
      BY <2>3, <3>1 DEF SumFunction
  <2>5. metrics'.served = 0 /\ metrics'.early = 0 /\ metrics'.late = 0
    BY DEF Run, NoMetrics
  <2> QED
    BY <1>2, <2>2, <2>3, <2>4, <2>5, FS_EmptySet DEF DeparturesAreBooked
<1>17. running' => runs' > 0
  BY <1>1, <1>4 DEF Run, TypeOK
<1> QED
  BY <1>9, <1>11, <1>12, <1>13, <1>15, <1>16, <1>17 DEF ShiftInvariant

(* A forklift given back goes to one that waits, or to nobody.             *)
LEMMA ReleaseHands ==
    ASSUME TypeOK, ForkliftsAreHeld, QueueIsOfWaiting, plan' = plan,
           NEW j \in Job, place[j] = "work", NEW next \in {"between", "gone"}, Release(j, next)
    PROVE  /\ place' \in [Job -> {"away", "wait", "granted", "work", "between", "gone"}]
           /\ queue' \in Seq(Job)
           /\ place'[j] = next
           /\ \A i \in Job : \/ i = j
                             \/ place'[i] = place[i]
                             \/ place[i] = "wait" /\ place'[i] = "granted"
           /\ ForkliftsAreHeld' /\ QueueIsOfWaiting'
<1>1. Job' = Job /\ place \in [Job -> {"away", "wait", "granted", "work", "between", "gone"}]
      /\ queue \in Seq(Job)
  BY DEF Job, Moves, Trucks, Movement, Truck, TypeOK
<1>2. Forklifts \in Nat \ {0} /\ IsFiniteSet(Holding) /\ Cardinality(Holding) \in Nat
  BY DigitalTwinAssumption, HeldIsFinite
<1>3. j \in Holding
  BY DEF Holding
<1>4. IsFiniteSet(Holding \ {j}) /\ Cardinality(Holding \ {j}) = Cardinality(Holding) - 1
  BY <1>2, <1>3, FS_RemoveElement
<1>5. CASE queue = <<>>
  <2>1. place' = [place EXCEPT ![j] = next] /\ queue' = queue
    BY <1>5 DEF Release
  <2>2. Holding' = Holding \ {j}
    BY <1>1, <2>1 DEF Holding
  <2>3. ForkliftsAreHeld'
    BY <1>2, <1>4, <1>5, <2>1, <2>2 DEF ForkliftsAreHeld
  <2>4. QueueIsOfWaiting'
    BY <1>5, <2>1 DEF QueueIsOfWaiting
  <2> QED
    BY <1>1, <2>1, <2>3, <2>4
<1>6. CASE queue # <<>>
  <2> DEFINE h == Head(queue)
  <2>1. place' = [place EXCEPT ![j] = next, ![h] = "granted"] /\ queue' = Tail(queue)
    BY <1>6 DEF Release
  <2>2. Len(queue) \in Nat \ {0} /\ DOMAIN queue = 1..Len(queue) /\ h = queue[1] /\ h \in Job
    BY <1>1, <1>6
  <2>3. place[h] = "wait"
    BY <2>2 DEF QueueIsOfWaiting
  <2>4. /\ queue' \in Seq(Job) /\ DOMAIN queue' = 1..Len(queue) - 1
        /\ \A n \in DOMAIN queue' : queue'[n] = queue[n + 1] /\ n + 1 \in DOMAIN queue
    BY <1>1, <1>6, <2>1, <2>2
  <2> HIDE DEF h
  <2>5. Holding' = (Holding \ {j}) \cup {h}
    BY <1>1, <2>1, <2>2, <2>3 DEF Holding
  <2>6. h \notin Holding
    BY <2>3 DEF Holding
  <2>7. Cardinality(Holding') = Cardinality(Holding)
    <3> DEFINE others == Holding \ {j}
    <3>1. IsFiniteSet(others) /\ Cardinality(others) = Cardinality(Holding) - 1 /\ h \notin others
      BY <1>4, <2>6
    <3>2. Holding' = others \cup {h}
      BY <2>5
    <3> HIDE DEF others
    <3>3. Cardinality(others \cup {h}) = Cardinality(others) + 1
      BY <3>1, FS_AddElement
    <3> QED
      BY <1>2, <3>1, <3>2, <3>3
  <2>8. ForkliftsAreHeld'
    BY <1>2, <1>6, <2>7 DEF ForkliftsAreHeld
  <2>9. QueueIsOfWaiting'
    <3>1. ASSUME NEW n \in DOMAIN queue'
          PROVE  place'[queue'[n]] = "wait"
      <4>1. queue[n + 1] # h /\ place[queue[n + 1]] = "wait" /\ queue[n + 1] \in Job
        BY <1>1, <2>2, <2>4 DEF QueueIsOfWaiting
      <4> QED
        BY <1>1, <2>1, <2>4, <4>1
    <3>2. \A m, n \in DOMAIN queue' : queue'[m] = queue'[n] => m = n
      BY <2>2, <2>4 DEF QueueIsOfWaiting
    <3> QED
      BY <3>1, <3>2 DEF QueueIsOfWaiting
  <2>10. /\ place' \in [Job -> {"away", "wait", "granted", "work", "between", "gone"}]
         /\ \A i \in Job : place'[i] = IF i = h THEN "granted" ELSE IF i = j THEN next ELSE place[i]
    BY <1>1, <2>1
  <2>11. j # h
    BY <2>3
  <2> QED
    BY <2>2, <2>3, <2>4, <2>8, <2>9, <2>10, <2>11
<1> QED
  BY <1>5, <1>6

LEMMA TravelShift ==
    ASSUME ShiftInvariant, running, NEW i \in Moves, Travel(i)
    PROVE  ShiftInvariant'
<1>1. TypeOK /\ plan' = plan /\ i \in Job
  BY DEF ShiftInvariant, Travel, Job
<1>2. Moves' = Moves /\ Trucks' = Trucks /\ Job' = Job /\ Movement' = Movement /\ Truck' = Truck
  BY <1>1 DEF Moves, Trucks, Job, Movement, Truck
<1>3. Moves \cap Trucks = {} /\ Movement[i].time \in Nat
  BY <1>1, PlanShape
<1>4. now \in Nat /\ \A j \in Job : wake[j] \in Nat
  BY <1>1, DigitalTwinAssumption DEF TypeOK
<1>5. /\ place' = [place EXCEPT ![i] = "work"] /\ place[i] = "granted"
      /\ wake' = [wake EXCEPT ![i] = now + Movement[i].time]
  BY DEF Travel
<1>6. /\ \A j \in Job : place'[j] = IF j = i THEN "work" ELSE place[j]
      /\ \A j \in Job : wake'[j] = IF j = i THEN now + Movement[i].time ELSE wake[j]
  BY <1>1, <1>5 DEF TypeOK
<1>7. \A k \in Trucks : place'[k] = place[k] /\ wake'[k] = wake[k]
  BY <1>3, <1>6 DEF Job
<1>8. TypeOK'
  <2>1. /\ place' \in [Job -> {"away", "wait", "granted", "work", "between", "gone"}]
        /\ wake' \in [Job -> Nat]
    BY <1>1, <1>3, <1>4, <1>5 DEF TypeOK
  <2> QED
    BY <1>1, <1>2, <2>1 DEF TypeOK, Travel
<1>9. ForkliftsAreHeld' /\ QueueIsOfWaiting'
  <2>1. Holding' = Holding
    BY <1>1, <1>2, <1>5, <1>6 DEF Holding
  <2>2. \A n \in DOMAIN queue : queue[n] \in Job
    BY <1>1 DEF TypeOK
  <2> QED
    BY <1>5, <1>6, <2>1, <2>2
       DEF ShiftInvariant, ForkliftsAreHeld, QueueIsOfWaiting, Travel
<1>10. NothingIsOverdue'
  BY <1>2, <1>3, <1>4, <1>6 DEF ShiftInvariant, NothingIsOverdue, Timed, Travel
<1>11. WorkTakesTime'
  <2>1. LoadingDone' = LoadingDone
    BY <1>1, <1>2, <1>7, SameWork DEF LoadedBy, LoadTimeOf, Travel
  <2>2. \A m \in Moves : MovedBy(m)' = MovedBy(m)
    BY <1>2, <1>3, <1>4, <1>5, <1>6 DEF MovedBy, Travel, Job
  <2>3. MovingDone' = MovingDone
    BY <1>1, <2>2, SameWork
  <2> QED
    BY <1>2, <1>3, <1>4, <1>6, <2>1, <2>3 DEF ShiftInvariant, WorkTakesTime, Travel, Job
<1>12. DeparturesAreBooked'
  <2>1. Left' = Left
    BY <1>2, <1>7 DEF Left
  <2>2. \A k \in Trucks : Progress(k) => Progress(k)'
    BY <1>2, <1>7 DEF Progress, Loaded, LoadTimeOf, Travel
  <2> QED
    BY <1>2, <2>1, <2>2 DEF ShiftInvariant, DeparturesAreBooked, Travel
<1> QED
  BY <1>8, <1>9, <1>10, <1>11, <1>12 DEF ShiftInvariant, Travel

LEMMA PutDownShift ==
    ASSUME ShiftInvariant, running, NEW i \in Moves, PutDown(i)
    PROVE  ShiftInvariant'
<1>1. TypeOK /\ plan' = plan /\ i \in Job
  BY DEF ShiftInvariant, PutDown, Job
<1>2. /\ Moves' = Moves /\ Trucks' = Trucks /\ Job' = Job /\ Movement' = Movement /\ Truck' = Truck
      /\ Moves \cap Trucks = {} /\ Job = Moves \cup Trucks /\ now \in Nat
      /\ \A j \in Job : wake[j] \in Nat
      /\ \A j \in Moves : Movement[j].time \in Nat
  BY <1>1, Frame
<1>3. place[i] = "work" /\ wake[i] = now /\ wake' = wake /\ now' = now
  BY DEF PutDown
<1>4. /\ place' \in [Job -> {"away", "wait", "granted", "work", "between", "gone"}]
      /\ queue' \in Seq(Job)
      /\ place'[i] = "gone"
      /\ \A j \in Job : j = i \/ place'[j] = place[j] \/ (place[j] = "wait" /\ place'[j] = "granted")
      /\ ForkliftsAreHeld' /\ QueueIsOfWaiting'
  BY <1>1, <1>3, ReleaseHands DEF ShiftInvariant, PutDown
<1>5. TypeOK'
  <2>1. where' \in [Sku -> Place]
    BY <1>1, PlanShape DEF TypeOK, PutDown, Applied
  <2>2. metrics' \in [DOMAIN NoMetrics -> Nat]
    <3>1. /\ metrics \in [{"executed", "cost", "served", "early", "late"} -> Nat]
          /\ metrics' = [metrics EXCEPT !.executed = @ + 1, !.cost = @ + Movement[i].time]
          /\ Movement[i].time \in Nat
      BY <1>1, <1>2, MetricNames DEF TypeOK, PutDown
    <3>2. metrics.executed + 1 \in Nat /\ metrics.cost + Movement[i].time \in Nat
      BY <3>1
    <3>3. metrics' \in [{"executed", "cost", "served", "early", "late"} -> Nat]
      BY <3>1, <3>2
    <3> QED
      BY <3>3, MetricNames
  <2> QED
    BY <1>1, <1>2, <1>4, <2>1, <2>2 DEF TypeOK, PutDown
<1>6. NothingIsOverdue'
  BY <1>2, <1>3, <1>4 DEF ShiftInvariant, NothingIsOverdue, Timed
<1>7. WorkTakesTime'
  <2>1. LoadingDone' = LoadingDone
    <3>1. \A k \in Trucks : place'[k] = "work" <=> place[k] = "work"
      BY <1>2, <1>4
    <3> QED
      BY <1>1, <1>2, <1>3, <3>1, SameWork DEF LoadedBy, LoadTimeOf, PutDown
  <2>2. MovingDone' = MovingDone - Movement[i].time
    <3> DEFINE f == [m \in Moves |-> MovedBy(m)]
               e == [m \in Moves |-> MovedBy(m)']
    <3>1. \A m \in Moves : m # i => MovedBy(m)' = MovedBy(m)
      BY <1>2, <1>3, <1>4 DEF MovedBy
    <3>2. MovedBy(i) = Movement[i].time /\ MovedBy(i)' = 0
      BY <1>2, <1>3, <1>4 DEF MovedBy
    <3>3. \A m \in Moves : MovedBy(m) \in Int
      BY <1>1, WorkIsInteger
    <3>4. \A m \in Moves : f[m] \in Int /\ e[m] \in Int
      BY <1>2, <3>1, <3>2, <3>3
    <3>5. \A m \in Moves : m # i => e[m] = f[m]
      BY <3>1
    <3>6. e[i] - f[i] = 0 - Movement[i].time
      BY <3>2
    <3>7. MovingDone = SumFunctionOnSet(f, Moves) /\ MovingDone' = SumFunctionOnSet(e, Moves)
      BY <1>2 DEF MovingDone, MovedBy, SumFunction
    <3>8. IsFiniteSet(Moves) /\ MovingDone \in Int
      BY <1>1, PlanShape, WorkIsInteger
    <3> HIDE DEF f, e
    <3>9. SumFunctionOnSet(e, Moves) = SumFunctionOnSet(f, Moves) + (e[i] - f[i])
      BY <3>4, <3>5, <3>8, SumChangesAt
    <3> QED
      BY <1>2, <3>6, <3>7, <3>8, <3>9
  <2>3. metrics'.cost = metrics.cost + Movement[i].time /\ metrics.cost \in Nat
    BY <1>1, <1>2 DEF TypeOK, PutDown, NoMetrics
  <2>4. \A j \in Moves : place'[j] \notin {"away", "between"} /\ (place'[j] = "work" => place[j] = "work")
    BY <1>2, <1>4 DEF ShiftInvariant, WorkTakesTime
  <2>5. LoadingDone' + MovingDone' + metrics'.cost = LoadingDone + MovingDone + metrics.cost
    BY <1>1, <1>2, <2>1, <2>2, <2>3, WorkIsInteger
  <2> QED
    BY <1>2, <1>3, <2>4, <2>5 DEF ShiftInvariant, WorkTakesTime, PutDown
<1>8. DeparturesAreBooked'
  <2>1. Left' = Left
    BY <1>2, <1>4 DEF Left
  <2>2. \A k \in Trucks : Progress(k) => Progress(k)'
    BY <1>2, <1>4 DEF Progress, Loaded, LoadTimeOf, PutDown
  <2>3. metrics'.served = metrics.served /\ metrics'.early = metrics.early /\ metrics'.late = metrics.late
    BY <1>1 DEF TypeOK, PutDown, NoMetrics
  <2> QED
    BY <1>2, <2>1, <2>2, <2>3 DEF ShiftInvariant, DeparturesAreBooked, PutDown
<1> QED
  BY <1>4, <1>5, <1>6, <1>7, <1>8 DEF ShiftInvariant, PutDown

LEMMA RequestShift ==
    ASSUME ShiftInvariant, running, NEW k \in Trucks, Request(k)
    PROVE  ShiftInvariant'
<1>1. TypeOK /\ plan' = plan /\ k \in Job
  BY DEF ShiftInvariant, Request, Job
<1>2. /\ Moves' = Moves /\ Trucks' = Trucks /\ Job' = Job /\ Movement' = Movement /\ Truck' = Truck
      /\ Moves \cap Trucks = {} /\ Job = Moves \cup Trucks /\ now \in Nat
      /\ Truck[k].arrival \in Nat
  BY <1>1, Frame
<1>3. /\ RequestOutcome(k) \in {"granted", "wait"}
      /\ place' = [place EXCEPT ![k] = RequestOutcome(k)]
      /\ place[k] \in {"away", "between"} /\ (place[k] = "away" => wake[k] = now)
      /\ wake' = wake /\ now' = now /\ left' = left /\ line' = line /\ loads' = loads
      /\ metrics' = metrics /\ runs' = runs /\ running' = running
  BY DEF Request, AtDoor, RequestOutcome
<1>4. \A j \in Job : place'[j] = IF j = k THEN RequestOutcome(k) ELSE place[j]
  BY <1>1, <1>3 DEF TypeOK
<1>5. Forklifts \in Nat \ {0} /\ IsFiniteSet(Holding) /\ Cardinality(Holding) \in Nat
  BY <1>1, DigitalTwinAssumption, HeldIsFinite
<1>6. k \notin Holding /\ \A n \in DOMAIN queue : queue[n] # k /\ queue[n] \in Job
  BY <1>1, <1>3 DEF Holding, ShiftInvariant, QueueIsOfWaiting, TypeOK
<1>7. /\ queue \in Seq(Job) /\ queue' \in Seq(Job) /\ ForkliftsAreHeld' /\ QueueIsOfWaiting'
  <2>1. CASE RequestOutcome(k) = "granted"
    <3>1. queue' = queue /\ Cardinality(Holding) < Forklifts
      BY <2>1 DEF Request, RequestOutcome
    <3>2. Holding' = Holding \cup {k}
      BY <1>1, <1>2, <1>4, <2>1 DEF Holding
    <3>3. Cardinality(Holding') = Cardinality(Holding) + 1
      BY <1>5, <1>6, <3>2, FS_AddElement
    <3>4. queue = <<>>
      BY <1>5, <3>1 DEF ShiftInvariant, ForkliftsAreHeld
    <3>5. ForkliftsAreHeld'
      BY <1>5, <3>1, <3>3, <3>4 DEF ForkliftsAreHeld
    <3>6. QueueIsOfWaiting'
      BY <3>1, <3>4 DEF QueueIsOfWaiting
    <3> QED
      BY <1>1, <3>1, <3>5, <3>6 DEF TypeOK
  <2>2. CASE RequestOutcome(k) = "wait"
    <3>1. queue' = Append(queue, k) /\ ~ (Cardinality(Holding) < Forklifts)
      BY <2>2 DEF Request, RequestOutcome, Queued
    <3>2. queue \in Seq(Job)
      BY <1>1 DEF TypeOK
    <3>3. /\ queue' \in Seq(Job) /\ Len(queue) \in Nat /\ DOMAIN queue = 1..Len(queue)
          /\ DOMAIN queue' = 1..Len(queue) + 1
          /\ \A n \in DOMAIN queue' : queue'[n] = IF n = Len(queue) + 1 THEN k ELSE queue[n]
      BY <1>1, <3>1, <3>2
    <3>4. Holding' = Holding
      BY <1>2, <1>4, <1>6, <2>2 DEF Holding
    <3>5. ForkliftsAreHeld'
      BY <1>5, <3>1, <3>4 DEF ForkliftsAreHeld, ShiftInvariant
    <3>6. \A n \in DOMAIN queue' : n # Len(queue) + 1 => n \in DOMAIN queue
      BY <3>3
    <3>7. QueueIsOfWaiting'
      <4>1. \A n \in DOMAIN queue' : place'[queue'[n]] = "wait"
        BY <1>1, <1>4, <1>6, <2>2, <3>3, <3>6 DEF ShiftInvariant, QueueIsOfWaiting
      <4>2. \A m, n \in DOMAIN queue' : queue'[m] = queue'[n] => m = n
        BY <1>6, <3>3, <3>6 DEF ShiftInvariant, QueueIsOfWaiting
      <4> QED
        BY <4>1, <4>2 DEF QueueIsOfWaiting
    <3> QED
      BY <3>2, <3>3, <3>5, <3>7
  <2> QED
    BY <1>3, <2>1, <2>2
<1>8. TypeOK'
  <2>1. seen' \in [Trucks -> Place]
    <3>1. Found(Truck[k].lines[line[k]]) \in Place
      BY <1>1 DEF TypeOK, Found, Place
    <3> QED
      BY <1>1, <3>1 DEF TypeOK, Request
  <2>2. place' \in [Job -> {"away", "wait", "granted", "work", "between", "gone"}]
    BY <1>1, <1>3 DEF TypeOK
  <2> QED
    BY <1>1, <1>2, <1>7, <2>1, <2>2 DEF TypeOK, Request
<1>9. NothingIsOverdue'
  BY <1>2, <1>3, <1>4 DEF ShiftInvariant, NothingIsOverdue, Timed
<1>10. WorkTakesTime'
  <2>1. LoadingDone' = LoadingDone /\ MovingDone' = MovingDone
    <3>1. \A j \in Job : place'[j] = "work" <=> place[j] = "work"
      BY <1>3, <1>4
    <3> QED
      BY <1>1, <1>2, <1>3, <3>1, SameWork DEF LoadedBy, MovedBy, LoadTimeOf
  <2> QED
    BY <1>2, <1>3, <1>4, <2>1 DEF ShiftInvariant, WorkTakesTime
<1>11. DeparturesAreBooked'
  <2>1. Left' = Left
    BY <1>2, <1>3, <1>4 DEF Left
  <2>2. ASSUME NEW n \in Trucks, Progress(n)
        PROVE  Progress(n)'
    <3>1. CASE n # k
      BY <1>2, <1>3, <1>4, <2>2, <3>1 DEF Progress, Loaded, LoadTimeOf
    <3>2. CASE n = k
      <4>1. line[k] <= Len(Truck[k].lines)
        <5>1. Len(Truck[k].lines) \in Nat
          BY <1>1, PlanShape
        <5>2. line[k] \in Nat
          BY <1>1 DEF TypeOK
        <5> QED
          BY <1>1, <5>1, <5>2 DEF Request, Finished
      <4>2. loads[k].fast \in Nat /\ loads[k].slow \in Nat /\ FastTime \in Nat /\ LoadTime \in Nat
        BY <1>1, DigitalTwinAssumption DEF TypeOK
      <4>3. place[k] = "away" => loads[k].fast = 0 /\ loads[k].slow = 0
        BY <2>2, <3>2, <4>2 DEF Progress, Loaded
      <4>4. place[k] = "away" => LoadTimeOf(k) = 0
        BY <4>2, <4>3 DEF LoadTimeOf
      <4>5. now - Truck[k].arrival >= LoadTimeOf(k)
        BY <1>2, <1>3, <2>2, <3>2, <4>4 DEF Progress
      <4>6. Loaded(k) = line[k] - 1
        BY <1>3, <2>2, <3>2 DEF Progress
      <4>7. LoadTimeOf(k)' = LoadTimeOf(k) /\ Loaded(k)' = Loaded(k)
        BY <1>3 DEF LoadTimeOf, Loaded
      <4> QED
        BY <1>1, <1>2, <1>3, <1>4, <3>2, <4>1, <4>5, <4>6, <4>7 DEF Progress
    <3> QED
      BY <3>1, <3>2
  <2> QED
    BY <1>2, <1>3, <2>1, <2>2 DEF ShiftInvariant, DeparturesAreBooked
<1> QED
  BY <1>3, <1>7, <1>8, <1>9, <1>10, <1>11 DEF ShiftInvariant

LEMMA LoadShift ==
    ASSUME ShiftInvariant, running, NEW k \in Trucks, Load(k)
    PROVE  ShiftInvariant'
<1> DEFINE t == IF PreStaged(k) THEN FastTime ELSE LoadTime
<1>1. TypeOK /\ plan' = plan /\ k \in Job
  BY DEF ShiftInvariant, Load, Job
<1>2. /\ Moves' = Moves /\ Trucks' = Trucks /\ Job' = Job /\ Movement' = Movement /\ Truck' = Truck
      /\ Moves \cap Trucks = {} /\ Job = Moves \cup Trucks /\ now \in Nat
      /\ Truck[k].arrival \in Nat
      /\ \A j \in Job : wake[j] \in Nat
  BY <1>1, Frame
<1>3. FastTime \in Nat /\ LoadTime \in Nat /\ t \in Nat
  BY DigitalTwinAssumption
<1>4. /\ place[k] = "granted" /\ place' = [place EXCEPT ![k] = "work"]
      /\ wake' = [wake EXCEPT ![k] = now + t]
      /\ loads' = IF PreStaged(k) THEN [loads EXCEPT ![k].fast = @ + 1]
                                  ELSE [loads EXCEPT ![k].slow = @ + 1]
      /\ runs' = runs /\ running' = running /\ now' = now /\ queue' = queue
      /\ line' = line /\ left' = left /\ metrics' = metrics
  BY DEF Load
<1>5. /\ \A j \in Job : place'[j] = IF j = k THEN "work" ELSE place[j]
      /\ \A j \in Job : wake'[j] = IF j = k THEN now + t ELSE wake[j]
  BY <1>1, <1>4 DEF TypeOK
<1>6. loads[k].fast \in Nat /\ loads[k].slow \in Nat
  BY <1>1 DEF TypeOK
<1>7. /\ loads' \in [Trucks -> [fast : Nat, slow : Nat]]
      /\ \A n \in Trucks : n # k => loads'[n] = loads[n]
      /\ loads'[k].fast = IF PreStaged(k) THEN loads[k].fast + 1 ELSE loads[k].fast
      /\ loads'[k].slow = IF PreStaged(k) THEN loads[k].slow ELSE loads[k].slow + 1
  <2>1. loads \in [Trucks -> [fast : Nat, slow : Nat]]
    BY <1>1 DEF TypeOK
  <2>2. CASE PreStaged(k)
    BY <1>4, <1>6, <2>1, <2>2
  <2>3. CASE ~ PreStaged(k)
    BY <1>4, <1>6, <2>1, <2>3
  <2> QED
    BY <2>2, <2>3
<1>8. LoadTimeOf(k)' = LoadTimeOf(k) + t /\ Loaded(k)' = Loaded(k) + 1
  <2>1. CASE PreStaged(k)
    <3>1. \A n, m \in Nat : (n + 1) * m = n * m + m /\ n * m \in Nat
      OBVIOUS
    <3>2. loads'[k].fast = loads[k].fast + 1 /\ loads'[k].slow = loads[k].slow /\ t = FastTime
      BY <1>7, <2>1
    <3> HIDE DEF t
    <3>3. LoadTimeOf(k)' = (loads[k].fast + 1) * FastTime + loads[k].slow * LoadTime
      BY <3>2 DEF LoadTimeOf
    <3>4. LoadTimeOf(k)' = LoadTimeOf(k) + t
      BY <1>3, <1>6, <3>1, <3>2, <3>3 DEF LoadTimeOf
    <3> QED
      BY <1>6, <3>2, <3>4 DEF Loaded
  <2>2. CASE ~ PreStaged(k)
    <3>1. \A n, m \in Nat : (n + 1) * m = n * m + m /\ n * m \in Nat
      OBVIOUS
    <3>2. loads'[k].fast = loads[k].fast /\ loads'[k].slow = loads[k].slow + 1 /\ t = LoadTime
      BY <1>7, <2>2
    <3> HIDE DEF t
    <3>3. LoadTimeOf(k)' = loads[k].fast * FastTime + (loads[k].slow + 1) * LoadTime
      BY <3>2 DEF LoadTimeOf
    <3>4. LoadTimeOf(k)' = LoadTimeOf(k) + t
      BY <1>3, <1>6, <3>1, <3>2, <3>3 DEF LoadTimeOf
    <3> QED
      BY <1>6, <3>2, <3>4 DEF Loaded
  <2> QED
    BY <2>1, <2>2
<1>9. LoadTimeOf(k) \in Nat
  BY <1>1, WorkIsInteger
<1> HIDE DEF t
<1>10. TypeOK'
  <2>1. /\ place' \in [Job -> {"away", "wait", "granted", "work", "between", "gone"}]
        /\ wake' \in [Job -> Nat]
    BY <1>1, <1>2, <1>3, <1>4 DEF TypeOK
  <2> QED
    BY <1>1, <1>2, <1>7, <2>1 DEF TypeOK, Load
<1>11. ForkliftsAreHeld' /\ QueueIsOfWaiting'
  <2>1. Holding' = Holding
    BY <1>1, <1>2, <1>4, <1>5 DEF Holding
  <2>2. \A n \in DOMAIN queue : queue[n] \in Job
    BY <1>1 DEF TypeOK
  <2> QED
    BY <1>4, <1>5, <2>1, <2>2 DEF ShiftInvariant, ForkliftsAreHeld, QueueIsOfWaiting
<1>12. NothingIsOverdue'
  BY <1>2, <1>3, <1>4, <1>5 DEF ShiftInvariant, NothingIsOverdue, Timed
<1>13. WorkTakesTime'
  <2>1. \A n \in Trucks : LoadedBy(n)' = LoadedBy(n)
    <3>1. LoadedBy(k)' = LoadedBy(k)
      BY <1>1, <1>2, <1>3, <1>4, <1>5, <1>8, <1>9 DEF LoadedBy
    <3>2. \A n \in Trucks : n # k => LoadedBy(n)' = LoadedBy(n)
      BY <1>2, <1>4, <1>5, <1>7 DEF LoadedBy, LoadTimeOf
    <3> QED
      BY <3>1, <3>2
  <2>2. \A i \in Moves : place'[i] = place[i] /\ wake'[i] = wake[i]
    BY <1>2, <1>5
  <2>3. LoadingDone' = LoadingDone
    BY <1>1, <2>1, SameWork
  <2>4. MovingDone' = MovingDone
    BY <1>1, <1>2, <1>4, <2>2, SameWork DEF MovedBy
  <2> QED
    BY <1>2, <1>4, <2>2, <2>3, <2>4 DEF ShiftInvariant, WorkTakesTime
<1>14. DeparturesAreBooked'
  <2>1. Left' = Left
    BY <1>2, <1>4, <1>5 DEF Left
  <2>2. ASSUME NEW n \in Trucks, Progress(n)
        PROVE  Progress(n)'
    <3>1. CASE n # k
      BY <1>2, <1>4, <1>5, <1>7, <2>2, <3>1 DEF Progress, Loaded, LoadTimeOf
    <3>2. CASE n = k
      <4>1. /\ line[k] <= Len(Truck[k].lines) /\ Loaded(k) = line[k] - 1
            /\ now - Truck[k].arrival >= LoadTimeOf(k)
        BY <1>4, <2>2, <3>2 DEF Progress
      <4>2. line[k] \in Nat
        BY <1>1 DEF TypeOK
      <4>3. place'[k] = "work" /\ wake'[k] = now + t
        BY <1>1, <1>5
      <4>4. wake'[k] - Truck[k].arrival >= LoadTimeOf(k)' /\ Loaded(k)' = line'[k]
        BY <1>2, <1>3, <1>4, <1>8, <1>9, <4>1, <4>2, <4>3
      <4> QED
        BY <1>2, <1>4, <3>2, <4>1, <4>3, <4>4 DEF Progress
    <3> QED
      BY <3>1, <3>2
  <2> QED
    BY <1>2, <1>4, <2>1, <2>2 DEF ShiftInvariant, DeparturesAreBooked
<1> QED
  BY <1>4, <1>10, <1>11, <1>12, <1>13, <1>14 DEF ShiftInvariant

LEMMA LineLoadedShift ==
    ASSUME ShiftInvariant, running, NEW k \in Trucks, LineLoaded(k)
    PROVE  ShiftInvariant'
<1>1. TypeOK /\ plan' = plan /\ k \in Job
  BY DEF ShiftInvariant, LineLoaded, Job
<1>2. /\ Moves' = Moves /\ Trucks' = Trucks /\ Job' = Job /\ Movement' = Movement /\ Truck' = Truck
      /\ Moves \cap Trucks = {} /\ Job = Moves \cup Trucks /\ now \in Nat
      /\ Truck[k].arrival \in Nat
  BY <1>1, Frame
<1>3. /\ place[k] = "work" /\ wake[k] = now /\ line' = [line EXCEPT ![k] = @ + 1]
      /\ wake' = wake /\ now' = now /\ loads' = loads /\ left' = left /\ metrics' = metrics
      /\ runs' = runs /\ running' = running
  BY DEF LineLoaded
<1>4. /\ place' \in [Job -> {"away", "wait", "granted", "work", "between", "gone"}]
      /\ queue' \in Seq(Job)
      /\ place'[k] = "between"
      /\ \A j \in Job : j = k \/ place'[j] = place[j] \/ (place[j] = "wait" /\ place'[j] = "granted")
      /\ ForkliftsAreHeld' /\ QueueIsOfWaiting'
  BY <1>1, <1>3, ReleaseHands DEF ShiftInvariant, LineLoaded
<1>5. /\ line' \in [Trucks -> Nat \ {0}] /\ line[k] \in Nat
      /\ \A n \in Trucks : line'[n] = IF n = k THEN line[k] + 1 ELSE line[n]
  BY <1>1, <1>3 DEF TypeOK
<1>6. TypeOK'
  BY <1>1, <1>2, <1>4, <1>5 DEF TypeOK, LineLoaded
<1>7. NothingIsOverdue'
  BY <1>2, <1>3, <1>4 DEF ShiftInvariant, NothingIsOverdue, Timed
<1>8. WorkTakesTime'
  <2>1. \A n \in Trucks : LoadedBy(n)' = LoadedBy(n)
    <3>1. \A n \in Trucks : n # k => LoadedBy(n)' = LoadedBy(n)
      BY <1>2, <1>3, <1>4 DEF LoadedBy, LoadTimeOf
    <3>2. LoadTimeOf(k)' = LoadTimeOf(k) /\ LoadTimeOf(k) \in Nat
      BY <1>1, <1>3, WorkIsInteger DEF LoadTimeOf
    <3>3. LoadedBy(k)' = LoadedBy(k)
      BY <1>2, <1>3, <1>4, <3>2 DEF LoadedBy
    <3> QED
      BY <3>1, <3>3
  <2>2. LoadingDone' = LoadingDone
    BY <1>1, <2>1, SameWork
  <2>3. \A i \in Moves : place'[i] = "work" <=> place[i] = "work"
    BY <1>2, <1>4
  <2>4. MovingDone' = MovingDone
    BY <1>1, <1>2, <1>3, <2>3, SameWork DEF MovedBy
  <2> QED
    BY <1>2, <1>3, <1>4, <2>2, <2>4 DEF ShiftInvariant, WorkTakesTime
<1>9. DeparturesAreBooked'
  <2>1. Left' = Left
    BY <1>2, <1>3, <1>4 DEF Left
  <2>2. ASSUME NEW n \in Trucks, Progress(n)
        PROVE  Progress(n)'
    <3>1. CASE n # k
      BY <1>2, <1>3, <1>4, <1>5, <2>2, <3>1 DEF Progress, Loaded, LoadTimeOf
    <3>2. CASE n = k
      <4>1. /\ line[k] <= Len(Truck[k].lines) /\ Loaded(k) = line[k]
            /\ now - Truck[k].arrival >= LoadTimeOf(k)
        BY <1>3, <2>2, <3>2 DEF Progress
      <4>2. LoadTimeOf(k)' = LoadTimeOf(k) /\ Loaded(k)' = Loaded(k)
        BY <1>3 DEF LoadTimeOf, Loaded
      <4>3. Len(Truck[k].lines) \in Nat
        BY <1>1, PlanShape
      <4>4. line'[k] <= Len(Truck'[k].lines) + 1 /\ Loaded(k)' = line'[k] - 1
        BY <1>2, <1>5, <4>1, <4>2, <4>3
      <4> QED
        BY <1>2, <1>3, <1>4, <3>2, <4>1, <4>2, <4>4 DEF Progress
    <3> QED
      BY <3>1, <3>2
  <2> QED
    BY <1>2, <1>3, <2>1, <2>2 DEF ShiftInvariant, DeparturesAreBooked
<1> QED
  BY <1>3, <1>4, <1>6, <1>7, <1>8, <1>9 DEF ShiftInvariant

LEMMA DepartShift ==
    ASSUME ShiftInvariant, running, NEW k \in Trucks, Depart(k)
    PROVE  ShiftInvariant'
<1>1. TypeOK /\ plan' = plan /\ k \in Job
  BY DEF ShiftInvariant, Depart, Job
<1>2. /\ Moves' = Moves /\ Trucks' = Trucks /\ Job' = Job /\ Movement' = Movement /\ Truck' = Truck
      /\ Moves \cap Trucks = {} /\ Job = Moves \cup Trucks /\ now \in Nat /\ now \in 0..(Shift - 1)
      /\ Truck[k].arrival \in Nat
  BY <1>1, Frame
<1>3. /\ place[k] \in {"away", "between"} /\ (place[k] = "away" => wake[k] = now)
      /\ line[k] > Len(Truck[k].lines)
      /\ place' = [place EXCEPT ![k] = "gone"] /\ left' = [left EXCEPT ![k] = now]
      /\ metrics' = Booked(k)
      /\ wake' = wake /\ now' = now /\ loads' = loads /\ line' = line /\ queue' = queue
      /\ runs' = runs /\ running' = running
  BY DEF Depart, AtDoor, Finished
<1>4. /\ \A j \in Job : place'[j] = IF j = k THEN "gone" ELSE place[j]
      /\ \A n \in Trucks : left'[n] = IF n = k THEN now ELSE left[n]
  BY <1>1, <1>3 DEF TypeOK
<1>5. \A n \in Trucks : Truck[n].departure \in Int /\ left[n] \in Int
  <2>1. \A n \in Trucks : Truck[n].departure \in Int
    BY <1>1, PlanShape
  <2>2. left \in [Trucks -> 0..(Shift - 1)] /\ Shift \in Nat
    BY <1>1, DigitalTwinAssumption DEF TypeOK
  <2>3. \A n \in Trucks : left[n] \in Int
    BY <2>2
  <2> QED
    BY <2>1, <2>3
<1>6. /\ metrics \in [{"executed", "cost", "served", "early", "late"} -> Nat]
      /\ metrics' \in [{"executed", "cost", "served", "early", "late"} -> Nat]
      /\ metrics'.cost = metrics.cost /\ metrics'.served = metrics.served + 1
      /\ metrics'.early - metrics'.late
            = (metrics.early - metrics.late) + (Truck[k].departure - now)
  <2>1. metrics \in [{"executed", "cost", "served", "early", "late"} -> Nat]
    BY <1>1, MetricNames DEF TypeOK
  <2>2. metrics.served \in Nat /\ metrics.early \in Nat /\ metrics.late \in Nat
    BY <2>1
  <2>3. CASE Truck[k].departure >= now
    <3>1. metrics' = [metrics EXCEPT !.served = @ + 1, !.early = @ + (Truck[k].departure - now)]
      BY <1>3, <2>3 DEF Booked
    <3>2. metrics.served + 1 \in Nat /\ metrics.early + (Truck[k].departure - now) \in Nat
      BY <1>2, <1>5, <2>2, <2>3
    <3>3. /\ metrics' \in [{"executed", "cost", "served", "early", "late"} -> Nat]
          /\ metrics'.cost = metrics.cost /\ metrics'.served = metrics.served + 1
          /\ metrics'.early = metrics.early + (Truck[k].departure - now)
          /\ metrics'.late = metrics.late
      BY <2>1, <3>1, <3>2
    <3> QED
      BY <1>2, <1>5, <2>1, <2>2, <3>3
  <2>4. CASE ~ (Truck[k].departure >= now)
    <3>1. metrics' = [metrics EXCEPT !.served = @ + 1, !.late = @ + (now - Truck[k].departure)]
      BY <1>3, <2>4 DEF Booked
    <3>2. metrics.served + 1 \in Nat /\ metrics.late + (now - Truck[k].departure) \in Nat
      BY <1>2, <1>5, <2>2, <2>4
    <3>3. /\ metrics' \in [{"executed", "cost", "served", "early", "late"} -> Nat]
          /\ metrics'.cost = metrics.cost /\ metrics'.served = metrics.served + 1
          /\ metrics'.late = metrics.late + (now - Truck[k].departure)
          /\ metrics'.early = metrics.early
      BY <2>1, <3>1, <3>2
    <3> QED
      BY <1>2, <1>5, <2>1, <2>2, <3>3
  <2> QED
    BY <2>3, <2>4
<1>7. TypeOK'
  <2>1. /\ place' \in [Job -> {"away", "wait", "granted", "work", "between", "gone"}]
        /\ left' \in [Trucks -> 0..(Shift - 1)]
    BY <1>1, <1>2, <1>3 DEF TypeOK
  <2>2. metrics' \in [DOMAIN NoMetrics -> Nat]
    BY <1>6, MetricNames
  <2> QED
    BY <1>1, <1>2, <2>1, <2>2 DEF TypeOK, Depart
<1>8. ForkliftsAreHeld' /\ QueueIsOfWaiting'
  <2>1. Holding' = Holding
    BY <1>1, <1>2, <1>3, <1>4 DEF Holding
  <2>2. \A n \in DOMAIN queue : queue[n] \in Job
    BY <1>1 DEF TypeOK
  <2> QED
    BY <1>3, <1>4, <2>1, <2>2 DEF ShiftInvariant, ForkliftsAreHeld, QueueIsOfWaiting
<1>9. NothingIsOverdue'
  BY <1>2, <1>3, <1>4 DEF ShiftInvariant, NothingIsOverdue, Timed
<1>10. WorkTakesTime'
  <2>1. \A j \in Job : place'[j] = "work" <=> place[j] = "work"
    BY <1>3, <1>4
  <2>2. LoadingDone' = LoadingDone /\ MovingDone' = MovingDone
    BY <1>1, <1>2, <1>3, <2>1, SameWork DEF LoadedBy, MovedBy, LoadTimeOf
  <2> QED
    BY <1>2, <1>3, <1>4, <1>6, <2>2 DEF ShiftInvariant, WorkTakesTime
<1>11. DeparturesAreBooked'
  <2> SUFFICES ASSUME runs > 0
               PROVE  DeparturesAreBooked'
    BY <1>3 DEF DeparturesAreBooked
  <2>1. Left' = Left \cup {k} /\ k \notin Left /\ IsFiniteSet(Left) /\ Left \subseteq Trucks
    <3>1. Left \subseteq Trucks
      BY DEF Left
    <3>2. IsFiniteSet(Left)
      BY <1>1, <3>1, PlanShape, FS_Subset
    <3> QED
      BY <1>1, <1>2, <1>3, <1>4, <3>1, <3>2 DEF Left
  <2>2. ASSUME NEW n \in Trucks
        PROVE  Progress(n)'
    <3>1. Progress(n)
      BY DEF ShiftInvariant, DeparturesAreBooked
    <3>2. CASE n # k
      BY <1>2, <1>3, <1>4, <3>1, <3>2 DEF Progress, Loaded, LoadTimeOf
    <3>3. CASE n = k
      <4>1. /\ loads[k].fast \in Nat /\ loads[k].slow \in Nat
            /\ FastTime \in Nat /\ LoadTime \in Nat /\ line[k] \in Nat
            /\ Len(Truck[k].lines) \in Nat
        <5>1. loads[k] \in [fast : Nat, slow : Nat] /\ line[k] \in Nat
          BY <1>1 DEF TypeOK
        <5>2. Truck[k].lines \in Seq(AnySku)
          BY <1>1, PlanShape
        <5> QED
          BY <5>1, <5>2, DigitalTwinAssumption
      <4>2. place[k] = "away" => loads[k].fast = 0 /\ loads[k].slow = 0
        BY <3>1, <3>3, <4>1 DEF Progress, Loaded
      <4>3. place[k] = "away" => LoadTimeOf(k) = 0
        BY <4>1, <4>2 DEF LoadTimeOf
      <4>4. now - Truck[k].arrival >= LoadTimeOf(k)
        BY <1>2, <1>3, <3>1, <3>3, <4>3 DEF Progress
      <4>5. Loaded(k) = Len(Truck[k].lines)
        BY <1>3, <3>1, <3>3, <4>1 DEF Progress
      <4>6. LoadTimeOf(k)' = LoadTimeOf(k) /\ Loaded(k)' = Loaded(k)
        BY <1>3 DEF LoadTimeOf, Loaded
      <4> QED
        BY <1>1, <1>2, <1>4, <3>3, <4>4, <4>5, <4>6 DEF Progress
    <3> QED
      BY <3>2, <3>3
  <2>3. metrics'.served = Cardinality(Left')
    <3>1. Cardinality(Left \cup {k}) = Cardinality(Left) + 1
      BY <2>1, FS_AddElement
    <3> QED
      BY <1>6, <2>1, <3>1 DEF ShiftInvariant, DeparturesAreBooked
  <2>4. metrics'.early - metrics'.late
          = SumFunction([n \in Left |-> Truck[n].departure - left[n]])'
    <3> DEFINE f == [n \in Left |-> Truck[n].departure - left[n]]
               e == [n \in Left \cup {k} |-> Truck[n].departure - left'[n]]
    <3>1. SumFunction([n \in Left |-> Truck[n].departure - left[n]]) = SumFunctionOnSet(f, Left)
      BY DEF SumFunction
    <3>2. SumFunction([n \in Left |-> Truck[n].departure - left[n]])'
            = SumFunctionOnSet(e, Left \cup {k})
      BY <1>2, <2>1 DEF SumFunction
    <3>3. \A n \in Left : f[n] \in Int /\ e[n] = f[n]
      BY <1>4, <1>5, <2>1
    <3>4. e[k] = Truck[k].departure - now /\ e[k] \in Int
      BY <1>2, <1>4, <1>5
    <3>5. metrics.early - metrics.late = SumFunctionOnSet(f, Left)
      BY <3>1 DEF ShiftInvariant, DeparturesAreBooked
    <3> HIDE DEF f, e
    <3>6. SumFunctionOnSet(e, Left \cup {k}) = SumFunctionOnSet(f, Left) + e[k]
      BY <2>1, <3>3, <3>4, SumGrowsAt
    <3> QED
      BY <1>6, <3>2, <3>4, <3>5, <3>6
  <2> QED
    BY <1>2, <2>2, <2>3, <2>4 DEF DeparturesAreBooked
<1> QED
  BY <1>3, <1>7, <1>8, <1>9, <1>10, <1>11 DEF ShiftInvariant

LEMMA ShiftEndsShift ==
    ASSUME ShiftInvariant, ShiftEnds
    PROVE  ShiftInvariant'
<1>1. /\ plan' = plan /\ runs' = runs /\ where' = where /\ now' = now /\ queue' = queue
      /\ place' = place /\ wake' = wake /\ line' = line /\ seen' = seen /\ loads' = loads
      /\ left' = left /\ metrics' = metrics /\ running' = FALSE
  BY DEF ShiftEnds, jobVars
<1>2. TypeOK
  BY DEF ShiftInvariant
<1>3. /\ Moves' = Moves /\ Trucks' = Trucks /\ Job' = Job /\ Movement' = Movement /\ Truck' = Truck
  BY <1>1, <1>2, Frame
<1>4. TypeOK'
  BY <1>1, <1>2, <1>3 DEF TypeOK
<1>5. ForkliftsAreHeld' /\ QueueIsOfWaiting' /\ NothingIsOverdue'
  BY <1>1, <1>3 DEF ShiftInvariant, ForkliftsAreHeld, QueueIsOfWaiting, NothingIsOverdue, Timed,
                    Holding
<1>6. WorkTakesTime'
  <2>1. LoadingDone' = LoadingDone /\ MovingDone' = MovingDone
    BY <1>1, <1>2, <1>3, SameWork DEF LoadedBy, MovedBy, LoadTimeOf
  <2> QED
    BY <1>1, <1>3, <2>1 DEF ShiftInvariant, WorkTakesTime
<1>7. DeparturesAreBooked'
  <2>1. Left' = Left /\ \A k \in Trucks : Progress(k) => Progress(k)'
    BY <1>1, <1>3 DEF Left, Progress, Loaded, LoadTimeOf
  <2> QED
    BY <1>1, <1>3, <2>1 DEF ShiftInvariant, DeparturesAreBooked
<1> QED
  BY <1>1, <1>4, <1>5, <1>6, <1>7 DEF ShiftInvariant

LEMMA LeastIsMin ==
    ASSUME NEW S \in SUBSET Nat, S # {}
    PROVE  Min(S) \in S /\ \A n \in S : Min(S) <= n
BY LeastNatural DEF Min

(* Time passes: whoever works by then has worked that much longer.         *)
LEMMA AdvanceShift ==
    ASSUME ShiftInvariant, Advance
    PROVE  ShiftInvariant'
<1> DEFINE d == now' - now
<1>1. /\ plan' = plan /\ runs' = runs /\ where' = where /\ running' = running /\ queue' = queue
      /\ place' = place /\ wake' = wake /\ line' = line /\ seen' = seen /\ loads' = loads
      /\ left' = left /\ metrics' = metrics /\ running /\ ~ Due /\ NextEvents # {}
      /\ now' = Min(NextEvents) /\ runs > 0
  BY DEF Advance, jobVars, ShiftInvariant
<1>2. TypeOK
  BY DEF ShiftInvariant
<1>3. /\ Moves' = Moves /\ Trucks' = Trucks /\ Job' = Job /\ Movement' = Movement /\ Truck' = Truck
      /\ Moves \cap Trucks = {} /\ Job = Moves \cup Trucks /\ now \in Nat /\ now \in 0..(Shift - 1)
      /\ Shift \in Nat \ {0}
      /\ \A j \in Job : wake[j] \in Nat
      /\ \A i \in Moves : Movement[i].time \in Nat
      /\ \A k \in Trucks : Truck[k].arrival \in Nat
  BY <1>1, <1>2, Frame
<1>4. /\ now' \in NextEvents /\ \A n \in NextEvents : now' <= n
  <2>1. NextEvents \in SUBSET Nat
    BY <1>3 DEF NextEvents
  <2> QED
    BY <1>1, <2>1, LeastIsMin
<1>5. now' \in 0..(Shift - 1) /\ now' \in Nat
  BY <1>3, <1>4 DEF NextEvents
<1>6. \A j \in Timed : now' <= wake[j]
  <2> SUFFICES ASSUME NEW j \in Timed
               PROVE  now' <= wake[j]
    OBVIOUS
  <2>1. j \in Job /\ wake[j] \in Nat
    BY <1>3 DEF Timed
  <2>2. CASE wake[j] \in 0..(Shift - 1)
    BY <1>4, <2>2 DEF NextEvents
  <2>3. CASE wake[j] \notin 0..(Shift - 1)
    BY <1>3, <1>5, <2>1, <2>3
  <2> QED
    BY <2>2, <2>3
<1>7. d \in Nat /\ now' = now + d
  <2>1. PICK j \in Timed : now' = wake[j]
    BY <1>4 DEF NextEvents
  <2>2. now <= now'
    BY <2>1 DEF ShiftInvariant, NothingIsOverdue
  <2>3. \A a, b \in Nat : a <= b => b - a \in Nat /\ b = a + (b - a)
    OBVIOUS
  <2> QED
    BY <1>3, <1>5, <2>2, <2>3
<1>8. TypeOK'
  BY <1>1, <1>2, <1>3, <1>5 DEF TypeOK
<1>9. ForkliftsAreHeld' /\ QueueIsOfWaiting'
  BY <1>1, <1>3 DEF ShiftInvariant, ForkliftsAreHeld, QueueIsOfWaiting, Holding
<1>10. NothingIsOverdue'
  BY <1>1, <1>3, <1>6 DEF NothingIsOverdue, Timed
<1>11. WorkTakesTime'
  <2> DEFINE W1 == {k \in Trucks : place[k] = "work"}
             W2 == {i \in Moves : place[i] = "work"}
             f1 == [k \in Trucks |-> LoadedBy(k)]
             e1 == [k \in Trucks |-> LoadedBy(k)']
             f2 == [i \in Moves |-> MovedBy(i)]
             e2 == [i \in Moves |-> MovedBy(i)']
  <2>1. IsFiniteSet(Trucks) /\ IsFiniteSet(Moves) /\ IsFiniteSet(Holding)
        /\ Cardinality(Holding) \in Nat
    BY <1>2, PlanShape, HeldIsFinite
  <2>2. /\ \A k \in Trucks : LoadedBy(k) \in Int /\ LoadTimeOf(k) \in Nat
        /\ \A i \in Moves : MovedBy(i) \in Int
        /\ LoadingDone \in Int /\ MovingDone \in Int
    BY <1>2, WorkIsInteger
  <2>3. /\ LoadingDone = SumFunctionOnSet(f1, Trucks) /\ MovingDone = SumFunctionOnSet(f2, Moves)
        /\ LoadingDone' = SumFunctionOnSet(e1, Trucks) /\ MovingDone' = SumFunctionOnSet(e2, Moves)
    BY <1>3, WorkIsSum DEF LoadingDone, MovingDone, LoadedBy, MovedBy, SumFunction
  <2>4. \A k \in Trucks : LoadTimeOf(k)' = LoadTimeOf(k)
    BY <1>1 DEF LoadTimeOf
  <2>5. \A k \in Trucks : f1[k] \in Int /\ e1[k] = IF k \in W1 THEN f1[k] + d ELSE f1[k]
    BY <1>1, <1>3, <1>5, <2>2, <2>4 DEF LoadedBy
  <2>6. \A i \in Moves : f2[i] \in Int /\ e2[i] = IF i \in W2 THEN f2[i] + d ELSE f2[i]
    BY <1>1, <1>3, <1>5, <2>2 DEF MovedBy
  <2>7. W1 \in SUBSET Trucks /\ W2 \in SUBSET Moves
    OBVIOUS
  <2>8. W1 \cap W2 = {} /\ W1 \cup W2 \subseteq Holding
    BY <1>3 DEF Holding
  <2> HIDE DEF W1, W2, f1, f2, e1, e2, d
  <2>9. Cardinality(W1) \in Nat /\ LoadingDone' = LoadingDone + d * Cardinality(W1)
    BY <1>7, <2>1, <2>3, <2>5, <2>7, SumGrowsBy
  <2>10. Cardinality(W2) \in Nat /\ MovingDone' = MovingDone + d * Cardinality(W2)
    BY <1>7, <2>1, <2>3, <2>6, <2>7, SumGrowsBy
  <2>11. Cardinality(W1) + Cardinality(W2) <= Forklifts
    <3>1. IsFiniteSet(W1) /\ IsFiniteSet(W2)
      BY <2>1, <2>7, FS_Subset
    <3>2. Cardinality(W1 \cup W2) = Cardinality(W1) + Cardinality(W2)
      <4>1. Cardinality(W1 \cup W2) = Cardinality(W1) + Cardinality(W2) - Cardinality(W1 \cap W2)
        BY <3>1, FS_Union
      <4>2. Cardinality(W1 \cap W2) = 0
        BY <2>8, FS_EmptySet
      <4> QED
        BY <2>9, <2>10, <4>1, <4>2
    <3>3. Cardinality(W1 \cup W2) <= Cardinality(Holding)
      BY <2>1, <2>8, FS_Subset
    <3>4. Cardinality(Holding) <= Forklifts /\ Forklifts \in Nat
      BY DigitalTwinAssumption DEF ShiftInvariant, ForkliftsAreHeld
    <3> QED
      BY <2>1, <2>9, <2>10, <3>2, <3>3, <3>4
  <2>12. LoadingDone + MovingDone + metrics.cost <= Forklifts * now
    BY <1>1 DEF ShiftInvariant, WorkTakesTime
  <2>13. metrics.cost \in Nat
    <3>1. metrics \in [{"executed", "cost", "served", "early", "late"} -> Nat]
      BY <1>2, MetricNames DEF TypeOK
    <3> QED
      BY <3>1
  <2>15. d * Cardinality(W1) + d * Cardinality(W2) <= Forklifts * d
    <3>1. \A a, b, n, e \in Nat : a + b <= n => e * a + e * b <= n * e
      <4> SUFFICES ASSUME NEW a \in Nat, NEW b \in Nat, NEW n \in Nat, NEW e \in Nat, a + b <= n
                   PROVE  e * a + e * b <= n * e
        OBVIOUS
      <4>1. PICK c \in Nat : n = a + b + c
        <5>1. n - (a + b) \in Nat /\ n = a + b + (n - (a + b))
          OBVIOUS
        <5> QED
          BY <5>1
      <4>2. n * e = e * a + e * b + e * c /\ e * c \in Nat /\ e * a \in Nat /\ e * b \in Nat
        BY <4>1
      <4> QED
        BY <4>2
    <3>2. Forklifts \in Nat
      BY DigitalTwinAssumption
    <3> QED
      BY <1>7, <2>9, <2>10, <2>11, <3>1, <3>2
  <2>16. LoadingDone' + MovingDone' + metrics.cost <= Forklifts * now'
    <3>1. Forklifts * (now + d) = Forklifts * now + Forklifts * d
          /\ Forklifts * now \in Nat /\ Forklifts * d \in Nat
      BY <1>3, <1>7, DigitalTwinAssumption
    <3>2. d * Cardinality(W1) \in Nat /\ d * Cardinality(W2) \in Nat
      BY <1>7, <2>9, <2>10
    <3> DEFINE a1 == d * Cardinality(W1)
               a2 == d * Cardinality(W2)
    <3> HIDE DEF a1, a2
    <3>3. (LoadingDone + a1) + (MovingDone + a2) + metrics.cost <= Forklifts * (now + d)
      BY <2>2, <2>12, <2>13, <2>15, <3>1, <3>2 DEF a1, a2
    <3> QED
      BY <1>7, <2>9, <2>10, <3>3 DEF a1, a2
  <2>17. \A i \in Moves : place[i] = "work" => wake[i] <= now' + Movement[i].time
    <3>1. \A i \in Moves : place[i] = "work" => wake[i] <= now + Movement[i].time
      BY DEF ShiftInvariant, WorkTakesTime
    <3> QED
      BY <1>3, <1>5, <1>7, <3>1
  <2> QED
    BY <1>1, <1>3, <2>16, <2>17 DEF ShiftInvariant, WorkTakesTime
<1>12. DeparturesAreBooked'
  <2>1. Left' = Left
    BY <1>1, <1>3 DEF Left
  <2>2. ASSUME NEW k \in Trucks, Progress(k)
        PROVE  Progress(k)'
    <3>1. LoadTimeOf(k)' = LoadTimeOf(k) /\ Loaded(k)' = Loaded(k) /\ LoadTimeOf(k) \in Nat
      BY <1>1, <1>2, WorkIsInteger DEF LoadTimeOf, Loaded
    <3>2. now - Truck[k].arrival >= LoadTimeOf(k) => now' - Truck[k].arrival >= LoadTimeOf(k)
      <4>1. \A a, b, c, e \in Nat : a - c >= e => (a + b) - c >= e
        OBVIOUS
      <4> HIDE DEF d
      <4> QED
        BY <1>3, <1>7, <3>1, <4>1
    <3> QED
      BY <1>1, <1>3, <2>2, <3>1, <3>2 DEF Progress
  <2> QED
    BY <1>1, <1>3, <2>1, <2>2 DEF ShiftInvariant, DeparturesAreBooked
<1> QED
  BY <1>1, <1>8, <1>9, <1>10, <1>11, <1>12 DEF ShiftInvariant

LEMMA NextShift ==
    ASSUME ShiftInvariant, Next
    PROVE  ShiftInvariant'
<1>1. CASE Run
  BY <1>1, RunShift
<1>2. CASE running /\ \E i \in Moves : Travel(i) \/ PutDown(i)
  BY <1>2, TravelShift, PutDownShift
<1>3. CASE running /\ \E k \in Trucks : Request(k) \/ Load(k) \/ LineLoaded(k) \/ Depart(k)
  BY <1>3, RequestShift, LoadShift, LineLoadedShift, DepartShift
<1>4. CASE Advance
  BY <1>4, AdvanceShift
<1>5. CASE ShiftEnds
  BY <1>5, ShiftEndsShift
<1> QED
  BY <1>1, <1>2, <1>3, <1>4, <1>5 DEF Next

-----------------------------------------------------------------------------
(* The two users of the twin.                                              *)

LEMMA DistanceIsInteger ==
    ASSUME NEW stock \in [Sku -> Place]
    PROVE  DistanceToDock(stock) \in Int
<1> DEFINE f == [s \in Ordered |-> Far[stock[s]]]
<1>1. \A s \in Ordered : f[s] \in Int
  BY WarehouseEnvAssumption
<1>2. SumFunctionOnSet(f, Ordered) \in Int
  <2> HIDE DEF f
  <2> QED
    BY <1>1, WarehouseEnvAssumption, SumTakesOut
<1> QED
  BY <1>2 DEF DistanceToDock, SumFunction

LEMMA EnvInitInvariant == EnvInit => EnvInvariant
<1> SUFFICES ASSUME EnvInit
             PROVE  EnvInvariant
  OBVIOUS
<1>1. ShiftInvariant
  BY InitShift DEF EnvInit
<1>2. EnvTypeOK
  <2>1. TypeOK /\ 0 \in 0..MaxSteps /\ 0 \in Int
    BY <1>1, WarehouseEnvAssumption DEF ShiftInvariant
  <2>2. where \in [Sku -> Place]
    BY <2>1 DEF TypeOK
  <2> QED
    BY <2>1, <2>2 DEF EnvInit, EnvTypeOK
<1> QED
  BY <1>1, <1>2 DEF EnvInit, Init, EnvInvariant, ShapingTelescopes

(* A training step changes nothing of a shift but stock and metrics, and   *)
(* no shift has ever been run.                                             *)
LEMMA TwinOfTraining ==
    ASSUME ShiftInvariant, runs = 0, ~ running, where' \in [Sku -> Place],
           metrics' \in [DOMAIN NoMetrics -> Nat],
           UNCHANGED <<plan, runs, running, now, queue, jobVars>>
    PROVE  ShiftInvariant'
<1>1. TypeOK /\ plan' = plan
  BY DEF ShiftInvariant
<1>2. /\ Moves' = Moves /\ Trucks' = Trucks /\ Job' = Job /\ Movement' = Movement /\ Truck' = Truck
  BY <1>1, Frame
<1>3. TypeOK'
  BY <1>1, <1>2 DEF TypeOK, jobVars
<1>4. ForkliftsAreHeld' /\ QueueIsOfWaiting' /\ NothingIsOverdue'
  BY <1>2 DEF ShiftInvariant, ForkliftsAreHeld, QueueIsOfWaiting, NothingIsOverdue, Timed,
              Holding, jobVars
<1>5. WorkTakesTime' /\ DeparturesAreBooked'
  BY <1>2 DEF ShiftInvariant, WorkTakesTime, DeparturesAreBooked, jobVars
<1> QED
  BY <1>3, <1>4, <1>5 DEF ShiftInvariant

LEMMA ResetKeeps ==
    ASSUME EnvInvariant, Reset
    PROVE  EnvInvariant'
<1>1. where' \in [Sku -> Place] /\ home \in [Sku -> Place]
  BY DEF EnvInvariant, EnvTypeOK, Reset
<1>2. metrics' \in [DOMAIN NoMetrics -> Nat]
  BY DEF Reset, NoMetrics
<1>3. ShiftInvariant'
  BY <1>1, <1>2, TwinOfTraining DEF EnvInvariant, Reset
<1>4. EnvTypeOK'
  BY <1>3, WarehouseEnvAssumption DEF EnvInvariant, EnvTypeOK, Reset, Fetched, ShiftInvariant
<1>5. ShapingTelescopes'
  <2>1. DistanceToDock(home)' - DistanceToDock(where)' = 0
    BY <1>1, DistanceIsInteger DEF Reset
  <2> QED
    BY <2>1 DEF ShapingTelescopes, Reset
<1> QED
  BY <1>3, <1>4, <1>5 DEF EnvInvariant, Reset

LEMMA StepKeeps ==
    ASSUME EnvInvariant, NEW action \in Int, Step(action)
    PROVE  EnvInvariant'
<1>1. /\ where \in [Sku -> Place] /\ home \in [Sku -> Place] /\ shaped \in Int
      /\ TypeOK /\ candidates \in CandidateLists \cup {<<>>}
  BY DEF EnvInvariant, EnvTypeOK, TypeOK
<1>2. Chosen(action) => candidates[action] \in [sku : AnySku, from : Place, to : Place]
  <2> SUFFICES ASSUME action \in 1..Len(candidates)
               PROVE  candidates[action] \in [sku : AnySku, from : Place, to : Place]
    BY DEF Chosen
  <2>1. CASE candidates = <<>>
    BY <2>1
  <2>2. CASE candidates \in CandidateLists
    <3> DEFINE Candidate == [sku : AnySku, from : Place, to : Place]
    <3>1. candidates \in Seq(Candidate)
      BY <2>2, WarehouseEnvAssumption
    <3> HIDE DEF Candidate
    <3>2. candidates[action] \in Candidate
      BY <3>1
    <3> QED
      BY <3>2 DEF Candidate
  <2> QED
    BY <1>1, <2>1, <2>2
<1>3. where' \in [Sku -> Place]
  BY <1>1, <1>2 DEF Step, Applied
<1>4. metrics' \in [DOMAIN NoMetrics -> Nat]
  <2>1. metrics \in [{"executed", "cost", "served", "early", "late"} -> Nat]
    BY <1>1, MetricNames DEF TypeOK
  <2>2. CASE Chosen(action)
    <3>1. Far[candidates[action].from] \in Nat /\ Far[candidates[action].to] \in Nat
      BY <1>2, <2>2, WarehouseEnvAssumption
    <3>2. Gap(candidates[action]) \in Nat
      BY <3>1 DEF Gap
    <3>3. metrics.executed + 1 \in Nat /\ metrics.cost + Gap(candidates[action]) \in Nat
      BY <2>1, <3>2
    <3>4. metrics' \in [{"executed", "cost", "served", "early", "late"} -> Nat]
      BY <2>1, <2>2, <3>3 DEF Step
    <3> QED
      BY <3>4, MetricNames
  <2>3. CASE ~ Chosen(action)
    BY <1>1, <2>3 DEF Step, TypeOK
  <2> QED
    BY <2>2, <2>3
<1>5. user = "training" /\ runs = 0 /\ ~ running
  BY DEF EnvInvariant, EnvTypeOK, Step
<1>6. ShiftInvariant'
  BY <1>3, <1>4, <1>5, TwinOfTraining DEF EnvInvariant, Step
<1>7. shaped' = shaped + (DistanceToDock(where) - DistanceToDock(where'))
  BY DEF Step, Shaping
<1>8. DistanceToDock(where) \in Int /\ DistanceToDock(where') \in Int /\ DistanceToDock(home) \in Int
  BY <1>1, <1>3, DistanceIsInteger
<1>9. EnvTypeOK'
  <2>1. steps' \in 0..MaxSteps
    BY WarehouseEnvAssumption DEF Step, EnvInvariant, EnvTypeOK
  <2>2. candidates' \in CandidateLists \cup {<<>>}
    BY DEF Step, FetchedAfter, Fetched
  <2>3. shaped' \in Int
    BY <1>1, <1>7, <1>8
  <2>4. UNCHANGED <<user, home, started>>
    BY DEF Step
  <2> QED
    BY <1>6, <2>1, <2>2, <2>3, <2>4 DEF EnvInvariant, EnvTypeOK, ShiftInvariant
<1>10. ShapingTelescopes'
  <2>1. shaped = DistanceToDock(home) - DistanceToDock(where)
    BY DEF EnvInvariant, ShapingTelescopes, Step
  <2>2. shaped' = DistanceToDock(home) - DistanceToDock(where')
    BY <1>7, <1>8, <2>1
  <2>3. DistanceToDock(home)' = DistanceToDock(home) /\ DistanceToDock(where)' = DistanceToDock(where')
    BY DEF Step, DistanceToDock
  <2> QED
    BY <2>2, <2>3 DEF ShapingTelescopes
<1> QED
  BY <1>5, <1>6, <1>9, <1>10 DEF EnvInvariant, Step

LEMMA EnvNextKeeps ==
    ASSUME EnvInvariant, [EnvNext]_allVars
    PROVE  EnvInvariant'
<1>1. CASE user = "backtest" /\ Next /\ UNCHANGED <<user, home, envVars>>
  <2>1. ShiftInvariant'
    BY <1>1, NextShift DEF EnvInvariant
  <2>2. EnvTypeOK'
    BY <1>1, <2>1 DEF EnvInvariant, EnvTypeOK, ShiftInvariant, envVars
  <2>3. ~ started'
    BY <1>1 DEF EnvInvariant, envVars
  <2> QED
    BY <1>1, <2>1, <2>2, <2>3 DEF EnvInvariant, ShapingTelescopes, envVars
<1>2. CASE Reset
  BY <1>2, ResetKeeps
<1>3. CASE \E action \in 0..MaxCandidates : Step(action)
  BY <1>3, StepKeeps
<1>4. CASE UNCHANGED allVars
  <2>1. /\ Moves' = Moves /\ Trucks' = Trucks /\ Job' = Job
        /\ Movement' = Movement /\ Truck' = Truck
    BY <1>4, Frame DEF EnvInvariant, ShiftInvariant, allVars, vars
  <2>2. TypeOK' /\ EnvTypeOK'
    BY <1>4, <2>1 DEF EnvInvariant, EnvTypeOK, TypeOK, allVars, vars, jobVars, envVars
  <2>3. ForkliftsAreHeld' /\ QueueIsOfWaiting' /\ NothingIsOverdue'
    BY <1>4, <2>1 DEF EnvInvariant, ShiftInvariant, ForkliftsAreHeld, QueueIsOfWaiting,
                      NothingIsOverdue, Timed, Holding, allVars, vars, jobVars
  <2>4. WorkTakesTime'
    <3>1. LoadingDone' = LoadingDone /\ MovingDone' = MovingDone
      BY <1>4, <2>1, SameWork
         DEF EnvInvariant, ShiftInvariant, LoadedBy, MovedBy, LoadTimeOf, allVars, vars, jobVars
    <3> QED
      BY <1>4, <2>1, <3>1 DEF EnvInvariant, ShiftInvariant, WorkTakesTime, allVars, vars, jobVars
  <2>5. DeparturesAreBooked'
    <3>1. Left' = Left /\ \A k \in Trucks : Progress(k) => Progress(k)'
      BY <1>4, <2>1 DEF Left, Progress, Loaded, LoadTimeOf, allVars, vars, jobVars
    <3> QED
      BY <1>4, <2>1, <3>1
         DEF EnvInvariant, ShiftInvariant, DeparturesAreBooked, allVars, vars, jobVars
  <2>6. ShapingTelescopes'
    BY <1>4 DEF EnvInvariant, ShapingTelescopes, DistanceToDock, allVars, vars, envVars
  <2> QED
    BY <1>4, <2>2, <2>3, <2>4, <2>5, <2>6
       DEF EnvInvariant, ShiftInvariant, allVars, vars, envVars
<1> QED
  BY <1>1, <1>2, <1>3, <1>4 DEF EnvNext

(* EnvInvariant holds in every reachable state of either user.             *)
THEOREM EnvInvariantHolds == EnvSpec => []EnvInvariant
<1>1. EnvInit => EnvInvariant
  BY EnvInitInvariant
<1>2. EnvInvariant /\ [EnvNext]_allVars => EnvInvariant'
  BY EnvNextKeeps
<1> QED
  BY <1>1, <1>2, PTL DEF EnvSpec

(* Twin and environment stay well typed: a job is never anywhere else, a   *)
(* queue never of anything but jobs, and no metric ever below zero.        *)
THEOREM EnvTypesHold == EnvSpec => []EnvTypeOK
<1>1. EnvInvariant => EnvTypeOK
  BY DEF EnvInvariant
<1> QED
  BY <1>1, EnvInvariantHolds, PTL

LEMMA MovesHaveWorked ==
    ASSUME ShiftInvariant
    PROVE  MovingDone >= 0 /\ MovingDone \in Int
<1>1. IsFiniteSet(Moves)
  BY PlanShape DEF ShiftInvariant
<1>2. \A i \in Moves : MovedBy(i) \in Nat
  <2> SUFFICES ASSUME NEW i \in Moves, place[i] = "work"
               PROVE  Movement[i].time - (wake[i] - now) \in Nat
    BY DEF MovedBy
  <2>1. i \in Job /\ Movement[i].time \in Nat /\ now \in Nat /\ wake[i] \in Nat
    BY PlanShape, DigitalTwinAssumption DEF ShiftInvariant, TypeOK, Job
  <2>2. wake[i] <= now + Movement[i].time
    BY DEF ShiftInvariant, WorkTakesTime
  <2> QED
    BY <2>1, <2>2
<1>3. 0 \in Nat /\ \A a, b \in Nat : a + b \in Nat
  OBVIOUS
<1>4. SumFunctionOnSet([i \in Moves |-> MovedBy(i)], Moves) \in Nat
  <2> DEFINE f == [i \in Moves |-> MovedBy(i)]
  <2>1. \A i \in Moves : f[i] \in Nat
    BY <1>2
  <2> HIDE DEF f
  <2>2. SumFunctionOnSet(f, Moves) \in Nat
    BY <1>1, <1>3, <2>1, SumStaysIn
  <2> QED
    BY <2>2 DEF f
<1> QED
  BY <1>4, WorkIsSum

(* What the metrics book is never more than the forklifts can have worked, *)
(* and nobody waits for a forklift while one is free.                      *)
THEOREM ForkliftsAreSharedHolds == EnvSpec => []ForkliftsAreShared
<1>1. EnvInvariant => ForkliftsAreShared
  <2> SUFFICES ASSUME ShiftInvariant
               PROVE  ForkliftsAreShared
    BY DEF EnvInvariant
  <2>1. MovingDone >= 0 /\ MovingDone \in Int /\ LoadingDone \in Int
    BY MovesHaveWorked, WorkIsInteger DEF ShiftInvariant
  <2>2. metrics.cost \in Nat
    <3>1. metrics \in [{"executed", "cost", "served", "early", "late"} -> Nat]
      BY MetricNames DEF ShiftInvariant, TypeOK
    <3> QED
      BY <3>1
  <2>3. Forklifts * now \in Nat
    BY DigitalTwinAssumption DEF ShiftInvariant, TypeOK
  <2>4. runs > 0 => LoadingDone + MovingDone + metrics.cost <= Forklifts * now
    BY DEF ShiftInvariant, WorkTakesTime
  <2>5. runs > 0 => LoadingDone + metrics.cost <= Forklifts * now
    BY <2>1, <2>2, <2>3, <2>4
  <2> QED
    BY <2>5 DEF ForkliftsAreShared, ShiftInvariant, ForkliftsAreHeld
<1> QED
  BY <1>1, EnvInvariantHolds, PTL

(* A truck has all its lines loaded when it leaves, no sooner than that    *)
(* takes, and its earliness or lateness is booked once.                    *)
THEOREM DeparturesAddUpHolds == EnvSpec => []DeparturesAddUp
<1>1. EnvInvariant => DeparturesAddUp
  <2> SUFFICES ASSUME ShiftInvariant
               PROVE  DeparturesAddUp
    BY DEF EnvInvariant
  <2>1. CASE running
    <3>1. Served = Left /\ runs > 0
      BY <2>1 DEF Served, Left, ShiftInvariant
    <3>2. \A k \in Served : Progress(k) /\ place[k] = "gone"
      BY <3>1 DEF Left, ShiftInvariant, DeparturesAreBooked
    <3>3. /\ metrics.served = Cardinality(Served)
          /\ metrics.early - metrics.late
                = SumFunction([k \in Served |-> Truck[k].departure - left[k]])
      BY <3>1 DEF ShiftInvariant, DeparturesAreBooked
    <3>4. \A k \in Served : /\ loads[k].fast + loads[k].slow = Len(Truck[k].lines)
                            /\ left[k] - Truck[k].arrival >= LoadTimeOf(k)
      BY <3>2 DEF Progress, Loaded
    <3> QED
      BY <3>3, <3>4 DEF DeparturesAddUp
  <2>2. CASE ~ running
    BY <2>2 DEF DeparturesAddUp, Served
  <2> QED
    BY <2>1, <2>2
<1> QED
  BY <1>1, EnvInvariantHolds, PTL

(* The shaping rewards of an episode add up to the distance gained.        *)
THEOREM ShapingTelescopesHolds == EnvSpec => []ShapingTelescopes
<1>1. EnvInvariant => ShapingTelescopes
  BY DEF EnvInvariant
<1> QED
  BY <1>1, EnvInvariantHolds, PTL
=============================================================================
