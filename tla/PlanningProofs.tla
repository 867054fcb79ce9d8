---------------------------- MODULE PlanningProofs ----------------------------
(***************************************************************************)
(* Theorems about Planning and Routes, for every set of warehouses and of  *)
(* planners.                                                               *)
(***************************************************************************)
EXTENDS Routes, Sums, SequenceTheorems

(* Distances are natural numbers.                                          *)
LEMMA DistanceType ==
    ASSUME NEW l \in Location, NEW m \in Location
    PROVE  Distance(l, m) \in Nat
BY ConstraintsAssumption DEF Distance, Manhattan, Absolute, Attributes

(* The staging location is one of the door's spots, and a location.        *)
LEMMA StagingForType ==
    ASSUME NEW w \in Warehouse, w.staging # <<>>, NEW from \in Location, NEW door
    PROVE  StagingFor(w, from, door) \in Location
<1> DEFINE d(i) == Distance(from, w.staging[i])
           T == {d(i) : i \in Spots(w, door)}
<1>1. /\ w.staging \in Seq(Location)
      /\ DOMAIN w.staging \subseteq Nat
      /\ DOMAIN w.staging # {}
  <2>1. w.staging \in Seq(Location)
    BY DEF Warehouse
  <2>2. Len(w.staging) \in Nat \ {0} /\ DOMAIN w.staging = 1..Len(w.staging)
    BY <2>1, EmptySeq
  <2>3. 1 \in 1..Len(w.staging) /\ 1..Len(w.staging) \subseteq Nat
    BY <2>2
  <2>4. QED
    BY <2>1, <2>2, <2>3
<1>2. Spots(w, door) \subseteq DOMAIN w.staging /\ Spots(w, door) # {}
  BY <1>1 DEF Spots
<1>3. \A i \in Spots(w, door) : w.staging[i] \in Location /\ d(i) \in Nat
  <2> SUFFICES ASSUME NEW i \in Spots(w, door)
               PROVE  w.staging[i] \in Location /\ d(i) \in Nat
    OBVIOUS
  <2>1. w.staging[i] \in Location
    BY <1>1, <1>2
  <2>2. QED
    BY <2>1, DistanceType
<1>4. PICK e \in T : \A n \in T : e <= n
  <2>1. T \in SUBSET Nat /\ T # {}
    BY <1>2, <1>3
  <2> HIDE DEF T
  <2>2. QED
    BY <2>1, LeastNatural
<1> DEFINE U == {i \in Spots(w, door) : d(i) = e}
<1>5. PICK i \in U : \A j \in U : i <= j
  <2>1. U \in SUBSET Nat /\ U # {}
    BY <1>1, <1>2, <1>4
  <2> HIDE DEF U
  <2>2. QED
    BY <2>1, LeastNatural
<1>6. i \in Spots(w, door) /\ \A j \in Spots(w, door) : d(i) < d(j) \/ (d(i) = d(j) /\ i <= j)
  <2> SUFFICES ASSUME NEW j \in Spots(w, door) PROVE d(i) < d(j) \/ (d(i) = d(j) /\ i <= j)
    BY <1>5
  <2>1. e <= d(j) /\ d(i) = e
    BY <1>4, <1>5
  <2>2. CASE d(j) = e
    BY <2>1, <2>2, <1>5
  <2>3. CASE d(j) # e
    BY <2>1, <2>3, <1>3, <1>5
  <2>4. QED
    BY <2>2, <2>3
<1>7. QED
  BY <1>3, <1>6 DEF StagingFor

(* What a pair of the loops is made of.                                    *)
LEMMA PairFields ==
    ASSUME NEW w \in Warehouse, NEW c \in Pairs(w)
    PROVE  /\ c = <<c[1], c[2]>>
           /\ c[1] \in 1..Len(w.appointments) /\ c[2] \in 1..Len(w.stock)
           /\ SkuOf(w, c) \in Sku
           /\ From(w, c) \in Location
           /\ Door(w, c) \in Int
<1>1. w.appointments \in Seq(Int) /\ w.stock \in Seq(InventoryPosition)
  BY DEF Warehouse
<1>2. c[1] \in 1..Len(w.appointments) /\ c[2] \in 1..Len(w.stock) /\ c = <<c[1], c[2]>>
  BY <1>1 DEF Pairs
<1>3. w.stock[c[2]] \in InventoryPosition /\ w.appointments[c[1]] \in Int
  BY <1>1, <1>2, ElementOfSeq
<1>4. QED
  BY <1>2, <1>3 DEF SkuOf, From, Door, InventoryPosition

LEMMA MoveOfType ==
    ASSUME NEW w \in Warehouse, w.staging # <<>>, NEW c \in Pairs(w)
    PROVE  To(w, c) \in Location /\ MoveOf(w, c) \in Move
<1>1. SkuOf(w, c) \in Sku /\ From(w, c) \in Location
  BY PairFields
<1>2. To(w, c) \in Location
  BY <1>1, StagingForType DEF To
<1>3. QED
  BY <1>1, <1>2 DEF MoveOf, Move

(* An order weighs from 1 to 100.                                          *)
LEMMA WeightType ==
    ASSUME NEW w \in Warehouse, NEW sku, NEW d \in Departures(w, sku)
    PROVE  /\ WeightOf(w, d) \in 1..100
           /\ d = <<d[1], d[2]>>
           /\ d[1] \in DOMAIN w.appointments /\ d[1] \in Nat /\ d[2] \in Nat
           /\ Loads(w, d[1], sku)
<1>1. /\ w.appointments \in Seq(Int)
      /\ w.orders \in Seq(OutboundOrder)
  BY DEF Warehouse
<1>2. /\ d[1] \in DOMAIN w.appointments /\ d[2] \in DOMAIN w.orders
      /\ d = <<d[1], d[2]>> /\ Loads(w, d[1], sku)
  BY DEF Departures
<1>3. d[1] \in Nat /\ d[2] \in Nat
  BY <1>1, <1>2
<1>4. w.orders[d[2]] \in OutboundOrder
  <2>1. d[2] \in 1..Len(w.orders)
    BY <1>1, <1>2
  <2>2. QED
    BY <2>1, <1>1, ElementOfSeq
<1>5. QED
  BY <1>2, <1>3, <1>4 DEF WeightOf, OrderWeight, OutboundOrder, Least

(* The truck and the order that score() picks are among those it walks     *)
(* over.                                                                   *)
LEMMA BestDepartureType ==
    ASSUME NEW w \in Warehouse, NEW sku, Departures(w, sku) # {}
    PROVE  BestDeparture(w, sku) \in Departures(w, sku)
<1> DEFINE D == Departures(w, sku)
           lightness(d) == 100 - WeightOf(w, d)
           heaviest(d) == \A e \in D : WeightOf(w, e) <= WeightOf(w, d)
           H == {d \in D : heaviest(d)}
<1>1. H # {}
  <2> DEFINE T == {lightness(d) : d \in D}
  <2>1. T \in SUBSET Nat /\ T # {}
    BY WeightType
  <2> HIDE DEF T
  <2>2. PICK m \in T : \A n \in T : m <= n
    BY <2>1, LeastNatural
  <2> USE DEF T
  <2>3. PICK d \in D : lightness(d) = m
    BY <2>2
  <2>4. \A e \in D : lightness(d) <= lightness(e)
    BY <2>2, <2>3
  <2>5. heaviest(d)
    BY <2>3, <2>4, WeightType
  <2>6. QED
    BY <2>3, <2>5
<1>2. PICK a \in {d[1] : d \in H} : \A n \in {d[1] : d \in H} : a <= n
  <2> DEFINE T == {d[1] : d \in H}
  <2>1. T \in SUBSET Nat /\ T # {}
    BY <1>1, WeightType
  <2> HIDE DEF T
  <2>2. \E m \in T : \A n \in T : m <= n
    BY <2>1, LeastNatural
  <2>3. QED
    BY <2>2 DEF T
<1> DEFINE A == {d \in H : d[1] = a}
<1>3. PICK o \in {d[2] : d \in A} : \A n \in {d[2] : d \in A} : o <= n
  <2> DEFINE T == {d[2] : d \in A}
  <2>1. T \in SUBSET Nat /\ T # {}
    BY <1>2, WeightType
  <2> HIDE DEF T
  <2>2. \E m \in T : \A n \in T : m <= n
    BY <2>1, LeastNatural
  <2>3. QED
    BY <2>2 DEF T
<1>4. PICK d \in D : heaviest(d) /\ d[1] = a /\ d[2] = o
  BY <1>3
<1>5. ASSUME NEW e \in D \ {d}
      PROVE  \/ WeightOf(w, d) > WeightOf(w, e)
             \/ WeightOf(w, d) = WeightOf(w, e) /\ Before(d, e)
  <2>1. WeightOf(w, e) <= WeightOf(w, d) /\ WeightOf(w, d) \in Nat /\ WeightOf(w, e) \in Nat
    BY <1>4, WeightType
  <2>2. CASE WeightOf(w, e) = WeightOf(w, d)
    <3>1. heaviest(e)
      BY <2>2, <1>4
    <3>2. d[1] <= e[1] /\ (e[1] = d[1] => d[2] <= e[2])
      BY <3>1, <1>2, <1>3, <1>4
    <3>3. d[1] # e[1] \/ d[2] # e[2]
      BY WeightType
    <3>4. QED
      BY <2>2, <3>2, <3>3, WeightType DEF Before
  <2>3. QED
    BY <2>1, <2>2
<1>6. QED
  BY <1>5 DEF BestDeparture

(* Values are integers.                                                    *)
LEMMA ScoreType ==
    ASSUME NEW w \in Warehouse, NEW m \in Move
    PROVE  Score(w, m) \in Int
<1> DEFINE cost == MoveWeight * MovementCost(m.from, m.to)
                       + IdleWeight * OpportunityCost(w.busy)
<1>1. cost \in Int
  <2>1. MovementCost(m.from, m.to) \in Nat
    BY ConstraintsAssumption, ValueAssumption DEF Move, MovementCost, Manhattan, Absolute,
       Attributes
  <2>2. OpportunityCost(w.busy) \in Int
    <3>1. w.busy \in Nat /\ Opportunity \in Nat
      BY ValueAssumption DEF Warehouse
    <3>2. 100 - Least(w.busy, 95) \in Nat \ {0}
      BY <3>1 DEF Least
    <3>3. QED
      BY <3>1, <3>2 DEF OpportunityCost
  <2> HIDE DEF cost
  <2>3. QED
    BY <2>1, <2>2, ValueAssumption DEF cost
<1>2. Denominator(w, m) \in Nat \ {0}
  BY <1>1 DEF Denominator
<1>3. ASSUME Departures(w, m.sku) # {}
      PROVE  ScoreOfSavings(w, m) \in Int
  <2>1. BestDeparture(w, m.sku) \in Departures(w, m.sku)
    BY <1>3, BestDepartureType
  <2> DEFINE picked == BestDeparture(w, m.sku)
  <2>2. WeightOf(w, picked) \in Int /\ picked[1] \in DOMAIN w.appointments
    BY <2>1, WeightType
  <2>3. w.appointments[picked[1]] \in Int
    BY <2>2 DEF Warehouse
  <2>4. DoorOf(w, m.sku) \in [x : Int, y : Int]
    BY <2>3, ValueAssumption DEF DoorOf, DoorSite
  <2>5. TimeSaved(m.from, m.to, DoorOf(w, m.sku)) \in Int
    BY <2>4, ConstraintsAssumption DEF Move, TimeSaved, Manhattan, Absolute,
         Attributes
  <2>6. QED
    BY <1>2, <2>2, <2>5 DEF ScoreOfSavings, Scale
<1>4. QED
  BY <1>3 DEF Score

LEMMA ValueType ==
    ASSUME NEW w \in Warehouse, NEW c \in Pairs(w), Passes(w, c)
    PROVE  Value(w, c) \in Int /\ To(w, c) \in Location
BY MoveOfType, ScoreType DEF Value, Passes

-----------------------------------------------------------------------------
(* The loops visit every pair: the pairs before the next turn are those    *)
(* before this one and this one.                                           *)
LEMMA LoopTurn ==
    ASSUME NEW w \in Warehouse, NEW p \in (Nat \ {0}) \X (Nat \ {0}), NEW q,
           p[2] = 1 \/ p[2] <= Len(w.stock),
           p[1] <= Len(w.appointments), p[2] <= Len(w.stock),
           q = IF p[2] < Len(w.stock) THEN <<p[1], p[2] + 1>> ELSE <<p[1] + 1, 1>>
    PROVE  /\ p \in Pairs(w)
           /\ q \in (Nat \ {0}) \X (Nat \ {0})
           /\ q[2] = 1 \/ q[2] <= Len(w.stock)
           /\ \A c \in Pairs(w) : Before(c, q) => Before(c, p) \/ c = p
<1>1. Len(w.stock) \in Nat /\ Len(w.appointments) \in Nat
  BY DEF Warehouse
<1>2. p = <<p[1], p[2]>> /\ p[1] \in Nat \ {0} /\ p[2] \in Nat \ {0}
  OBVIOUS
<1>3. p \in Pairs(w)
  <2>1. DOMAIN w.appointments = 1..Len(w.appointments) /\ DOMAIN w.stock = 1..Len(w.stock)
    BY DEF Warehouse
  <2>2. QED
    BY <1>1, <1>2, <2>1 DEF Pairs
<1>4. /\ q \in (Nat \ {0}) \X (Nat \ {0})
      /\ q[2] = 1 \/ q[2] <= Len(w.stock)
  BY <1>1, <1>2
<1>5. ASSUME NEW c \in Pairs(w), Before(c, q), ~ Before(c, p)
      PROVE  c = p
  <2>1. /\ c = <<c[1], c[2]>> /\ c[1] \in Nat /\ c[2] \in Nat
        /\ c[2] >= 1 /\ c[2] <= Len(w.stock)
    BY <1>1, PairFields
  <2>2. c[1] = p[1] /\ c[2] = p[2]
    BY <1>1, <1>2, <1>5, <2>1 DEF Before
  <2>3. QED
    BY <1>2, <2>1, <2>2
<1>6. QED
  BY <1>3, <1>4, <1>5

(* Values are compared as integers are: what a loser beats, the winner     *)
(* beats.                                                                  *)
LEMMA NotBeaten ==
    ASSUME wh \in Warehouse,
           NEW c \in Pairs(wh), NEW d \in Pairs(wh), NEW e \in Pairs(wh),
           Passes(wh, c), Passes(wh, d), Passes(wh, e),
           ~ Beats(c, d), ~ Beats(d, e)
    PROVE  ~ Beats(c, e)
BY ValueType DEF Beats

(* A ranking of a finite set of places is onto.                            *)
LEMMA RankingIsOnto ==
    ASSUME wh \in Warehouse, NEW s \in Seq(Pairs(wh)), NEW places \in SUBSET (DOMAIN s),
           NEW p \in Rankings(s, places),
           \A i \in DOMAIN s : Passes(wh, s[i])
    PROVE  /\ Cardinality(places) \in Nat
           /\ p \in [1..Cardinality(places) -> places]
           /\ \A k \in places : \E m \in 1..Cardinality(places) : p[m] = k
<1> DEFINE n == Cardinality(places)
<1>1. IsFiniteSet(places) /\ n \in Nat
  <2>1. IsFiniteSet(DOMAIN s)
    BY FS_Interval
  <2>2. QED
    BY <2>1, FS_Subset, FS_CardinalityType
<1>2. p \in [1..n -> places] /\ \A i, j \in 1..n : i < j => Precedes(s, p[i], p[j])
  BY DEF Rankings
<1>3. ASSUME NEW i \in 1..n, NEW j \in 1..n, i < j
      PROVE  p[i] # p[j]
  <2>1. Precedes(s, p[i], p[j]) /\ p[i] \in DOMAIN s /\ s[p[i]] \in Pairs(wh)
    BY <1>2, <1>3
  <2>2. Value(wh, s[p[i]]) \in Int /\ p[i] \in Nat
    BY <2>1, ValueType
  <2>3. QED
    BY <2>1, <2>2 DEF Precedes
<1>4. p \in Injection(1..n, places)
  BY <1>1, <1>2, <1>3 DEF Injection, IsInjective
<1>5. IsFiniteSet(1..n) /\ Cardinality(1..n) = n
  BY <1>1, FS_Interval
<1>6. p \in Surjection(1..n, places)
  <2> HIDE DEF n
  <2>1. Cardinality(1..n) = Cardinality(places)
    BY <1>5 DEF n
  <2>2. QED
    BY <2>1, <1>1, <1>4, FS_Injection
<1>7. \A k \in places : \E m \in 1..n : p[m] = k
  BY <1>6 DEF Surjection
<1>8. QED
  BY <1>1, <1>2, <1>7

(* Zones compose (Constraints).                                            *)
LEMMA ZonesDoCompose == ZonesCompose
BY DEF ZonesCompose, AcceptableZones, ZoneFitsZone, TemperatureZone

-----------------------------------------------------------------------------
(* The snapshot is one, and a pair that passes has a staging location.     *)
LEMMA SnapshotType ==
    ASSUME TypeOK
    PROVE  /\ wh \in Warehouse
           /\ {MaxCandidates, BatchSize} \subseteq Nat
           /\ Len(wh.stock) \in Nat /\ Len(wh.appointments) \in Nat
<1>1. wh \in Warehouse
  BY PlanningAssumption DEF TypeOK
<1>2. wh.stock \in Seq(InventoryPosition) /\ wh.appointments \in Seq(Int)
  BY <1>1 DEF Warehouse
<1>3. QED
  BY <1>1, <1>2, PlanningAssumption

LEMMA PlanInitially == Init => PlanningInvariant
<1> SUFFICES ASSUME Init PROVE PlanningInvariant
  OBVIOUS
<1>1. wh \in Warehouse /\ MaxCandidates \in Nat
  BY PlanningAssumption DEF Init
<1>2. TypeOK
  <2>1. pc \in {"generate", "select"}
    BY DEF Init
  <2>2. <<>> \in Seq(Candidate) /\ Len(<<>>) = 0
    OBVIOUS
  <2>3. QED
    BY <1>1, <2>1, <2>2 DEF Init, TypeOK
<1>3. LoopsCover
  <2>1. \A c \in Candidate : ~ Before(c, at) /\ pc = "generate"
    <3> SUFFICES ASSUME NEW c \in Candidate PROVE ~ Before(c, at) /\ pc = "generate"
      OBVIOUS
    <3>1. c[1] \in 1..Len(wh.appointments) /\ c[2] \in 1..Len(wh.stock)
      BY <1>1, PairFields DEF Candidate
    <3>2. Len(wh.appointments) \in Nat /\ Len(wh.stock) \in Nat
      BY <1>1 DEF Warehouse
    <3>3. wh.appointments # <<>>
      BY <3>1, <3>2
    <3>4. QED
      BY <3>1, <3>2, <3>3 DEF Init, Before
  <2>2. QED
    BY <2>1 DEF Init, LoopsCover
<1>4. BestCovers /\ NothingYet
  BY DEF Init, BestCovers, NothingYet
<1>5. NothingBetterIsLeftOut
  <2> SUFFICES ASSUME pc = "select" PROVE NothingBetterIsLeftOut
    BY DEF NothingBetterIsLeftOut
  <2>1. wh.appointments = <<>>
    BY DEF Init
  <2>2. Candidate = {}
    <3>1. \A c \in Candidate : c[1] \in 1..Len(wh.appointments)
      BY <1>1, PairFields DEF Candidate
    <3>2. QED
      BY <2>1, <3>1
  <2>3. QED
    BY <2>2 DEF Init, NothingBetterIsLeftOut
<1>6. TasksSuitTheirPlace
  BY DEF Init, TasksSuitTheirPlace
<1>7. TasksAreOffered
  BY FS_EmptySet DEF Init, TasksAreOffered
<1>8. QED
  BY <1>2, <1>3, <1>4, <1>5, <1>6, <1>7 DEF PlanningInvariant

LEMMA ConsiderPreserves == PlanningInvariant /\ Consider => PlanningInvariant'
<1> SUFFICES ASSUME PlanningInvariant, Consider PROVE PlanningInvariant'
  OBVIOUS
<1>1. /\ TypeOK /\ LoopsCover /\ BestCovers /\ NothingYet
      /\ wh \in Warehouse /\ MaxCandidates \in Nat
  BY SnapshotType DEF PlanningInvariant
<1>2. /\ at \in Candidate
      /\ at' \in (Nat \ {0}) \X (Nat \ {0})
      /\ at'[2] = 1 \/ at'[2] <= Len(wh.stock)
      /\ \A c \in Candidate : Before(c, at') => Before(c, at) \/ c = at
  <2>1. /\ at \in (Nat \ {0}) \X (Nat \ {0})
        /\ at[2] = 1 \/ at[2] <= Len(wh.stock)
    BY <1>1 DEF TypeOK, LoopsCover
  <2>2. at[1] <= Len(wh.appointments) /\ at[2] <= Len(wh.stock)
    BY <1>1 DEF Consider, InLoops
  <2>3. at' = IF at[2] < Len(wh.stock) THEN <<at[1], at[2] + 1>> ELSE <<at[1] + 1, 1>>
    BY <1>1 DEF Consider
  <2> QED
    BY <1>1, <2>1, <2>2, <2>3, LoopTurn DEF Candidate
<1>3. /\ candidates' \in Seq(Candidate)
      /\ DOMAIN candidates \subseteq DOMAIN candidates'
      /\ \A i \in DOMAIN candidates : candidates'[i] = candidates[i]
      /\ \A i \in DOMAIN candidates' \ DOMAIN candidates : candidates'[i] = at /\ Passes(wh, at)
      /\ Passes(wh, at) => \E i \in DOMAIN candidates' : candidates'[i] = at
  <2> HIDE DEF Candidate
  <2>1. candidates \in Seq(Candidate)
    BY <1>1 DEF TypeOK
  <2>2. CASE Passes(wh, at)
    <3>1. candidates' = Append(candidates, at)
      BY <2>2 DEF Consider
    <3>2. Len(candidates') = Len(candidates) + 1 /\ Len(candidates) \in Nat
      BY <2>1, <3>1, <1>2
    <3>3. candidates'[Len(candidates) + 1] = at
      BY <2>1, <3>1, <1>2
    <3>4. QED
      BY <2>1, <2>2, <3>1, <3>2, <3>3, <1>2
  <2>3. CASE ~ Passes(wh, at)
    BY <2>1, <2>3 DEF Consider
  <2>4. QED
    BY <2>2, <2>3
<1>4. /\ pc = "generate" /\ offered = <<>> /\ next = 1
      /\ UNCHANGED <<path, wh, suppressed, pc, next, best, offered, status, tasks>>
  BY <1>1 DEF Consider, NothingYet, BestCovers
<1>5. TypeOK'
  BY <1>1, <1>2, <1>3, <1>4 DEF TypeOK, Candidate
<1>6. LoopsCover'
  <2>1. \A i \in DOMAIN candidates' : Passes(wh, candidates'[i])
    BY <1>1, <1>3 DEF LoopsCover
  <2>2. ASSUME NEW c \in Candidate, Passes(wh, c), Before(c, at')
        PROVE  \E i \in DOMAIN candidates' : candidates'[i] = c
    <3>1. CASE c = at
      BY <3>1, <2>2, <1>3
    <3>2. CASE Before(c, at)
      BY <3>2, <2>2, <1>1, <1>3 DEF LoopsCover
    <3>3. QED
      BY <3>1, <3>2, <2>2, <1>2
  <2>3. Candidate' = Candidate
    BY <1>4 DEF Candidate
  <2>4. QED
    BY <2>1, <2>2, <2>3, <1>2, <1>4 DEF LoopsCover
<1>7. BestCovers' /\ NothingYet' /\ NothingBetterIsLeftOut' /\ TasksSuitTheirPlace'
  <2>1. BestCovers'
    <3>1. Len(candidates') \in Nat /\ \A i \in DOMAIN candidates' : ~ (i < 1)
      BY <1>3
    <3>2. QED
      BY <3>1, <1>1, <1>4 DEF BestCovers
  <2>2. NothingYet' /\ NothingBetterIsLeftOut'
    BY <1>4 DEF NothingYet, NothingBetterIsLeftOut
  <2>3. TasksSuitTheirPlace'
    BY <1>1, <1>4 DEF TypeOK, TasksSuitTheirPlace
  <2>4. QED
    BY <2>1, <2>2, <2>3
<1>8. TasksAreOffered'
  BY <1>5, FS_EmptySet DEF Consider, TypeOK, TasksAreOffered
<1>9. QED
  BY <1>5, <1>6, <1>7, <1>8 DEF PlanningInvariant

LEMMA ConsideredPreserves == PlanningInvariant /\ Considered => PlanningInvariant'
<1> SUFFICES ASSUME PlanningInvariant, Considered PROVE PlanningInvariant'
  OBVIOUS
<1>1. /\ TypeOK /\ LoopsCover /\ BestCovers /\ NothingYet /\ TasksSuitTheirPlace
      /\ wh \in Warehouse /\ Len(wh.stock) \in Nat /\ Len(wh.appointments) \in Nat
  BY SnapshotType DEF PlanningInvariant
<1>2. /\ pc = "generate" /\ pc' = "deduplicate" /\ ~ InLoops
      /\ UNCHANGED <<path, wh, suppressed, at, next, candidates, best, offered, status, tasks>>
  BY DEF Considered
<1>3. TypeOK'
  BY <1>1, <1>2 DEF TypeOK, Candidate
<1>4. LoopsCover'
  <2>1. ASSUME NEW c \in Candidate
        PROVE  Before(c, at)
    <3>1. c[1] \in 1..Len(wh.appointments) /\ c[2] \in 1..Len(wh.stock)
      BY <1>1, PairFields DEF Candidate
    <3>2. at[1] \in Nat /\ at[2] \in Nat
      BY <1>1 DEF TypeOK
    <3>3. QED
      BY <3>1, <3>2, <1>1, <1>2 DEF LoopsCover, InLoops, Before
  <2>2. Candidate' = Candidate
    BY <1>2 DEF Candidate
  <2>3. QED
    BY <2>1, <2>2, <1>1, <1>2 DEF LoopsCover
<1>5. BestCovers' /\ NothingYet' /\ NothingBetterIsLeftOut' /\ TasksSuitTheirPlace'
  <2>1. BestCovers'
    BY <1>1, <1>2 DEF BestCovers, Beats
  <2>2. NothingYet' /\ NothingBetterIsLeftOut'
    BY <1>1, <1>2 DEF NothingYet, NothingBetterIsLeftOut
  <2>3. TasksSuitTheirPlace'
    BY <1>1, <1>2 DEF TypeOK, TasksSuitTheirPlace
  <2>4. QED
    BY <2>1, <2>2, <2>3
<1>6. TasksAreOffered'
  BY <1>3, FS_EmptySet DEF Considered, TypeOK, TasksAreOffered
<1>7. QED
  BY <1>3, <1>4, <1>5, <1>6 DEF PlanningInvariant

(* The keys of best are distinct, so at most one entry is of the SKU.      *)
LEMMA DeduplicatePreserves == PlanningInvariant /\ Deduplicate => PlanningInvariant'
<1> SUFFICES ASSUME PlanningInvariant, Deduplicate PROVE PlanningInvariant'
  OBVIOUS
<1> DEFINE c == candidates[next]
<1>1. /\ TypeOK /\ LoopsCover /\ BestCovers /\ NothingYet /\ TasksSuitTheirPlace
      /\ wh \in Warehouse
  BY SnapshotType DEF PlanningInvariant
<1>2. /\ pc = "deduplicate" /\ offered = <<>>
      /\ next \in DOMAIN candidates /\ next' = next + 1 /\ next \in Nat
      /\ UNCHANGED <<path, wh, suppressed, pc, at, candidates, offered, status, tasks>>
  BY <1>1 DEF Deduplicate, NothingYet, TypeOK
<1>3. c \in Candidate /\ Passes(wh, c)
  BY <1>1, <1>2 DEF TypeOK, LoopsCover
<1>4. best \in Seq(Candidate) /\ Len(best) \in Nat /\ DOMAIN best = 1..Len(best)
  BY <1>1 DEF TypeOK
<1>5. /\ best' \in Seq(Candidate)
      /\ \A i \in DOMAIN best' : Passes(wh, best'[i])
      /\ \A i, j \in DOMAIN best' : SkuOf(wh, best'[i]) = SkuOf(wh, best'[j]) => i = j
      /\ \E k \in DOMAIN best' : SkuOf(wh, best'[k]) = SkuOf(wh, c) /\ ~ Beats(c, best'[k])
      /\ \A i \in DOMAIN best :
            /\ i \in DOMAIN best'
            /\ SkuOf(wh, best'[i]) = SkuOf(wh, best[i])
            /\ ~ Beats(best[i], best'[i])
  <2>0. ASSUME NEW d \in Candidate, Passes(wh, d)
        PROVE  ~ Beats(d, d) /\ (Beats(c, d) => ~ Beats(d, c))
    BY <1>1, <1>3, <2>0, ValueType DEF Beats, Candidate
  <2>1. CASE Existing(c) = {}
    <3>1. best' = Append(best, c)
      BY <2>1 DEF Deduplicate
    <3>2. /\ best' \in Seq(Candidate) /\ Len(best') = Len(best) + 1
          /\ DOMAIN best' = 1..(Len(best) + 1)
          /\ \A i \in DOMAIN best : best'[i] = best[i]
          /\ best'[Len(best) + 1] = c
      <4> HIDE DEF Candidate, c
      <4>1. QED
        BY <3>1, <1>3, <1>4
    <3>3. \A i \in DOMAIN best : SkuOf(wh, best[i]) # SkuOf(wh, c)
      BY <2>1 DEF Existing
    <3>4. \A i \in DOMAIN best : best[i] \in Candidate /\ Passes(wh, best[i])
      BY <1>1, <1>4 DEF BestCovers
    <3>5. \A i, j \in DOMAIN best : SkuOf(wh, best[i]) = SkuOf(wh, best[j]) => i = j
      BY <1>1 DEF BestCovers
    <3> HIDE DEF Candidate, c
    <3>6. \A i \in DOMAIN best' : i \in DOMAIN best \/ i = Len(best) + 1
      BY <3>2, <1>4
    <3>7. QED
      BY <3>2, <3>3, <3>4, <3>5, <3>6, <2>0, <1>3, <1>4
  <2>2. CASE Existing(c) # {}
    <3>1. best' = [i \in DOMAIN best |->
                      IF i \in Existing(c) /\ Beats(c, best[i]) THEN c ELSE best[i]]
      BY <2>2 DEF Deduplicate
    <3>2. \A i \in DOMAIN best : best[i] \in Candidate /\ Passes(wh, best[i])
      BY <1>1, <1>4 DEF BestCovers
    <3>3. DOMAIN best' = DOMAIN best /\ best' \in Seq(Candidate)
      <4> HIDE DEF Candidate, c
      <4>1. best' \in [1..Len(best) -> Candidate]
        BY <3>1, <3>2, <1>3, <1>4
      <4>2. QED
        BY <4>1, <1>4
    <3>4. \A i \in Existing(c) : i \in DOMAIN best /\ SkuOf(wh, best[i]) = SkuOf(wh, c)
      BY DEF Existing
    <3>5. ASSUME NEW i \in DOMAIN best
          PROVE  /\ Passes(wh, best'[i])
                 /\ SkuOf(wh, best'[i]) = SkuOf(wh, best[i])
                 /\ ~ Beats(best[i], best'[i])
                 /\ i \in Existing(c) => ~ Beats(c, best'[i])
      <4>1. CASE i \in Existing(c) /\ Beats(c, best[i])
        BY <4>1, <3>1, <3>2, <3>4, <2>0, <1>3
      <4>2. CASE ~ (i \in Existing(c) /\ Beats(c, best[i]))
        BY <4>2, <3>1, <3>2, <2>0
      <4>3. QED
        BY <4>1, <4>2
    <3>6. \A i, j \in DOMAIN best' : SkuOf(wh, best'[i]) = SkuOf(wh, best'[j]) => i = j
      BY <3>3, <3>5, <1>1 DEF BestCovers
    <3>7. QED
      BY <3>3, <3>4, <3>5, <3>6, <2>2
  <2>3. QED
    BY <2>1, <2>2
<1>6. TypeOK'
  BY <1>1, <1>2, <1>5 DEF TypeOK, Candidate
<1>7. LoopsCover'
  BY <1>1, <1>2 DEF LoopsCover, Candidate
<1>8. BestCovers'
  <2>1. ASSUME NEW i \in DOMAIN candidates, i < next'
        PROVE  \E k \in DOMAIN best' :
                  SkuOf(wh, best'[k]) = SkuOf(wh, candidates[i]) /\ ~ Beats(candidates[i], best'[k])
    <3>1. CASE i = next
      BY <3>1, <1>5
    <3>2. CASE i # next
      <4>1. i < next /\ candidates[i] \in Candidate /\ Passes(wh, candidates[i])
        BY <3>2, <2>1, <1>1, <1>2 DEF TypeOK, LoopsCover
      <4>2. PICK k \in DOMAIN best :
              SkuOf(wh, best[k]) = SkuOf(wh, candidates[i]) /\ ~ Beats(candidates[i], best[k])
        BY <4>1, <1>1 DEF BestCovers
      <4>3. best[k] \in Candidate /\ Passes(wh, best[k])
        BY <4>2, <1>1, <1>4 DEF BestCovers
      <4>4. best'[k] \in Candidate /\ Passes(wh, best'[k])
        BY <4>2, <1>5
      <4>5. ~ Beats(candidates[i], best'[k])
        BY <4>1, <4>2, <4>3, <4>4, <1>1, <1>5, NotBeaten DEF Candidate
      <4>6. QED
        BY <4>2, <4>5, <1>5
    <3>3. QED
      BY <3>1, <3>2
  <2>2. \A i \in DOMAIN candidates' : i < next' => \E k \in DOMAIN best' :
            SkuOf(wh, best[k])' = SkuOf(wh, candidates[i])' /\ ~ Beats(candidates[i], best[k])'
    BY <2>1, <1>2 DEF Beats
  <2>3. QED
    BY <2>2, <1>2, <1>5 DEF BestCovers
<1>9. NothingYet' /\ NothingBetterIsLeftOut' /\ TasksSuitTheirPlace'
  <2>1. NothingYet' /\ NothingBetterIsLeftOut'
    BY <1>1, <1>2 DEF NothingYet, NothingBetterIsLeftOut
  <2>2. TasksSuitTheirPlace'
    BY <1>1, <1>2 DEF TypeOK, TasksSuitTheirPlace
  <2>3. QED
    BY <2>1, <2>2
<1>10. TasksAreOffered'
  BY <1>6, FS_EmptySet DEF Deduplicate, TypeOK, TasksAreOffered
<1>11. QED
  BY <1>6, <1>7, <1>8, <1>9, <1>10 DEF PlanningInvariant

CutList(barred, p) == [k \in 1..Cut(Cardinality(Listed(barred))) |-> best[p[k]]]

(* A cut ranking of the free entries of best leaves out nothing better.    *)
LEMMA CutRanking ==
    ASSUME TypeOK, LoopsCover, BestCovers, pc = "deduplicate", next > Len(candidates),
           NEW barred, NEW p \in Rankings(best, Listed(barred)), NEW list,
           list = CutList(barred, p)
    PROVE  /\ list \in Seq(Candidate) /\ Len(list) <= MaxCandidates
           /\ \A i, j \in DOMAIN list :
                 i < j => /\ SkuOf(wh, list[i]) # SkuOf(wh, list[j])
                          /\ Value(wh, list[i]) >= Value(wh, list[j])
           /\ \A i \in DOMAIN list :
                 Passes(wh, list[i]) /\ SkuOf(wh, list[i]) \notin barred
           /\ \A c \in Candidate : Passes(wh, c) /\ SkuOf(wh, c) \notin barred =>
                 \/ \E i \in DOMAIN list :
                       SkuOf(wh, list[i]) = SkuOf(wh, c) /\ ~ Beats(c, list[i])
                 \/ /\ Len(list) = MaxCandidates
                    /\ \A i \in DOMAIN list : ~ Beats(c, list[i])
<1> DEFINE places == Listed(barred)
           n == Cardinality(places)
<1>1. wh \in Warehouse /\ MaxCandidates \in Nat /\ best \in Seq(Candidate)
  BY SnapshotType DEF TypeOK
<1>2. \A i \in DOMAIN best : Passes(wh, best[i]) /\ best[i] \in Candidate
  BY <1>1 DEF BestCovers
<1>3. places \in SUBSET (DOMAIN best)
  BY DEF Listed
<1>4. /\ n \in Nat /\ p \in [1..n -> places]
      /\ \A k \in places : \E m \in 1..n : p[m] = k
  <2> HIDE DEF places
  <2>1. best \in Seq(Pairs(wh)) /\ p \in Rankings(best, places)
    BY <1>1 DEF Candidate, places
  <2>2. QED
    BY <2>1, <1>1, <1>2, <1>3, RankingIsOnto
<1>5. \A i, j \in 1..n : i < j => Precedes(best, p[i], p[j])
  BY DEF Rankings
<1>6. \A i \in 1..n : /\ p[i] \in DOMAIN best /\ SkuOf(wh, best[p[i]]) \notin barred
                      /\ Passes(wh, best[p[i]]) /\ best[p[i]] \in Candidate
                      /\ Value(wh, best[p[i]]) \in Int
  <2>1. \A i \in 1..n : p[i] \in DOMAIN best /\ SkuOf(wh, best[p[i]]) \notin barred
    BY <1>4 DEF Listed
  <2>2. QED
    BY <2>1, <1>1, <1>2, ValueType DEF Candidate
<1>7. /\ Cut(n) \in Nat /\ Cut(n) <= n /\ Cut(n) <= MaxCandidates
      /\ Cut(n) < n => Cut(n) = MaxCandidates
  BY <1>1, <1>4 DEF Cut, Least
<1>8. /\ list \in Seq(Candidate) /\ Len(list) = Cut(n) /\ DOMAIN list = 1..Cut(n)
      /\ \A i \in 1..Cut(n) : i \in 1..n /\ list[i] = best[p[i]]
  <2> HIDE DEF n, places, Candidate
  <2>1. list = [k \in 1..Cut(n) |-> best[p[k]]]
    BY DEF n, places, CutList
  <2>2. \A i \in 1..Cut(n) : i \in 1..n /\ best[p[i]] \in Candidate
    BY <1>4, <1>6, <1>7
  <2>3. list \in [1..Cut(n) -> Candidate]
    BY <2>1, <2>2
  <2>4. list \in Seq(Candidate) /\ Len(list) = Cut(n)
    BY <2>3, <1>7
  <2>5. QED
    BY <2>1, <2>2, <2>4
<1>9. ASSUME NEW i \in 1..n, NEW j \in 1..n, i < j
      PROVE  /\ SkuOf(wh, best[p[i]]) # SkuOf(wh, best[p[j]])
             /\ Value(wh, best[p[i]]) >= Value(wh, best[p[j]])
  <2>1. Precedes(best, p[i], p[j])
    BY <1>5, <1>9
  <2>2. p[i] # p[j] /\ p[i] \in Nat /\ p[j] \in Nat
    BY <2>1, <1>1, <1>6 DEF Precedes
  <2>3. SkuOf(wh, best[p[i]]) # SkuOf(wh, best[p[j]])
    BY <2>2, <1>6 DEF BestCovers
  <2>4. QED
    BY <2>1, <2>3, <1>6 DEF Precedes
<1>10. ASSUME NEW c \in Candidate, Passes(wh, c), SkuOf(wh, c) \notin barred
       PROVE  \/ \E i \in 1..Cut(n) :
                    SkuOf(wh, list[i]) = SkuOf(wh, c) /\ ~ Beats(c, list[i])
              \/ /\ Len(list) = MaxCandidates
                 /\ \A i \in 1..Cut(n) : ~ Beats(c, list[i])
  <2>1. PICK i \in DOMAIN candidates : candidates[i] = c
    BY <1>10 DEF LoopsCover
  <2>2. i < next
    BY <2>1 DEF TypeOK
  <2>3. PICK k \in DOMAIN best : SkuOf(wh, best[k]) = SkuOf(wh, c) /\ ~ Beats(c, best[k])
    BY <2>1, <2>2 DEF BestCovers
  <2>4. PICK m \in 1..n : p[m] = k
    BY <2>3, <1>4, <1>10 DEF Listed
  <2>5. CASE m <= Cut(n)
    <3>1. m \in 1..Cut(n) /\ list[m] = best[k]
      BY <2>4, <2>5, <1>4, <1>7, <1>8
    <3>2. QED
      BY <3>1, <2>3
  <2>6. CASE ~ (m <= Cut(n))
    <3>1. Len(list) = MaxCandidates
      BY <2>6, <1>4, <1>7, <1>8
    <3>2. ASSUME NEW j \in 1..Cut(n)
          PROVE  ~ Beats(c, list[j])
      <4>1. j \in 1..n /\ j < m /\ list[j] = best[p[j]]
        BY <2>6, <1>4, <1>7, <1>8
      <4>2. Value(wh, list[j]) >= Value(wh, best[k]) /\ Value(wh, list[j]) \in Int
        BY <4>1, <2>4, <1>6, <1>9
      <4>3. Value(wh, c) \in Int /\ Value(wh, best[k]) \in Int
        BY <2>3, <1>1, <1>2, <1>10, ValueType DEF Candidate
      <4>4. QED
        BY <4>2, <4>3, <2>3 DEF Beats
    <3>3. QED
      BY <3>1, <3>2
  <2>7. QED
    BY <2>5, <2>6
<1>11. \A i \in DOMAIN list : Passes(wh, list[i]) /\ SkuOf(wh, list[i]) \notin barred
  BY <1>6, <1>8
<1>12. ASSUME NEW i \in DOMAIN list, NEW j \in DOMAIN list, i < j
       PROVE  /\ SkuOf(wh, list[i]) # SkuOf(wh, list[j])
              /\ Value(wh, list[i]) >= Value(wh, list[j])
  <2>1. i \in 1..n /\ j \in 1..n /\ list[i] = best[p[i]] /\ list[j] = best[p[j]]
    BY <1>8
  <2>2. QED
    BY <2>1, <1>9, <1>12
<1>13. list \in Seq(Candidate) /\ Len(list) <= MaxCandidates
  BY <1>7, <1>8
<1> HIDE DEF n, places
<1>14. QED
  BY <1>8, <1>10, <1>11, <1>12, <1>13

LEMMA OfferPreserves == PlanningInvariant /\ Offer => PlanningInvariant'
<1> SUFFICES ASSUME PlanningInvariant, Offer PROVE PlanningInvariant'
  OBVIOUS
<1>1. /\ TypeOK /\ LoopsCover /\ BestCovers /\ TasksSuitTheirPlace
      /\ wh \in Warehouse
  BY SnapshotType DEF PlanningInvariant
<1>2. /\ pc = "deduplicate" /\ next > Len(candidates) /\ pc' = "select"
      /\ UNCHANGED <<path, wh, at, next, candidates, best, status, tasks>>
      /\ suppressed' \in SUBSET {SkuOf(wh, best[i]) : i \in DOMAIN best}
      /\ tasks = {}
  BY <1>1 DEF Offer, TypeOK
<1>3. PICK p \in Rankings(best, Listed(suppressed')) :
         offered' = CutList(suppressed', p)
  BY DEF Offer, CutList
<1>4. /\ offered' \in Seq(Candidate) /\ Len(offered') <= MaxCandidates
      /\ \A i, j \in DOMAIN offered' :
            i < j => /\ SkuOf(wh, offered'[i]) # SkuOf(wh, offered'[j])
                     /\ Value(wh, offered'[i]) >= Value(wh, offered'[j])
      /\ \A i \in DOMAIN offered' :
            Passes(wh, offered'[i]) /\ SkuOf(wh, offered'[i]) \notin suppressed'
      /\ \A c \in Candidate : Passes(wh, c) /\ SkuOf(wh, c) \notin suppressed' =>
            \/ \E i \in DOMAIN offered' :
                  SkuOf(wh, offered'[i]) = SkuOf(wh, c) /\ ~ Beats(c, offered'[i])
            \/ /\ Len(offered') = MaxCandidates
               /\ \A i \in DOMAIN offered' : ~ Beats(c, offered'[i])
  BY <1>1, <1>2, <1>3, CutRanking
<1>5. TypeOK'
  <2>1. suppressed' \subseteq Sku
    <3>1. \A i \in DOMAIN best : SkuOf(wh, best[i]) \in Sku
      BY <1>1, PairFields DEF TypeOK, Candidate
    <3>2. QED
      BY <3>1, <1>2
  <2>2. QED
    BY <2>1, <1>1, <1>2, <1>4 DEF TypeOK, Candidate
<1>6. LoopsCover' /\ BestCovers' /\ NothingYet'
  <2>1. LoopsCover'
    BY <1>1, <1>2 DEF LoopsCover, Candidate
  <2>2. BestCovers'
    BY <1>1, <1>2 DEF BestCovers, Beats
  <2>3. NothingYet'
    BY <1>2 DEF NothingYet
  <2>4. QED
    BY <2>1, <2>2, <2>3
<1>7. NothingBetterIsLeftOut'
  BY <1>2, <1>4 DEF NothingBetterIsLeftOut, Candidate, Free, Beats
<1>8. TasksSuitTheirPlace'
  BY <1>2 DEF TasksSuitTheirPlace
<1>9. TasksAreOffered'
  BY <1>5, FS_EmptySet DEF Offer, TypeOK, TasksAreOffered
<1>10. QED
  BY <1>5, <1>6, <1>7, <1>8, <1>9 DEF PlanningInvariant

-----------------------------------------------------------------------------
(* A task suits its place if it is a task of an offered candidate and goes *)
(* to the place of that candidate, or to the place of another to which the *)
(* solver may assign it.                                                   *)
Suits(t) ==
    /\ t.candidate \in Candidate
    /\ \E i \in DOMAIN offered : offered[i] = t.candidate
    /\ t.to \in Location
    /\ Free(t.candidate)
    /\ t.to \notin wh.full
    /\ WellStored(wh) => Site[t.to].zone \in AcceptableZones(Needs[SkuOf(wh, t.candidate)])

LEMMA OfferedPlace ==
    ASSUME TypeOK, NothingBetterIsLeftOut, pc = "select", NEW i \in DOMAIN offered
    PROVE  /\ offered[i] \in Candidate /\ Free(offered[i])
           /\ To(wh, offered[i]) \in Location
           /\ To(wh, offered[i]) \notin wh.full
           /\ Site[To(wh, offered[i])].zone \in AcceptableZones(Needs[SkuOf(wh, offered[i])])
<1>1. offered[i] \in Candidate /\ Free(offered[i]) /\ Passes(wh, offered[i])
  BY DEF TypeOK, NothingBetterIsLeftOut
<1>2. To(wh, offered[i]) \in Location
  BY <1>1, SnapshotType, ValueType DEF Candidate
<1>3. Feasible(wh, MoveOf(wh, offered[i]))
  BY <1>1 DEF Passes
<1>4. QED
  BY <1>1, <1>2, <1>3 DEF Feasible, TemperatureAllows, CapacityAllows, MoveOf

LEMMA OwnPlaceSuits ==
    ASSUME TypeOK, NothingBetterIsLeftOut, pc = "select", NEW i \in DOMAIN offered,
           NEW t, t = Task(offered[i], To(wh, offered[i]))
    PROVE  t \in [candidate : Candidate, to : Location] /\ Suits(t)
BY OfferedPlace DEF Task, Suits

(* The solver keeps to the zone the pallet is in.                          *)
LEMMA AssignedPlaceSuits ==
    ASSUME TypeOK, NothingBetterIsLeftOut, pc = "select", NEW i \in DOMAIN offered,
           NEW spot \in NamedSpots, Assignable(offered[i], spot),
           NEW t, t = Task(offered[i], spot)
    PROVE  t \in [candidate : Candidate, to : Location] /\ Suits(t)
<1>1. offered[i] \in Candidate /\ Free(offered[i])
  BY OfferedPlace
<1>2. spot \in Location /\ spot \notin wh.full
  BY OfferedPlace DEF NamedSpots
<1>3. ASSUME WellStored(wh)
      PROVE  Site[spot].zone \in AcceptableZones(Needs[SkuOf(wh, offered[i])])
  <2>1. /\ SkuOf(wh, offered[i]) \in Sku
        /\ From(wh, offered[i]) \in Location
        /\ offered[i][2] \in DOMAIN wh.stock
    BY <1>1, SnapshotType, PairFields DEF Candidate, Pairs
  <2>2. /\ Site[From(wh, offered[i])].zone \in TemperatureZone
        /\ Site[spot].zone \in TemperatureZone
        /\ Needs[SkuOf(wh, offered[i])] \in TemperatureZone
    BY <1>2, <2>1, ConstraintsAssumption DEF Attributes
  <2>3. Site[From(wh, offered[i])].zone \in AcceptableZones(Needs[SkuOf(wh, offered[i])])
    BY <1>3, <2>1 DEF WellStored, From, SkuOf
  <2>4. ZoneFitsZone(Site[From(wh, offered[i])].zone, Site[spot].zone)
    BY DEF Assignable
  <2>5. QED
    BY <2>2, <2>3, <2>4, ZonesDoCompose DEF ZonesCompose
<1>4. QED
  BY <1>1, <1>2, <1>3 DEF Task, Suits

(* Ending with tasks that suit preserves everything.                       *)
LEMMA EndPreserves ==
    ASSUME PlanningInvariant, pc = "select", NEW ts, NEW st,
           st \in {"NONE", "OPTIMAL", "FEASIBLE", "UNKNOWN", "INFEASIBLE"},
           \A t \in ts : t \in [candidate : Candidate, to : Location] /\ Suits(t),
           IsFiniteSet(ts), End(ts, st)
    PROVE  PlanningInvariant'
<1>1. /\ TypeOK /\ LoopsCover /\ BestCovers
      /\ wh \in Warehouse
  BY SnapshotType DEF PlanningInvariant
<1>2. /\ tasks' = ts /\ status' = st /\ pc' = "done"
      /\ UNCHANGED <<path, wh, suppressed, at, next, candidates, best, offered>>
  BY DEF End
<1>3. TypeOK'
  BY <1>1, <1>2 DEF TypeOK, Candidate
<1>4. LoopsCover'
  BY <1>1, <1>2 DEF LoopsCover, Candidate
<1>5. BestCovers'
  BY <1>1, <1>2 DEF BestCovers, Beats
<1>6. NothingYet' /\ NothingBetterIsLeftOut'
  BY <1>2 DEF NothingYet, NothingBetterIsLeftOut
<1>7. TasksSuitTheirPlace'
  BY <1>2 DEF TasksSuitTheirPlace, Suits, Free
<1>8. TasksAreOffered'
  BY <1>2 DEF TasksAreOffered, Suits
<1>9. QED
  BY <1>3, <1>4, <1>5, <1>6, <1>7, <1>8 DEF PlanningInvariant

(* What a function takes a finite set to is finite.                        *)
LEMMA FiniteValues ==
    ASSUME NEW S, IsFiniteSet(S), NEW f, NEW T, T = {f[i] : i \in S}
    PROVE  IsFiniteSet(T)
<1> DEFINE g == [i \in S |-> f[i]]
<1>1. g \in Surjection(S, T)
  BY DEF Surjection
<1> HIDE DEF g
<1> QED
  BY <1>1, FS_Surjection

LEMMA GreedySuits ==
    ASSUME TypeOK, NothingBetterIsLeftOut, pc = "select", NEW n \in Nat
    PROVE  /\ \A t \in Greedy(n) : t \in [candidate : Candidate, to : Location] /\ Suits(t)
           /\ IsFiniteSet(Greedy(n))
<1>1. \A i \in 1..Least(n, Len(offered)) : i \in DOMAIN offered
  BY DEF TypeOK, Least
<1>2. ASSUME NEW t \in Greedy(n)
      PROVE  t \in [candidate : Candidate, to : Location] /\ Suits(t)
  <2>1. PICK i \in 1..Least(n, Len(offered)) : t = Task(offered[i], To(wh, offered[i]))
    BY DEF Greedy
  <2>2. QED
    BY <1>1, <2>1, OwnPlaceSuits
<1>3. IsFiniteSet(Greedy(n))
  <2> DEFINE places == 1..Least(n, Len(offered))
             f == [i \in places |-> Task(offered[i], To(wh, offered[i]))]
  <2>1. Greedy(n) = {f[i] : i \in places}
    BY DEF Greedy
  <2>2. IsFiniteSet(places)
    <3>1. Least(n, Len(offered)) \in Int
      BY DEF Least, TypeOK
    <3> QED
      BY <3>1, FS_Interval
  <2> HIDE DEF f, places
  <2>3. QED
    BY <2>1, <2>2, FiniteValues
<1>4. QED
  BY <1>2, <1>3

LEMMA BatchSuits ==
    ASSUME TypeOK, NothingBetterIsLeftOut, pc = "select",
           NEW resources, NEW f \in Assignments(resources)
    PROVE  /\ \A t \in Batch(f) : t \in [candidate : Candidate, to : Location] /\ Suits(t)
           /\ IsFiniteSet(Batch(f))
<1>1. PICK chosen \in SUBSET DOMAIN offered : f \in [chosen -> NamedSpots]
  BY DEF Assignments
<1>2. ASSUME NEW t \in Batch(f)
      PROVE  t \in [candidate : Candidate, to : Location] /\ Suits(t)
  <2>1. PICK i \in DOMAIN f : t = Task(offered[i], f[i])
    BY DEF Batch, FirstOf
  <2>2. Assignable(offered[i], f[i])
    BY DEF Assignments
  <2>3. QED
    BY <1>1, <2>1, <2>2, AssignedPlaceSuits
<1>3. IsFiniteSet(Batch(f))
  <2> DEFINE places == FirstOf(f, BatchSize)
             g == [i \in places |-> Task(offered[i], f[i])]
  <2>1. Batch(f) = {g[i] : i \in places}
    BY DEF Batch
  <2>2. IsFiniteSet(DOMAIN offered)
    <3>1. Len(offered) \in Nat /\ DOMAIN offered = 1..Len(offered)
      BY DEF TypeOK
    <3> QED
      BY <3>1, FS_Interval
  <2>3. IsFiniteSet(places)
    BY <1>1, <2>2, FS_Subset DEF FirstOf
  <2> HIDE DEF g, places
  <2>4. QED
    BY <2>1, <2>3, FiniteValues
<1>4. QED
  BY <1>2, <1>3

LEMMA SolvePreserves ==
    ASSUME PlanningInvariant, pc = "select", NEW resources, Solve(resources)
    PROVE  PlanningInvariant'
<1>1. TypeOK /\ NothingBetterIsLeftOut
  BY DEF PlanningInvariant
<1>2. \/ \E f \in Assignments(resources) : End(Batch(f), "OPTIMAL") \/ End(Batch(f), "FEASIBLE")
      \/ End({}, "UNKNOWN")
      \/ End({}, "INFEASIBLE")
  BY DEF Solve
<1>3. CASE \E f \in Assignments(resources) : End(Batch(f), "OPTIMAL") \/ End(Batch(f), "FEASIBLE")
  BY <1>1, <1>3, BatchSuits, EndPreserves
<1>4. CASE End({}, "UNKNOWN") \/ End({}, "INFEASIBLE")
  BY <1>4, EndPreserves, FS_EmptySet
<1>5. QED
  BY <1>2, <1>3, <1>4

LEMMA PlanningStep == PlanningInvariant /\ [Next]_vars => PlanningInvariant'
<1> SUFFICES ASSUME PlanningInvariant, [Next]_vars PROVE PlanningInvariant'
  OBVIOUS
<1>1. TypeOK /\ NothingBetterIsLeftOut /\ {MaxCandidates, BatchSize} \subseteq Nat
  BY SnapshotType DEF PlanningInvariant
<1>2. CASE Consider
  BY <1>2, ConsiderPreserves
<1>3. CASE Considered
  BY <1>3, ConsideredPreserves
<1>4. CASE Deduplicate
  BY <1>4, DeduplicatePreserves
<1>5. CASE Offer
  BY <1>5, OfferPreserves
<1>6. CASE SelectGreedy
  <2>1. pc = "select" /\ End(Greedy(BatchSize), "NONE")
    BY <1>6 DEF SelectGreedy
  <2>2. /\ \A t \in Greedy(BatchSize) : t \in [candidate : Candidate, to : Location] /\ Suits(t)
        /\ IsFiniteSet(Greedy(BatchSize))
    BY <2>1, <1>1, GreedySuits
  <2>3. QED
    BY <2>1, <2>2, EndPreserves
<1>7. CASE SelectAssigned
  <2>1. pc = "select" /\ Solve(Resources)
    BY <1>7 DEF SelectAssigned
  <2>2. QED
    BY <2>1, SolvePreserves
<1>8. CASE SelectByPolicy
  <2>1. /\ pc = "select"
        /\ \E i \in 1..Least(Len(offered), PolicyActions) :
              End(IF BatchSize = 0 THEN {} ELSE {Task(offered[i], To(wh, offered[i]))}, "NONE")
    BY <1>8 DEF SelectByPolicy
  <2>2. PICK i \in 1..Least(Len(offered), PolicyActions) :
              End(IF BatchSize = 0 THEN {} ELSE {Task(offered[i], To(wh, offered[i]))}, "NONE")
    BY <2>1
  <2> DEFINE ts == IF BatchSize = 0 THEN {} ELSE {Task(offered[i], To(wh, offered[i]))}
  <2>3. i \in DOMAIN offered
    BY <1>1, PlanningAssumption DEF TypeOK, Least
  <2>4. \A t \in ts : t \in [candidate : Candidate, to : Location] /\ Suits(t)
    BY <2>1, <2>3, <1>1, OwnPlaceSuits
  <2>5. End(ts, "NONE")
    BY <2>2
  <2>6. IsFiniteSet(ts)
    BY FS_EmptySet, FS_Singleton
  <2> HIDE DEF ts
  <2>7. QED
    BY <2>1, <2>4, <2>5, <2>6, EndPreserves
<1>9. CASE PolicyFallsBack
  <2>1. pc = "select" /\ Solve(FallbackResources)
    BY <1>9 DEF PolicyFallsBack
  <2>2. QED
    BY <2>1, SolvePreserves
<1>10. CASE UNCHANGED vars
  BY <1>10 DEF vars, PlanningInvariant, TypeOK, LoopsCover, BestCovers, NothingYet,
     NothingBetterIsLeftOut, TasksSuitTheirPlace, TasksAreOffered, Candidate, Free, Beats
<1>11. QED
  BY <1>2, <1>3, <1>4, <1>5, <1>6, <1>7, <1>8, <1>9, <1>10 DEF Next

-----------------------------------------------------------------------------
(* The inductive invariant holds.                                          *)
THEOREM PlanningIsInvariant == Spec => []PlanningInvariant
BY PlanInitially, PlanningStep, PTL DEF Spec

(* A cycle's variables keep their types: no list outgrows max_candidates,  *)
(* and every task is of a pair of the snapshot.                            *)
THEOREM PlanTypeCorrect == Spec => []TypeOK
<1>1. PlanningInvariant => TypeOK
  BY DEF PlanningInvariant
<1>2. QED
  BY <1>1, PlanningIsInvariant, PTL

(* generate_candidates leaves out nothing better than what it offers.      *)
THEOREM NothingLeftOut == Spec => []NothingBetterIsLeftOut
<1>1. PlanningInvariant => NothingBetterIsLeftOut
  BY DEF PlanningInvariant
<1>2. QED
  BY <1>1, PlanningIsInvariant, PTL

(* No dispatch path makes a task of a suppressed SKU or into a full place. *)
THEOREM TasksSuit == Spec => []TasksSuitTheirPlace
<1>1. PlanningInvariant => TasksSuitTheirPlace
  BY DEF PlanningInvariant
<1>2. QED
  BY <1>1, PlanningIsInvariant, PTL

(* Every candidate of a positive threshold brings its pallet nearer to a   *)
(* truck that loads its SKU.                                               *)
THEOREM CandidatesApproach == Spec => []CandidatesApproachTheirTruck
<1>1. PlanningInvariant => CandidatesApproachTheirTruck
  <2> SUFFICES ASSUME PlanningInvariant, MinScore > 0, NEW i \in DOMAIN candidates
               PROVE  \E a \in DOMAIN wh.appointments :
                         /\ Loads(wh, a, MoveOf(wh, candidates[i]).sku)
                         /\ TimeSaved(MoveOf(wh, candidates[i]).from, MoveOf(wh, candidates[i]).to,
                                      DoorSite(wh.appointments[a])) > 0
    BY DEF CandidatesApproachTheirTruck
  <2> DEFINE move == MoveOf(wh, candidates[i])
             a == BestDeparture(wh, move.sku)[1]
  <2>1. wh \in Warehouse /\ candidates[i] \in Candidate /\ Passes(wh, candidates[i])
    BY SnapshotType DEF PlanningInvariant, TypeOK, LoopsCover
  <2>2. Score(wh, move) \in Int /\ Score(wh, move) >= MinScore
    BY <2>1, ValueType DEF Passes, Value, Candidate
  <2>3. Score(wh, move) # 0
    BY <2>2, PlanningAssumption
  <2>4. /\ Departures(wh, move.sku) # {}
        /\ ~ (TimeSaved(move.from, move.to, DoorOf(wh, move.sku)) <= 0)
    BY <2>3 DEF Score
  <2>5. a \in DOMAIN wh.appointments /\ Loads(wh, a, move.sku)
    BY <2>1, <2>4, BestDepartureType, WeightType
  <2>6. TimeSaved(move.from, move.to, DoorOf(wh, move.sku)) > 0
    <3>1. wh.appointments[a] \in Int
      BY <2>1, <2>5 DEF Warehouse
    <3>2. DoorOf(wh, move.sku) \in [x : Int, y : Int]
      BY <3>1, ValueAssumption DEF DoorOf, DoorSite
    <3>3. move \in Move
      BY <2>1, MoveOfType DEF Passes, Candidate
    <3>4. TimeSaved(move.from, move.to, DoorOf(wh, move.sku)) \in Int
      BY <3>2, <3>3, ConstraintsAssumption DEF Move, TimeSaved, Manhattan, Absolute,
         Attributes
    <3>5. QED
      BY <3>4, <2>4
  <2>7. QED
    BY <2>5, <2>6 DEF DoorOf
<1>2. QED
  BY <1>1, PlanningIsInvariant, PTL

-----------------------------------------------------------------------------
(* The solver's model.  It separates no classes, as it is told of none.    *)
LEMMA IsAssignment ==
    ASSUME NEW resources, NEW chosen \in SUBSET DOMAIN offered, NEW f \in [chosen -> NamedSpots]
    PROVE  f \in Assignments(resources) <=>
              /\ Cardinality(chosen) <= resources
              /\ OnePerSpot(f)
              /\ \A i \in chosen : Assignable(offered[i], f[i])
<1>1. Separated(f)
  BY DEF Separated, ComponentClass, SolverIncompatible
<1>2. f \in UNION {[c -> NamedSpots] : c \in SUBSET DOMAIN offered} /\ DOMAIN f = chosen
  OBVIOUS
<1> QED
  BY <1>1, <1>2 DEF Assignments

LEMMA AssignmentType ==
    ASSUME NEW resources, NEW f \in Assignments(resources)
    PROVE  /\ DOMAIN f \in SUBSET DOMAIN offered
           /\ f \in [DOMAIN f -> NamedSpots]
           /\ Cardinality(DOMAIN f) <= resources
           /\ OnePerSpot(f)
           /\ \A i \in DOMAIN f : Assignable(offered[i], f[i])
BY DEF Assignments

(* What is offered: finitely many candidates, no two alike, of a worth.    *)
LEMMA OfferedWorth ==
    ASSUME PlanningInvariant, pc = "select"
    PROVE  /\ \A s \in SUBSET DOMAIN offered : IsFiniteSet(s) /\ Cardinality(s) \in Nat
           /\ DOMAIN offered \subseteq Nat
           /\ \A i \in DOMAIN offered : Worth[i] = Value(wh, offered[i]) /\ Worth[i] \in Int
           /\ \A i, j \in DOMAIN offered : offered[i] = offered[j] => i = j
<1>1. Len(offered) \in Nat /\ DOMAIN offered = 1..Len(offered) /\ wh \in Warehouse
  BY SnapshotType DEF PlanningInvariant, TypeOK
<1>2. \A s \in SUBSET DOMAIN offered : IsFiniteSet(s) /\ Cardinality(s) \in Nat
  <2>1. IsFiniteSet(DOMAIN offered)
    BY <1>1, FS_Interval
  <2> QED
    BY <2>1, FS_Subset, FS_CardinalityType
<1>3. \A i \in DOMAIN offered : Worth[i] = Value(wh, offered[i]) /\ Worth[i] \in Int
  <2>1. \A i \in DOMAIN offered : offered[i] \in Pairs(wh) /\ Passes(wh, offered[i])
    BY <1>1 DEF PlanningInvariant, TypeOK, Candidate, NothingBetterIsLeftOut
  <2> QED
    BY <1>1, <2>1, ValueType DEF Worth
<1>4. ASSUME NEW i \in DOMAIN offered, NEW j \in DOMAIN offered, i # j
      PROVE  offered[i] # offered[j]
  <2>1. i < j \/ j < i
    BY <1>1, <1>4
  <2>2. SkuOf(wh, offered[i]) # SkuOf(wh, offered[j])
    BY <2>1 DEF PlanningInvariant, NothingBetterIsLeftOut
  <2> QED
    BY <2>2
<1> QED
  BY <1>1, <1>2, <1>3, <1>4

(* The first n of an assignment are n, and worth as much as any after.     *)
LEMMA FirstAreFirst ==
    ASSUME PlanningInvariant, pc = "select", NEW n \in Nat,
           NEW f, DOMAIN f \in SUBSET DOMAIN offered, FirstOf(f, n) # DOMAIN f
    PROVE  /\ Cardinality(FirstOf(f, n)) >= n
           /\ \A i \in FirstOf(f, n), j \in DOMAIN f \ FirstOf(f, n) : Worth[i] >= Worth[j]
<1> DEFINE Ahead(i) == {j \in DOMAIN f : Precedes(offered, j, i)}
           rank == [i \in DOMAIN f |-> Cardinality(Ahead(i))]
           Rest == DOMAIN f \ FirstOf(f, n)
<1>1. FirstOf(f, n) = {i \in DOMAIN f : rank[i] < n}
  BY DEF FirstOf
<1>2. \A i \in DOMAIN f : rank[i] \in Nat /\ rank[i] = Cardinality(Ahead(i)) /\ IsFiniteSet(Ahead(i))
  <2>1. \A i \in DOMAIN f : Ahead(i) \in SUBSET DOMAIN offered
    OBVIOUS
  <2> HIDE DEF Ahead
  <2> QED
    BY <2>1, OfferedWorth
<1>3. \A i, j \in DOMAIN f :
         Precedes(offered, i, j) <=> Worth[i] > Worth[j] \/ (Worth[i] = Worth[j] /\ i < j)
  BY OfferedWorth DEF Precedes
<1>4. \A i \in DOMAIN f : Worth[i] \in Int /\ i \in Nat
  BY OfferedWorth
<1>5. ASSUME NEW i \in DOMAIN f, NEW j \in DOMAIN f, Precedes(offered, j, i)
      PROVE  rank[j] < rank[i]
  <2>1. Ahead(j) \in SUBSET Ahead(i)
    BY <1>3, <1>4, <1>5
  <2>2. j \in Ahead(i) /\ j \notin Ahead(j)
    BY <1>3, <1>4, <1>5
  <2>3. Cardinality(Ahead(j)) <= Cardinality(Ahead(i)) /\ Cardinality(Ahead(j)) # Cardinality(Ahead(i))
    <3> HIDE DEF Ahead
    <3> QED
      BY <1>2, <2>1, <2>2, FS_Subset
  <2> HIDE DEF Ahead, rank
  <2> QED
    BY <1>2, <2>3
<1> HIDE DEF rank
<1>6. Cardinality(FirstOf(f, n)) >= n
  <2> DEFINE Ranks == {rank[i] : i \in Rest}
  <2>1. Ranks \in SUBSET Nat /\ Ranks # {}
    BY <1>1, <1>2
  <2>2. PICK r \in Ranks : \A q \in Ranks : r <= q
    <3> HIDE DEF Ranks
    <3> QED
      BY <2>1, LeastNatural
  <2>3. PICK y \in Rest : r = rank[y]
    BY <2>2
  <2>4. Ahead(y) \in SUBSET FirstOf(f, n)
    <3> SUFFICES ASSUME NEW j \in Ahead(y)
                 PROVE  j \notin Rest
      OBVIOUS
    <3>1. rank[j] < rank[y] /\ rank[j] \in Nat /\ rank[y] \in Nat
      BY <1>2, <1>5
    <3> QED
      BY <2>2, <2>3, <3>1
  <2>5. rank[y] >= n
    <3>1. y \in DOMAIN f /\ ~ (rank[y] < n)
      BY <1>1
    <3>2. rank[y] \in Nat
      BY <1>2, <3>1
    <3> QED
      BY <3>1, <3>2
  <2>6. FirstOf(f, n) \in SUBSET DOMAIN offered
    BY <1>1
  <2>7. IsFiniteSet(FirstOf(f, n)) /\ Cardinality(FirstOf(f, n)) \in Nat
    BY <2>6, OfferedWorth
  <2>8. Cardinality(Ahead(y)) <= Cardinality(FirstOf(f, n))
    <3> HIDE DEF Ahead
    <3> QED
      BY <2>4, <2>7, FS_Subset
  <2> QED
    BY <1>2, <2>5, <2>7, <2>8
<1>7. ASSUME NEW i \in FirstOf(f, n), NEW j \in Rest
      PROVE  Worth[i] >= Worth[j]
  <2>1. i \in DOMAIN f /\ j \in DOMAIN f /\ rank[i] < n /\ ~ (rank[j] < n)
    BY <1>1
  <2>2. ~ Precedes(offered, j, i)
    <3>1. rank[i] \in Nat /\ rank[j] \in Nat
      BY <1>2, <2>1
    <3>2. Precedes(offered, j, i) => rank[j] < rank[i]
      BY <1>5, <2>1
    <3> QED
      BY <2>1, <3>1, <3>2
  <2>3. ~ (Worth[j] > Worth[i])
    <3>1. Worth[j] > Worth[i] => Precedes(offered, j, i)
      BY <1>3, <2>1
    <3> QED
      BY <2>2, <3>1
  <2>4. Worth[i] \in Int /\ Worth[j] \in Int
    BY <1>4, <2>1
  <2> QED
    BY <2>3, <2>4
<1> QED
  BY <1>6, <1>7

(* Some place a larger assignment uses is free in a smaller one.           *)
LEMMA SomePlaceIsFree ==
    ASSUME NEW f, NEW h, OnePerSpot(f), IsFiniteSet(DOMAIN h), IsFiniteSet(DOMAIN f),
           Cardinality(DOMAIN h) < Cardinality(DOMAIN f)
    PROVE  \E i \in DOMAIN f : \A j \in DOMAIN h : h[j] # f[i]
<1> SUFFICES ASSUME \A i \in DOMAIN f : \E j \in DOMAIN h : h[j] = f[i]
             PROVE  FALSE
  OBVIOUS
<1> DEFINE m == [i \in DOMAIN f |-> CHOOSE j \in DOMAIN h : h[j] = f[i]]
<1>1. \A i \in DOMAIN f : m[i] \in DOMAIN h /\ h[m[i]] = f[i]
  OBVIOUS
<1>2. m \in [DOMAIN f -> DOMAIN h]
  BY <1>1
<1> HIDE DEF m
<1>3. \A i, j \in DOMAIN f : m[i] = m[j] => i = j
  BY <1>1 DEF OnePerSpot
<1>4. PICK x, y \in DOMAIN f : x # y /\ m[x] = m[y]
  BY <1>2, FS_PigeonHole
<1> QED
  BY <1>3, <1>4

(* Some assignment has g's candidates and one more of f's.                 *)
CanTakeOnOne(g, f, resources) ==
    \E i \in DOMAIN f \ DOMAIN g : \E h \in Assignments(resources) : DOMAIN h = DOMAIN g \cup {i}

(* A smaller assignment can take on a candidate of a larger one, if it     *)
(* moves some of its own: of the ways to place its own, take one that      *)
(* agrees with the larger on most.  A place that is free in it but used in *)
(* the larger is one it could move a candidate to, and agree on one more,  *)
(* unless the place is a further candidate's.                              *)
LEMMA TakesOneMore ==
    ASSUME PlanningInvariant, pc = "select",
           NEW q, NEW f \in Assignments(q), NEW r, NEW g \in Assignments(r),
           Cardinality(DOMAIN g) < Cardinality(DOMAIN f),
           NEW more, Cardinality(DOMAIN g) + 1 <= more
    PROVE  CanTakeOnOne(g, f, more)
<1> DEFINE own == DOMAIN g
           Ways == {h \in [own -> NamedSpots] :
                       OnePerSpot(h) /\ \A i \in own : Assignable(offered[i], h[i])}
           Agree(h) == {i \in own : i \in DOMAIN f /\ h[i] = f[i]}
           Lack(h) == Cardinality(own) - Cardinality(Agree(h))
<1>1. /\ own \in SUBSET DOMAIN offered /\ IsFiniteSet(own) /\ Cardinality(own) \in Nat
      /\ DOMAIN f \in SUBSET DOMAIN offered /\ IsFiniteSet(DOMAIN f)
      /\ Cardinality(DOMAIN f) \in Nat
      /\ f \in [DOMAIN f -> NamedSpots] /\ OnePerSpot(f)
      /\ \A i \in DOMAIN f : Assignable(offered[i], f[i])
  BY AssignmentType, OfferedWorth
<1>2. g \in Ways
  BY AssignmentType
<1>3. \A h \in Ways : /\ IsFiniteSet(Agree(h)) /\ Cardinality(Agree(h)) \in Nat
                      /\ Lack(h) \in Nat
  <2> SUFFICES ASSUME NEW h \in Ways
               PROVE  /\ IsFiniteSet(Agree(h)) /\ Cardinality(Agree(h)) \in Nat
                      /\ Lack(h) \in Nat
    OBVIOUS
  <2>1. Agree(h) \in SUBSET own
    OBVIOUS
  <2> HIDE DEF Agree, own
  <2>2. /\ IsFiniteSet(Agree(h)) /\ Cardinality(Agree(h)) \in Nat
        /\ Cardinality(Agree(h)) <= Cardinality(own)
    BY <1>1, <2>1, FS_Subset, FS_CardinalityType
  <2> QED
    BY <1>1, <2>2
<1>4. PICK h \in Ways : \A k \in Ways : Lack(h) <= Lack(k)
  <2> DEFINE Lacks == {Lack(h) : h \in Ways}
  <2> HIDE DEF Lack, Ways
  <2>1. Lacks \in SUBSET Nat /\ Lacks # {}
    BY <1>2, <1>3
  <2>2. PICK n \in Lacks : \A m \in Lacks : n <= m
    <3> HIDE DEF Lacks
    <3> QED
      BY <2>1, LeastNatural
  <2> QED
    BY <2>2
<1>5. /\ h \in [own -> NamedSpots] /\ DOMAIN h = own
      /\ OnePerSpot(h) /\ \A i \in own : Assignable(offered[i], h[i])
  OBVIOUS
<1>6. PICK i \in DOMAIN f : \A j \in own : h[j] # f[i]
  <2> HIDE DEF own
  <2>1. Cardinality(DOMAIN h) < Cardinality(DOMAIN f) /\ IsFiniteSet(DOMAIN h)
    BY <1>1, <1>5 DEF own
  <2> QED
    BY <1>1, <1>5, <2>1, SomePlaceIsFree
<1>7. CASE i \in own
  <2> DEFINE k == [h EXCEPT ![i] = f[i]]
  <2>1. k \in Ways
    <3>1. k \in [own -> NamedSpots] /\ DOMAIN k = own /\ k[i] = f[i]
          /\ \A j \in own : j # i => k[j] = h[j]
      BY <1>1, <1>5, <1>7
    <3> HIDE DEF k
    <3>2. OnePerSpot(k)
      BY <1>5, <1>6, <3>1 DEF OnePerSpot
    <3>3. \A j \in own : Assignable(offered[j], k[j])
      BY <1>1, <1>5, <3>1
    <3> QED
      BY <3>1, <3>2, <3>3
  <2>2. Agree(k) = Agree(h) \cup {i} /\ i \notin Agree(h)
    BY <1>5, <1>6, <1>7
  <2>3. Cardinality(Agree(k)) = Cardinality(Agree(h)) + 1
    <3> HIDE DEF Agree, k, Ways
    <3> QED
      BY <1>3, <2>2, FS_AddElement
  <2>4. Lack(h) <= Lack(k)
    <3> HIDE DEF Lack, k, Ways
    <3> QED
      BY <1>4, <2>1
  <2> DEFINE a == Cardinality(Agree(h))
             b == Cardinality(Agree(k))
             c == Cardinality(own)
  <2>5. a \in Nat /\ c \in Nat /\ b = a + 1 /\ c - a <= c - b
    <3> HIDE DEF Agree, k, Ways, own
    <3> QED
      BY <1>1, <1>3, <2>3, <2>4 DEF own
  <2> HIDE DEF a, b, c
  <2> QED
    BY <2>5
<1>8. CASE i \notin own
  <2> DEFINE k == [x \in own \cup {i} |-> IF x = i THEN f[i] ELSE h[x]]
  <2>1. /\ k \in [own \cup {i} -> NamedSpots] /\ DOMAIN k = own \cup {i} /\ k[i] = f[i]
        /\ \A j \in own : k[j] = h[j]
    BY <1>1, <1>5, <1>8
  <2> HIDE DEF k
  <2>2. OnePerSpot(k)
    BY <1>5, <1>6, <2>1 DEF OnePerSpot
  <2>3. \A j \in own \cup {i} : Assignable(offered[j], k[j])
    BY <1>1, <1>5, <2>1
  <2>4. Cardinality(own \cup {i}) <= more
    <3>1. Cardinality(own \cup {i}) = Cardinality(own) + 1
      BY <1>1, <1>8, FS_AddElement
    <3> QED
      BY <3>1
  <2>5. own \cup {i} \in SUBSET DOMAIN offered
    BY <1>1
  <2>6. k \in Assignments(more)
    <3> DEFINE chosen == own \cup {i}
    <3> HIDE DEF chosen
    <3>1. chosen \in SUBSET DOMAIN offered /\ k \in [chosen -> NamedSpots]
          /\ Cardinality(chosen) <= more /\ \A j \in chosen : Assignable(offered[j], k[j])
      BY <2>1, <2>3, <2>4, <2>5 DEF chosen
    <3> QED
      BY <2>2, <3>1, IsAssignment
  <2> QED
    BY <1>8, <2>1, <2>6 DEF CanTakeOnOne
<1> QED
  BY <1>7, <1>8

(* Some assignment has g's candidates and n more of f's.                   *)
CanTakeOn(g, f, n, resources) ==
    \E E \in SUBSET (DOMAIN f \ DOMAIN g) :
        /\ Cardinality(E) = n
        /\ \E h \in Assignments(resources) : DOMAIN h = DOMAIN g \cup E

(* An assignment takes on as many candidates of a larger one as it lacks.  *)
LEMMA TakesMore ==
    ASSUME PlanningInvariant, pc = "select",
           NEW r \in Nat, NEW f \in Assignments(r), NEW q, NEW g \in Assignments(q),
           NEW number \in Nat,
           Cardinality(DOMAIN g) + number <= Cardinality(DOMAIN f)
    PROVE  CanTakeOn(g, f, number, r)
<1> DEFINE Reach(n) == \E E \in SUBSET (DOMAIN f \ DOMAIN g) :
                          /\ Cardinality(E) = n
                          /\ \E h \in Assignments(r) : DOMAIN h = DOMAIN g \cup E
           T == {n \in Nat : n <= number /\ ~ Reach(n)}
<1>1. /\ DOMAIN g \in SUBSET DOMAIN offered /\ DOMAIN f \in SUBSET DOMAIN offered
      /\ IsFiniteSet(DOMAIN g) /\ Cardinality(DOMAIN g) \in Nat
      /\ IsFiniteSet(DOMAIN f) /\ Cardinality(DOMAIN f) \in Nat
      /\ Cardinality(DOMAIN f) <= r
  BY AssignmentType, OfferedWorth
<1>2. Reach(0)
  <2>1. Cardinality({}) = 0 /\ DOMAIN g \cup {} = DOMAIN g
    BY FS_EmptySet
  <2>2. g \in Assignments(r)
    <3>1. Cardinality(DOMAIN g) <= r
      BY <1>1
    <3> QED
      BY <3>1, AssignmentType, IsAssignment
  <2> QED
    BY <2>1, <2>2
<1>3. ASSUME NEW n \in Nat, n + 1 <= number, Reach(n)
      PROVE  Reach(n + 1)
  <2>1. PICK E \in SUBSET (DOMAIN f \ DOMAIN g), h \in Assignments(r) :
           Cardinality(E) = n /\ DOMAIN h = DOMAIN g \cup E
    BY <1>3
  <2>2. IsFiniteSet(E)
    BY <1>1, FS_Subset
  <2>3. Cardinality(DOMAIN h) = Cardinality(DOMAIN g) + n
    <3>1. DOMAIN g \cap E = {} /\ Cardinality({}) = 0
      BY FS_EmptySet
    <3>2. Cardinality(DOMAIN h) = Cardinality(DOMAIN g) + Cardinality(E) - Cardinality(DOMAIN g \cap E)
      BY <1>1, <2>1, <2>2, FS_Union
    <3> QED
      BY <1>1, <2>1, <3>1, <3>2
  <2>4. Cardinality(DOMAIN h) < Cardinality(DOMAIN f) /\ Cardinality(DOMAIN h) + 1 <= r
    BY <1>1, <1>3, <2>3
  <2>5. PICK i \in DOMAIN f \ DOMAIN h, k \in Assignments(r) : DOMAIN k = DOMAIN h \cup {i}
    <3>1. CanTakeOnOne(h, f, r)
      BY <2>4, TakesOneMore
    <3> QED
      BY <3>1 DEF CanTakeOnOne
  <2>6. E \cup {i} \in SUBSET (DOMAIN f \ DOMAIN g) /\ DOMAIN k = DOMAIN g \cup (E \cup {i})
    BY <2>1, <2>5
  <2>7. Cardinality(E \cup {i}) = n + 1
    BY <2>1, <2>2, <2>5, FS_AddElement
  <2> QED
    BY <2>6, <2>7
<1> HIDE DEF Reach
<1>4. \A n \in Nat : (\A m \in 0..n - 1 : m \notin T) => n \notin T
  <2> SUFFICES ASSUME NEW n \in Nat, \A m \in 0..n - 1 : m \notin T, n <= number
               PROVE  Reach(n)
    OBVIOUS
  <2>1. CASE n = 0
    BY <1>2, <2>1
  <2>2. CASE n # 0
    <3>1. n - 1 \in Nat /\ n - 1 \in 0..n - 1 /\ n - 1 <= number /\ (n - 1) + 1 = n
      BY <2>2
    <3>2. Reach(n - 1)
      BY <3>1
    <3>3. Reach((n - 1) + 1)
      BY <1>3, <3>1, <3>2
    <3> QED
      BY <3>1, <3>3
  <2> QED
    BY <2>1, <2>2
<1>5. T = {}
  <2>1. T \in SUBSET Nat
    OBVIOUS
  <2> HIDE DEF T
  <2> QED
    BY <1>4, <2>1, LeastCounterexample
<1>6. Reach(number)
  BY <1>5
<1> QED
  BY <1>6 DEF Reach, CanTakeOn

(* The first of a best assignment are worth as much as any that many: what *)
(* these would take on of the assignment is worth as much as what was cut. *)
LEMMA CutIsBest ==
    ASSUME PlanningInvariant, pc = "select", NEW r \in Nat, NEW n \in Nat,
           NEW f \in Assignments(r), Optimal(f, r), NEW g \in Assignments(Least(n, r))
    PROVE  Total(DOMAIN g) <= Total(FirstOf(f, n))
<1> DEFINE F == FirstOf(f, n)
           Rest == DOMAIN f \ F
<1>1. /\ DOMAIN f \in SUBSET DOMAIN offered /\ DOMAIN g \in SUBSET DOMAIN offered
      /\ Cardinality(DOMAIN g) <= Least(n, r)
  BY AssignmentType
<1>2. F \in SUBSET DOMAIN f
  BY DEF FirstOf
<1>3. \A s \in SUBSET DOMAIN offered :
         /\ IsFiniteSet(s) /\ Cardinality(s) \in Nat
         /\ \A i \in s : Worth[i] \in Int
         /\ Total(s) \in Int
  <2> SUFFICES ASSUME NEW s \in SUBSET DOMAIN offered
               PROVE  /\ IsFiniteSet(s) /\ Cardinality(s) \in Nat
                      /\ \A i \in s : Worth[i] \in Int
                      /\ Total(s) \in Int
    OBVIOUS
  <2>1. IsFiniteSet(s) /\ Cardinality(s) \in Nat /\ \A i \in s : Worth[i] \in Int
    BY OfferedWorth
  <2> QED
    BY <2>1, SumTakesOut DEF Total
<1>4. Cardinality(DOMAIN g) <= n /\ Cardinality(DOMAIN g) <= r
  <2>1. Cardinality(DOMAIN g) \in Nat
    BY <1>1, <1>3
  <2> QED
    BY <1>1, <2>1 DEF Least
<1> HIDE DEF F
<1>5. CASE F = DOMAIN f
  <2>1. g \in Assignments(r)
    BY <1>4, AssignmentType, IsAssignment
  <2> QED
    BY <1>5, <2>1 DEF Optimal, F
<1>6. CASE F # DOMAIN f
  <2>1. /\ Cardinality(F) >= n
        /\ \A i \in F, j \in Rest : Worth[i] >= Worth[j]
    BY <1>1, <1>6, FirstAreFirst DEF F
  <2>2. F \in SUBSET DOMAIN offered /\ Rest \in SUBSET DOMAIN offered
    BY <1>1, <1>2
  <2>3. Cardinality(DOMAIN f) = Cardinality(F) + Cardinality(Rest)
    <3>1. F \cup Rest = DOMAIN f /\ F \cap Rest = {} /\ Cardinality({}) = 0
      BY <1>2, FS_EmptySet
    <3>2. Cardinality(F \cup Rest) = Cardinality(F) + Cardinality(Rest) - Cardinality(F \cap Rest)
      BY <1>3, <2>2, FS_Union
    <3>3. Cardinality(F) \in Nat /\ Cardinality(Rest) \in Nat
      BY <1>3, <2>2
    <3>4. Cardinality(DOMAIN f) = Cardinality(F) + Cardinality(Rest) - 0
      BY <3>1, <3>2
    <3> HIDE DEF Rest
    <3> QED
      BY <3>3, <3>4
  <2>4. Cardinality(DOMAIN g) + Cardinality(Rest) <= Cardinality(DOMAIN f)
    <3>1. Cardinality(F) \in Nat /\ Cardinality(Rest) \in Nat /\ Cardinality(DOMAIN g) \in Nat
      BY <1>1, <1>3, <2>2
    <3> HIDE DEF Rest
    <3> QED
      BY <1>4, <2>1, <2>3, <3>1
  <2>5. PICK E \in SUBSET (DOMAIN f \ DOMAIN g), h \in Assignments(r) :
           Cardinality(E) = Cardinality(Rest) /\ DOMAIN h = DOMAIN g \cup E
    <3> DEFINE number == Cardinality(Rest)
    <3>1. number \in Nat
      BY <1>3, <2>2
    <3>2. Cardinality(DOMAIN g) + number <= Cardinality(DOMAIN f)
      BY <2>4
    <3> HIDE DEF number
    <3>3. CanTakeOn(g, f, number, r)
      BY <3>1, <3>2, TakesMore
    <3> QED
      BY <3>3 DEF CanTakeOn, number
  <2>6. Total(DOMAIN h) <= Total(DOMAIN f)
    BY DEF Optimal
  <2>7. E \in SUBSET DOMAIN offered /\ DOMAIN g \cap E = {} /\ F \cap Rest = {}
    BY <1>1
  <2>8. Total(DOMAIN g \cup E) = Total(DOMAIN g) + Total(E)
    <3>1. \A i \in DOMAIN g \cup E : Worth[i] \in Int
      BY <1>1, <1>3, <2>7
    <3> QED
      BY <1>1, <1>3, <2>7, <3>1, SumsJoin DEF Total
  <2>9. Total(F \cup Rest) = Total(F) + Total(Rest)
    <3>1. \A i \in F \cup Rest : Worth[i] \in Int
      BY <1>3, <2>2
    <3> QED
      BY <1>3, <2>2, <2>7, <3>1, SumsJoin DEF Total
  <2>10. Total(E) >= Total(Rest)
    <3>1. \A i \in E \ Rest, j \in Rest \ E : Worth[i] >= Worth[j]
      BY <1>2, <2>1
    <3>2. IsFiniteSet(DOMAIN offered) /\ \A i \in DOMAIN offered : Worth[i] \in Int
      BY <1>3
    <3> HIDE DEF Rest
    <3> QED
      BY <2>2, <2>5, <2>7, <3>1, <3>2, SumsCompare DEF Total
  <2>11. F \cup Rest = DOMAIN f
    BY <1>2
  <2>12. Total(DOMAIN g) + Total(E) <= Total(F) + Total(Rest)
    BY <2>5, <2>6, <2>8, <2>9, <2>11
  <2>13. Total(DOMAIN g) \in Int /\ Total(E) \in Int /\ Total(F) \in Int /\ Total(Rest) \in Int
    BY <1>1, <1>3, <2>2, <2>7
  <2> DEFINE a == Total(DOMAIN g)
             b == Total(E)
             c == Total(F)
             d == Total(Rest)
  <2>14. a \in Int /\ b \in Int /\ c \in Int /\ d \in Int /\ a + b <= c + d /\ b >= d
    BY <2>10, <2>12, <2>13
  <2> HIDE DEF a, b, c, d
  <2>15. a <= c
    BY <2>14
  <2> QED
    BY <2>15 DEF a, c, F
<1> QED
  BY <1>5, <1>6

(* The tasks are worth what the candidates cut out of the assignment are.  *)
LEMMA TasksWorth ==
    ASSUME PlanningInvariant, pc = "select", NEW r, NEW f \in Assignments(r), NEW ts, ts = Batch(f)
    PROVE  SumFunction([t \in ts |-> Value(wh, t.candidate)]) = Total(FirstOf(f, BatchSize))
<1> DEFINE F == FirstOf(f, BatchSize)
           m == [i \in F |-> Task(offered[i], f[i])]
           e == [t \in ts |-> Value(wh, t.candidate)]
<1>1. F \in SUBSET DOMAIN offered
  BY AssignmentType DEF FirstOf
<1>2. ts = {m[i] : i \in F} /\ DOMAIN e = ts
  BY DEF Batch
<1>3. \A i \in F : m[i] \in ts /\ m[i].candidate = offered[i]
  BY DEF Task, Batch
<1>4. \A i \in F : Worth[i] \in Int /\ e[m[i]] = Worth[i]
  BY <1>1, <1>3, OfferedWorth
<1>5. \A i, j \in F : m[i] = m[j] => i = j
  <2> HIDE DEF m, F
  <2> QED
    BY <1>1, <1>3, OfferedWorth
<1>6. IsFiniteSet(F)
  BY <1>1, OfferedWorth
<1> HIDE DEF m, F, e
<1>7. SumFunctionOnSet(e, {m[i] : i \in F}) = SumFunctionOnSet(Worth, F)
  BY <1>4, <1>5, <1>6, SumOfImage
<1>8. SumFunction(e) = Total(F)
  BY <1>2, <1>7 DEF SumFunction, Total
<1> QED
  BY <1>8 DEF e, F

LEMMA CutInitially == Init => CutInvariant
<1> SUFFICES ASSUME Init
             PROVE  CutInvariant
  OBVIOUS
<1>1. status = "NONE"
  BY DEF Init
<1> QED
  BY <1>1, PlanInitially DEF CutInvariant, CutLosesNothing

(* The solver's answer, cut to a batch.                                    *)
LEMMA SolveLosesNothing ==
    ASSUME CutInvariant, pc = "select", Solve(Budget), path' = path
    PROVE  CutInvariant'
<1>1. PlanningInvariant /\ Budget \in Nat /\ BatchSize \in Nat
  BY PlanningAssumption DEF CutInvariant, Budget
<1>2. PlanningInvariant' /\ pc' = "done"
  <2>1. PlanningInvariant'
    BY <1>1, SolvePreserves
  <2>2. pc' = "done"
    BY DEF Solve, End
  <2> QED
    BY <2>1, <2>2
<1>3. CutLosesNothing'
  <2>1. CASE \E f \in Assignments(Budget) : Optimal(f, Budget) /\ End(Batch(f), "OPTIMAL")
    <3>1. PICK f \in Assignments(Budget) : Optimal(f, Budget) /\ End(Batch(f), "OPTIMAL")
      BY <2>1
    <3>2. tasks' = Batch(f) /\ UNCHANGED <<path, wh, offered>>
      BY <3>1 DEF End
    <3>3. \A g \in Assignments(Least(BatchSize, Budget)) :
             Total(DOMAIN g) <= Total(FirstOf(f, BatchSize))
      BY <1>1, <3>1, CutIsBest
    <3>4. SumFunction([t \in tasks' |-> Value(wh, t.candidate)]) = Total(FirstOf(f, BatchSize))
      BY <1>1, <3>2, TasksWorth
    <3>5. \A g \in Assignments(Least(BatchSize, Budget)) :
             Total(DOMAIN g) <= SumFunction([t \in tasks' |-> Value(wh, t.candidate)])
      BY <3>3, <3>4
    <3> QED
      BY <3>2, <3>5 DEF CutLosesNothing, Assignments, NamedSpots, Separated, Assignable, Budget,
         Total, Worth
  <2>2. CASE ~ \E f \in Assignments(Budget) : Optimal(f, Budget) /\ End(Batch(f), "OPTIMAL")
    <3>1. status' # "OPTIMAL"
      BY <2>2 DEF Solve, End
    <3> QED
      BY <3>1 DEF CutLosesNothing
  <2> QED
    BY <2>1, <2>2
<1> QED
  BY <1>2, <1>3 DEF CutInvariant

LEMMA CutStep == CutInvariant /\ [Next]_vars => CutInvariant'
<1> SUFFICES ASSUME CutInvariant, [Next]_vars
             PROVE  CutInvariant'
  OBVIOUS
<1>1. PlanningInvariant'
  BY PlanningStep DEF CutInvariant
<1>2. CASE Consider \/ Considered \/ Deduplicate \/ Offer
  <2>1. status' = "NONE"
    BY <1>2 DEF CutInvariant, Consider, Considered, Deduplicate, Offer
  <2> QED
    BY <1>1, <2>1 DEF CutInvariant, CutLosesNothing
<1>3. CASE SelectGreedy \/ SelectByPolicy
  <2>1. status' = "NONE"
    BY <1>3 DEF SelectGreedy, SelectByPolicy, End
  <2> QED
    BY <1>1, <2>1 DEF CutInvariant, CutLosesNothing
<1>4. CASE SelectAssigned
  <2>1. pc = "select" /\ path' = path /\ Solve(Budget)
    BY <1>4 DEF SelectAssigned, Budget, Solve, End
  <2> QED
    BY <2>1, SolveLosesNothing
<1>5. CASE PolicyFallsBack
  <2>1. pc = "select" /\ path' = path /\ Solve(Budget)
    BY <1>5 DEF PolicyFallsBack, Budget, Solve, End
  <2> QED
    BY <2>1, SolveLosesNothing
<1>6. CASE UNCHANGED vars
  <2>1. UNCHANGED <<path, wh, offered, status, tasks, pc>>
    BY <1>6 DEF vars
  <2> QED
    BY <1>1, <2>1 DEF CutInvariant, CutLosesNothing, Assignments, NamedSpots, Separated, Budget,
       Assignable, Total, Worth
<1> QED
  BY <1>2, <1>3, <1>4, <1>5, <1>6 DEF Next

(* Cutting a best assignment to a batch loses nothing.                     *)
THEOREM CutIsNoLoss == Spec => []CutLosesNothing
<1>1. CutInvariant => CutLosesNothing
  BY DEF CutInvariant
<1> QED
  BY <1>1, CutInitially, CutStep, PTL DEF Spec

-----------------------------------------------------------------------------
(* Routes.                                                                 *)

(* f lists T by rising rank.                                               *)
Lists(f, T, rank) ==
    /\ f \in [1..Cardinality(T) -> T]
    /\ \A t \in T : \E i \in 1..Cardinality(T) : f[i] = t
    /\ \A i, j \in 1..Cardinality(T) : i < j => f[i] # f[j] /\ rank[f[i]] <= rank[f[j]]

(* A finite set can be sorted: what ranks lowest goes before the rest.     *)
LEMMA SortExists ==
    ASSUME NEW S, IsFiniteSet(S), NEW rank \in [S -> Nat]
    PROVE  \E f : Lists(f, S, rank)
<1> DEFINE D == {n \in Nat : \E T \in SUBSET S : Cardinality(T) = n /\ ~ \E f : Lists(f, T, rank)}
<1>1. \A T \in SUBSET S : IsFiniteSet(T) /\ Cardinality(T) \in Nat
  BY FS_Subset, FS_CardinalityType
<1>2. ASSUME NEW n \in Nat, \A m \in 0..n - 1 : m \notin D, NEW T \in SUBSET S, Cardinality(T) = n
      PROVE  \E f : Lists(f, T, rank)
  <2>1. CASE T = {}
    <3>1. Cardinality(T) = 0
      BY <2>1, FS_EmptySet
    <3>2. Lists([i \in 1..0 |-> 0], T, rank)
      BY <2>1, <3>1 DEF Lists
    <3> QED
      BY <3>2
  <2>2. CASE T # {}
    <3>1. PICK least \in T : \A t \in T : rank[least] <= rank[t]
      <4> DEFINE R == {rank[t] : t \in T}
      <4>1. R \in SUBSET Nat /\ R # {}
        BY <2>2
      <4>2. PICK r \in R : \A q \in R : r <= q
        <5> HIDE DEF R
        <5> QED
          BY <4>1, LeastNatural
      <4> QED
        BY <4>2
    <3> DEFINE U == T \ {least}
    <3>2. U \in SUBSET S /\ Cardinality(U) = n - 1 /\ n - 1 \in Nat
      <4>1. IsFiniteSet(T)
        BY <1>1, <1>2
      <4>2. Cardinality(U) = Cardinality(T) - 1
        BY <3>1, <4>1, FS_RemoveElement
      <4>3. U \in SUBSET S
        BY <1>2
      <4>4. Cardinality(U) \in Nat
        <5> HIDE DEF U
        <5> QED
          BY <1>1, <4>3
      <4> QED
        BY <1>2, <4>2, <4>3, <4>4
    <3>3. PICK f : Lists(f, U, rank)
      <4> HIDE DEF U
      <4>1. Cardinality(U) \in 0..n - 1
        BY <3>2
      <4>2. Cardinality(U) \notin D
        BY <1>2, <4>1
      <4> QED
        BY <3>2, <4>1, <4>2
    <3>4. /\ f \in [1..n - 1 -> U]
          /\ \A t \in U : \E i \in 1..n - 1 : f[i] = t
          /\ \A i, j \in 1..n - 1 : i < j => f[i] # f[j] /\ rank[f[i]] <= rank[f[j]]
      BY <3>2, <3>3 DEF Lists
    <3> DEFINE g == [i \in 1..n |-> IF i = 1 THEN least ELSE f[i - 1]]
    <3>5. g \in [1..n -> T] /\ g[1] = least
      BY <3>2, <3>4
    <3>6. \A t \in T : \E i \in 1..n : g[i] = t
      <4> SUFFICES ASSUME NEW t \in T, t # least
                   PROVE  \E i \in 1..n : g[i] = t
        BY <3>2, <3>5
      <4>1. PICK i \in 1..n - 1 : f[i] = t
        BY <3>4
      <4>2. i + 1 \in 1..n /\ g[i + 1] = t
        BY <3>2, <4>1
      <4> QED
        BY <4>2
    <3>7. ASSUME NEW i \in 1..n, NEW j \in 1..n, i < j
          PROVE  g[i] # g[j] /\ rank[g[i]] <= rank[g[j]]
      <4>1. j - 1 \in 1..n - 1 /\ g[j] = f[j - 1] /\ f[j - 1] \in U
        BY <3>2, <3>4, <3>7
      <4>2. CASE i = 1
        BY <3>1, <4>1, <4>2
      <4>3. CASE i # 1
        <5>1. i - 1 \in 1..n - 1 /\ g[i] = f[i - 1] /\ i - 1 < j - 1
          BY <3>2, <3>7, <4>3
        <5> QED
          BY <3>4, <4>1, <5>1
      <4> QED
        BY <4>2, <4>3
    <3> HIDE DEF g
    <3>8. Lists(g, T, rank)
      BY <1>2, <3>5, <3>6, <3>7 DEF Lists
    <3> QED
      BY <3>8
  <2> QED
    BY <2>1, <2>2
<1>3. \A n \in Nat : (\A m \in 0..n - 1 : m \notin D) => n \notin D
  BY <1>2
<1>4. D = {}
  BY <1>3, LeastCounterexample
<1> QED
  BY <1>1, <1>4

(* The batch the planner sorts has each task once.                         *)
LEMMA OrderedType ==
    ASSUME PlanningInvariant
    PROVE  /\ Cardinality(tasks) \in Nat
           /\ Ordered \in [1..Cardinality(tasks) -> tasks]
           /\ \A t \in tasks : \E i \in 1..Cardinality(tasks) : Ordered[i] = t
           /\ \A i, j \in 1..Cardinality(tasks) : Ordered[i] = Ordered[j] => i = j
           /\ \A t \in tasks : Source(t) \in Location
<1>1. IsFiniteSet(tasks) /\ Cardinality(tasks) \in Nat
  BY FS_CardinalityType DEF PlanningInvariant, TasksAreOffered
<1>2. \A t \in tasks : Rank(t) \in Nat
  <2>1. DOMAIN offered \subseteq Nat
    BY DEF PlanningInvariant, TypeOK
  <2>2. \A t \in tasks : Rank(t) \in DOMAIN offered
    BY DEF PlanningInvariant, TasksAreOffered, Rank
  <2> QED
    BY <2>1, <2>2
<1> DEFINE rank == [t \in tasks |-> Rank(t)]
<1>3. rank \in [tasks -> Nat]
  BY <1>2
<1>4. PICK f : Lists(f, tasks, rank)
  <2> HIDE DEF rank
  <2> QED
    BY <1>1, <1>3, SortExists
<1>5. /\ f \in [1..Cardinality(tasks) -> tasks]
      /\ \A t \in tasks : \E i \in DOMAIN f : f[i] = t
      /\ \A i, j \in DOMAIN f : i < j => f[i] # f[j] /\ Rank(f[i]) <= Rank(f[j])
  BY <1>4 DEF Lists
<1> HIDE DEF rank
<1>6. /\ Ordered \in [1..Cardinality(tasks) -> tasks]
      /\ \A t \in tasks : \E i \in DOMAIN Ordered : Ordered[i] = t
      /\ \A i, j \in DOMAIN Ordered : i < j => Ordered[i] # Ordered[j]
  <2> DEFINE All(g) == \A t \in tasks : \E i \in DOMAIN g : g[i] = t
             Rises(g) == \A i, j \in DOMAIN g :
                            i < j => g[i] # g[j] /\ Rank(g[i]) <= Rank(g[j])
  <2>1. Ordered = CHOOSE g \in [1..Cardinality(tasks) -> tasks] : All(g) /\ Rises(g)
    BY DEF Ordered
  <2>2. All(f) /\ Rises(f)
    BY <1>5
  <2>3. \A g : Rises(g) => \A i, j \in DOMAIN g : i < j => g[i] # g[j]
    OBVIOUS
  <2>4. Ordered \in [1..Cardinality(tasks) -> tasks] /\ All(Ordered) /\ Rises(Ordered)
    <3> HIDE DEF All, Rises
    <3> QED
      BY <1>5, <2>1, <2>2
  <2> QED
    BY <2>3, <2>4
<1>7. \A i, j \in 1..Cardinality(tasks) : Ordered[i] = Ordered[j] => i = j
  <2> SUFFICES ASSUME NEW i \in 1..Cardinality(tasks), NEW j \in 1..Cardinality(tasks), i # j
               PROVE  Ordered[i] # Ordered[j]
    OBVIOUS
  <2>1. i < j \/ j < i
    OBVIOUS
  <2> QED
    BY <1>6, <2>1
<1>8. \A t \in tasks : Source(t) \in Location
  <2> SUFFICES ASSUME NEW t \in tasks
               PROVE  Source(t) \in Location
    OBVIOUS
  <2>1. t.candidate \in Pairs(wh) /\ wh \in Warehouse
    BY SnapshotType DEF PlanningInvariant, TypeOK, Candidate
  <2> QED
    BY <2>1, PairFields DEF Source
<1> QED
  BY <1>1, <1>6, <1>7, <1>8

(* The greatest number of a bounded set is one of them.                    *)
LEMMA GreatestIsIn ==
    ASSUME NEW n \in Nat, NEW S \in SUBSET (0..n), S # {}
    PROVE  Max(S) \in S /\ \A y \in S : Max(S) >= y
<1> DEFINE D == {n - x : x \in S}
<1>1. D \in SUBSET Nat /\ D # {}
  <2>1. \A x \in 0..n : n - x \in Nat
    OBVIOUS
  <2> QED
    BY <2>1
<1>2. PICK d \in D : \A e \in D : d <= e
  <2> HIDE DEF D
  <2> QED
    BY <1>1, LeastNatural
<1>3. PICK x \in S : d = n - x
  BY <1>2
<1>4. \A y \in S : x >= y
  <2> SUFFICES ASSUME NEW y \in S
               PROVE  x >= y
    OBVIOUS
  <2>1. n - x <= n - y
    BY <1>2, <1>3
  <2> QED
    BY <2>1
<1> QED
  BY <1>4 DEF Max

(* The greater of two numbers.                                             *)
LEMMA MaxOfTwo ==
    \A t \in Nat : Max({1, t}) \in Nat /\ Max({1, t}) >= 1
<1> SUFFICES ASSUME NEW t \in Nat
             PROVE  Max({1, t}) \in Nat /\ Max({1, t}) >= 1
  OBVIOUS
<1>1. {1, t} \in SUBSET (0..t + 1)
  OBVIOUS
<1> DEFINE S == {1, t}
<1>2. 1 \in S /\ S \in SUBSET Nat
  OBVIOUS
<1>3. Max(S) \in S /\ \A y \in S : Max(S) >= y
  <2> HIDE DEF S
  <2>1. S \in SUBSET (0..t + 1)
    BY <1>1 DEF S
  <2> QED
    BY <1>2, <2>1, GreatestIsIn
<1> QED
  BY <1>2, <1>3

(* The time of a leg is a natural number, and a second or more.            *)
LEMMA LegType ==
    ASSUME NEW p \in Planner, NEW l \in Location, NEW m \in Location
    PROVE  Leg(p, l, m) \in Nat /\ Leg(p, l, m) >= 1
<1>1. \A a \in Nat, b \in Nat : b > 0 => a \div b \in Nat
  OBVIOUS
<1>2. /\ p.graph \in Seq(GraphEdge)
      /\ p.speed \in Nat
  BY DEF Planner
<1>3. CASE EdgesBetween(p, l, m) = {} \/ l = m
  <2>1. TravelTime(p, l, m) = IF p.speed > 0 THEN Distance(l, m) \div p.speed ELSE 0
    BY <1>3 DEF TravelTime
  <2>2. TravelTime(p, l, m) \in Nat
    BY <1>1, <1>2, <2>1, DistanceType
  <2> QED
    BY <2>2, MaxOfTwo DEF Leg
<1>4. CASE ~ (EdgesBetween(p, l, m) = {} \/ l = m)
  <2>1. EdgesBetween(p, l, m) \in SUBSET (0..Len(p.graph)) /\ Len(p.graph) \in Nat
    BY <1>2 DEF EdgesBetween
  <2>2. Max(EdgesBetween(p, l, m)) \in EdgesBetween(p, l, m)
    BY <1>4, <2>1, GreatestIsIn
  <2>3. EdgeInForce(p, l, m) \in GraphEdge
    <3> DEFINE i == Max(EdgesBetween(p, l, m))
    <3>1. i \in 1..Len(p.graph)
      BY <1>2, <2>2 DEF EdgesBetween
    <3>2. EdgeInForce(p, l, m) = p.graph[i]
      BY DEF EdgeInForce
    <3> HIDE DEF i
    <3> QED
      BY <1>2, <3>1, <3>2, ElementOfSeq
  <2>4. EdgeInForce(p, l, m).distance \in Nat /\ EdgeInForce(p, l, m).speed \in Nat \ {0}
    BY <2>3 DEF GraphEdge
  <2>5. TravelTime(p, l, m) \in Nat
    BY <1>1, <1>4, <2>4 DEF TravelTime
  <2> QED
    BY <2>5, MaxOfTwo DEF Leg
<1> QED
  BY <1>3, <1>4

(* Every node stands somewhere.                                            *)
LEMMA StandsType ==
    ASSUME PlanningInvariant, tasks # {}, NEW p \in Planner, NEW n \in 0..Cardinality(tasks)
    PROVE  Stands(p, n) \in Location
<1>1. Cardinality(tasks) >= 1
  BY OrderedType, FS_EmptySet DEF PlanningInvariant, TasksAreOffered
<1>2. Ordered[1] \in tasks /\ n > 0 => Ordered[n] \in tasks
  BY <1>1, OrderedType
<1>3. p.depot # None => p.depot \in Location
  BY DEF Planner
<1> QED
  BY <1>1, <1>2, <1>3, OrderedType DEF Stands

(* Two nodes are a second or more apart.                                   *)
LEMMA TimeMatrixType ==
    ASSUME PlanningInvariant, tasks # {}, NEW p \in Planner,
           NEW i \in 0..Cardinality(tasks), NEW j \in 0..Cardinality(tasks)
    PROVE  TimeMatrix(p, i, j) \in Nat /\ (i # j => TimeMatrix(p, i, j) >= 1)
BY StandsType, LegType DEF TimeMatrix

(* g adds up a first time and n - 1 steps.                                 *)
AddsUp(g, n, first, leg) == g = [k \in 1..n |-> IF k = 1 THEN first ELSE g[k - 1] + leg[k]]

LEMMA TimesExist ==
    ASSUME NEW N \in Nat, NEW first, NEW leg
    PROVE  \E g : AddsUp(g, N, first, leg)
<1> DEFINE Adding(g, n) == g = [k \in 1..n |-> IF k = 1 THEN first ELSE g[k - 1] + leg[k]]
           T == {n \in Nat : ~ \E g : Adding(g, n)}
<1>1. ASSUME NEW n \in Nat, \A m \in 0..n - 1 : m \notin T
      PROVE  \E g : Adding(g, n)
  <2>1. CASE n = 0
    <3> DEFINE h == [k \in 1..0 |-> first]
    <3>1. h = [k \in 1..0 |-> IF k = 1 THEN first ELSE h[k - 1] + leg[k]]
      OBVIOUS
    <3> QED
      BY <2>1, <3>1
  <2>2. CASE n # 0
    <3>1. PICK g : Adding(g, n - 1)
      <4>1. n - 1 \in Nat /\ n - 1 \in 0..n - 1
        BY <2>2
      <4>2. n - 1 \notin T
        BY <1>1, <4>1
      <4> QED
        BY <4>1, <4>2
    <3> DEFINE h == [k \in 1..n |-> IF k = 1 THEN first ELSE g[k - 1] + leg[k]]
    <3>2. \A k \in 1..n - 1 : k \in 1..n /\ g[k] = IF k = 1 THEN first ELSE g[k - 1] + leg[k]
      BY <3>1
    <3>3. \A k \in 1..n - 1 : g[k] = h[k]
      BY <3>2
    <3>4. \A k \in 1..n : k # 1 => k - 1 \in 1..n - 1
      OBVIOUS
    <3>5. \A k \in 1..n : k # 1 => g[k - 1] = h[k - 1]
      <4> HIDE DEF h
      <4> QED
        BY <3>3, <3>4
    <3>6. h = [k \in 1..n |-> IF k = 1 THEN first ELSE h[k - 1] + leg[k]]
      BY <3>5
    <3> HIDE DEF h
    <3> QED
      BY <3>6
  <2> QED
    BY <2>1, <2>2
<1>2. T = {}
  <2>1. \A n \in Nat : (\A m \in 0..n - 1 : m \notin T) => n \notin T
    BY <1>1
  <2> QED
    BY <2>1, LeastCounterexample
<1> QED
  BY <1>2 DEF AddsUp

(* A tour that never stays at a node comes to each later than to the one   *)
(* before, and home last.                                                  *)
LEMMA ToursTakeTime ==
    ASSUME PlanningInvariant, tasks # {}, NEW p \in Planner, NEW tour \in Tours, tour # <<>>,
           \A k \in 2..Len(tour) : tour[k - 1] # tour[k]
    PROVE  /\ Return(p, tour) \in Nat
           /\ \A j, k \in DOMAIN tour :
                 j < k => Arrivals(p, tour)[j] < Arrivals(p, tour)[k]
           /\ \A k \in DOMAIN tour : Arrivals(p, tour)[k] < Return(p, tour)
<1> DEFINE n == Len(tour)
           at0 == Arrivals(p, tour)
           leg == [k \in 1..n |-> TimeMatrix(p, tour[k - 1], tour[k])]
<1>1. n \in Nat /\ n >= 1 /\ tour \in [1..n -> 1..Cardinality(tasks)] /\ Cardinality(tasks) \in Nat
  <2>1. Cardinality(tasks) \in Nat
    BY OrderedType
  <2>2. PICK k \in 0..Cardinality(tasks) : tour \in [1..k -> 1..Cardinality(tasks)]
    BY <2>1 DEF Tours
  <2>3. k \in Nat /\ DOMAIN tour = 1..k
    BY <2>1, <2>2
  <2>4. tour \in Seq(1..Cardinality(tasks)) /\ Len(tour) = k
    <3>1. tour \in Seq(1..Cardinality(tasks))
      BY <2>2, <2>3, SeqDef
    <3>2. Len(tour) \in Nat /\ DOMAIN tour = 1..Len(tour)
      BY <3>1, LenProperties
    <3>3. \A a, b \in Nat : 1..a = 1..b => a = b
      OBVIOUS
    <3> QED
      BY <2>3, <3>1, <3>2, <3>3
  <2>5. k # 0
    BY <2>2
  <2> QED
    BY <2>1, <2>2, <2>4, <2>5
<1>2. /\ TimeMatrix(p, 0, tour[1]) \in Nat
      /\ TimeMatrix(p, tour[n], 0) \in Nat /\ TimeMatrix(p, tour[n], 0) >= 1
      /\ \A k \in 2..n : leg[k] \in Nat /\ leg[k] >= 1
  <2>1. \A k \in 1..n : tour[k] \in 0..Cardinality(tasks) /\ tour[k] # 0
    BY <1>1
  <2>2. \A k \in 2..n : k \in 1..n /\ k - 1 \in 1..n
    BY <1>1
  <2>3. TimeMatrix(p, 0, tour[1]) \in Nat
    BY <1>1, <2>1, TimeMatrixType
  <2>4. TimeMatrix(p, tour[n], 0) \in Nat /\ TimeMatrix(p, tour[n], 0) >= 1
    BY <1>1, <2>1, TimeMatrixType
  <2>5. \A k \in 2..n : leg[k] \in Nat /\ leg[k] >= 1
    BY <2>1, <2>2, TimeMatrixType
  <2> QED
    BY <2>3, <2>4, <2>5
<1>3. at0 = [k \in 1..n |-> IF k = 1 THEN TimeMatrix(p, 0, tour[1]) ELSE at0[k - 1] + leg[k]]
  <2> DEFINE first == TimeMatrix(p, 0, tour[1])
             Adding(g) ==
                g = [k \in 1..n |-> IF k = 1 THEN TimeMatrix(p, 0, tour[1])
                                    ELSE g[k - 1] + TimeMatrix(p, tour[k - 1], tour[k])]
  <2>1. at0 = CHOOSE g : Adding(g)
    BY DEF Arrivals
  <2>2. PICK g : AddsUp(g, n, first, leg)
    <3>1. n \in Nat
      BY <1>1
    <3> HIDE DEF n, leg, first
    <3> QED
      BY <3>1, TimesExist
  <2>3. Adding(g)
    BY <2>2 DEF AddsUp
  <2>4. Adding(at0)
    <3> HIDE DEF Adding, at0
    <3> QED
      BY <2>1, <2>3
  <2> HIDE DEF at0
  <2> QED
    BY <2>4
<1> HIDE DEF n, at0, leg
<1>4. n \in Nat /\ n >= 1
  BY <1>1
<1>5. \A k \in 1..n : at0[k] \in Nat
  <2> DEFINE T == {k \in Nat : k \in 1..n /\ at0[k] \notin Nat}
  <2>1. ASSUME NEW k \in Nat, \A m \in 0..k - 1 : m \notin T
        PROVE  k \notin T
    <3> SUFFICES ASSUME k \in 1..n
                 PROVE  at0[k] \in Nat
      OBVIOUS
    <3>1. CASE k = 1
      BY <1>2, <1>3, <3>1
    <3>2. CASE k # 1
      <4>1. k - 1 \in 1..n /\ k \in 2..n /\ k - 1 \in 0..k - 1 /\ k - 1 \in Nat
        BY <1>1, <3>2
      <4>2. at0[k - 1] \in Nat
        BY <2>1, <4>1
      <4>3. at0[k] = at0[k - 1] + leg[k]
        BY <1>3, <3>2
      <4> QED
        BY <1>2, <4>1, <4>2, <4>3
    <3> QED
      BY <3>1, <3>2
  <2>2. T = {}
    <3> HIDE DEF T
    <3>1. T \in SUBSET Nat
      BY DEF T
    <3> QED
      BY <2>1, <3>1, LeastCounterexample
  <2> SUFFICES ASSUME NEW k \in 1..n
               PROVE  at0[k] \in Nat
    OBVIOUS
  <2>3. k \in Nat
    BY <1>4
  <2> QED
    BY <2>2, <2>3
<1>6. \A k \in 2..n : at0[k - 1] < at0[k]
  <2> SUFFICES ASSUME NEW k \in 2..n
               PROVE  at0[k - 1] < at0[k]
    OBVIOUS
  <2>1. k \in 1..n /\ k - 1 \in 1..n /\ k # 1
    BY <1>1
  <2>2. at0[k] = at0[k - 1] + leg[k] /\ at0[k - 1] \in Nat /\ leg[k] \in Nat /\ leg[k] >= 1
    BY <1>2, <1>3, <1>5, <2>1
  <2> QED
    BY <2>2
<1>7. ASSUME NEW j \in 1..n, NEW k \in 1..n, j < k
      PROVE  at0[j] < at0[k]
  <2> DEFINE T == {i \in Nat : i \in 1..n /\ j < i /\ ~ (at0[j] < at0[i])}
  <2>1. ASSUME NEW i \in Nat, \A m \in 0..i - 1 : m \notin T
        PROVE  i \notin T
    <3> SUFFICES ASSUME i \in 1..n, j < i
                 PROVE  at0[j] < at0[i]
      OBVIOUS
    <3>1. i \in 2..n /\ i - 1 \in 1..n /\ i - 1 \in 0..i - 1 /\ i - 1 \in Nat
      BY <1>1
    <3>2. at0[i - 1] < at0[i] /\ at0[i - 1] \in Nat /\ at0[i] \in Nat /\ at0[j] \in Nat
      BY <1>5, <1>6, <3>1
    <3>3. j = i - 1 \/ j < i - 1
      BY <3>1
    <3>4. j < i - 1 => at0[j] < at0[i - 1]
      BY <2>1, <3>1
    <3>5. CASE j = i - 1
      BY <3>2, <3>5
    <3>6. CASE j < i - 1
      BY <3>2, <3>4, <3>6
    <3> QED
      BY <3>3, <3>5, <3>6
  <2>2. T = {}
    <3> HIDE DEF T
    <3>1. T \in SUBSET Nat
      BY DEF T
    <3> QED
      BY <2>1, <3>1, LeastCounterexample
  <2>3. k \in Nat /\ k \notin T
    BY <1>4, <2>2
  <2> QED
    BY <1>7, <2>3
<1>8. Return(p, tour) = at0[n] + TimeMatrix(p, tour[n], 0)
  BY DEF Return, n, at0
<1>9. n \in 1..n /\ DOMAIN tour = 1..n
  BY <1>1
<1>10. \A k \in 1..n : at0[k] <= at0[n]
  <2> SUFFICES ASSUME NEW k \in 1..n, k # n
               PROVE  at0[k] <= at0[n]
    BY <1>5
  <2>1. k < n
    BY <1>1
  <2> QED
    BY <1>5, <1>7, <1>9, <2>1
<1>11. Return(p, tour) \in Nat /\ at0[n] < Return(p, tour) /\ at0[n] \in Nat
  BY <1>2, <1>5, <1>8, <1>9
<1>12. \A k \in 1..n : at0[k] < Return(p, tour)
  BY <1>5, <1>10, <1>11
<1> QED
  BY <1>7, <1>9, <1>11, <1>12 DEF at0

(* A solution visits each node once, so no tour stays at one, and each has *)
(* a stop.                                                                 *)
LEMMA SolutionsVisitOnce ==
    ASSUME PlanningInvariant, NEW p \in Planner, NEW s \in Solutions(p)
    PROVE  /\ DOMAIN s = 1..p.resources
           /\ \A v \in DOMAIN s : s[v] \in Tours
           /\ \A v \in DOMAIN s : \A k \in DOMAIN s[v] :
                 k \in 1..Cardinality(tasks) /\ s[v][k] \in 1..Cardinality(tasks)
           /\ \A v \in DOMAIN s : \A k \in 2..Len(s[v]) : s[v][k - 1] # s[v][k]
<1> DEFINE N == Cardinality(tasks)
<1>1. s \in [1..p.resources -> Tours] /\ \A i \in 1..N : Cardinality(Visits(s, i)) = 1
  BY DEF Solutions
<1>2. N \in Nat /\ p.resources \in Nat
  BY OrderedType DEF Planner
<1> HIDE DEF N
<1>3. ASSUME NEW v \in DOMAIN s
      PROVE  /\ DOMAIN s[v] = 1..Len(s[v]) /\ Len(s[v]) \in 0..N
             /\ \A k \in DOMAIN s[v] : s[v][k] \in 1..N
  <2>1. PICK k \in 0..N : s[v] \in [1..k -> 1..N]
    BY <1>1 DEF Tours, N
  <2>2. s[v] \in Seq(1..N) /\ Len(s[v]) = k
    BY <1>2, <2>1
  <2> QED
    BY <2>1, <2>2
<1>4. \A v \in DOMAIN s : \A k \in DOMAIN s[v] : k \in 1..N
  BY <1>2, <1>3
<1>5. ASSUME NEW v \in DOMAIN s, NEW k \in 2..Len(s[v]), s[v][k - 1] = s[v][k]
      PROVE  FALSE
  <2>1. k \in DOMAIN s[v] /\ k - 1 \in DOMAIN s[v]
    BY <1>2, <1>3
  <2> DEFINE X == Visits(s, s[v][k])
  <2>2. X \in SUBSET ((1..p.resources) \X (1..N)) /\ Cardinality(X) = 1
    BY <1>1, <1>3, <2>1 DEF Visits, N
  <2>3. IsFiniteSet((1..p.resources) \X (1..N))
    <3> DEFINE A == 1..p.resources
               B == 1..N
    <3>1. IsFiniteSet(A) /\ IsFiniteSet(B)
      <4>1. \A n \in Nat : IsFiniteSet(1..n)
        BY FS_Interval
      <4> QED
        BY <1>2, <4>1
    <3> HIDE DEF A, B
    <3>2. IsFiniteSet(A \X B)
      BY <3>1, FS_Product
    <3> QED
      BY <3>2 DEF A, B
  <2>4. IsFiniteSet(X)
    <3> HIDE DEF X
    <3> QED
      BY <2>2, <2>3, FS_Subset
  <2>5. PICK x : X = {x}
    <3> HIDE DEF X
    <3> QED
      BY <2>2, <2>4, FS_Singleton
  <2>6. <<v, k>> \in X /\ <<v, k - 1>> \in X
    BY <1>4, <1>5, <2>1 DEF Visits, N
  <2>7. k = k - 1
    BY <2>5, <2>6
  <2> QED
    BY <1>2, <1>3, <2>7
<1> QED
  BY <1>1, <1>3, <1>4, <1>5 DEF N

LEMMA RoutesInitially == RoutesInit => RoutesInvariant
<1> SUFFICES ASSUME RoutesInit
             PROVE  RoutesInvariant
  OBVIOUS
<1>1. DOMAIN routes = {}
  BY DEF RoutesInit
<1>2. outcome = "NONE" /\ routes = <<>> /\ Init
  BY DEF RoutesInit
<1> QED
  BY <1>1, <1>2, PlanInitially DEF RoutesInvariant, Solved, EachTaskIsRouted, OneStopAtATime

(* A plan routes each task once, and takes its time between stops.         *)
LEMMA PlanPreserves ==
    ASSUME RoutesInvariant, NEW p \in Planners, Plan(p)
    PROVE  RoutesInvariant'
<1>1. PlanningInvariant /\ p \in Planner /\ pc = "done" /\ planner' = p
  BY RoutesAssumption DEF RoutesInvariant, Plan
<1>2. UNCHANGED vars
  BY DEF Plan, Answer
<1>3. PlanningInvariant' /\ pc' = "done" /\ tasks' = tasks
  BY <1>1, <1>2, PlanningStep DEF vars
<1>4. ASSUME outcome' \in {"INFEASIBLE"} \cup Unsolved, routes' = <<>>
      PROVE  RoutesInvariant'
  <2>1. DOMAIN routes' = {} /\ outcome' \notin Solved
    BY <1>4 DEF Solved, Unsolved
  <2> QED
    BY <1>3, <1>4, <2>1 DEF RoutesInvariant, Solved, EachTaskIsRouted, OneStopAtATime
<1>5. ASSUME NEW st \in Solved, NEW s \in Solutions(p), Answer(st, Extract(p, s)), tasks # {}
      PROVE  RoutesInvariant'
  <2> DEFINE N == Cardinality(tasks)
             Busy == {w \in DOMAIN s : s[w] # <<>>}
  <2>1. /\ outcome' \in Solved
        /\ routes' = [v \in Busy |-> Route(p, s[v])]
    BY <1>5 DEF Answer, Extract
  <2>2. \A v \in Busy : v \in DOMAIN routes' /\ routes'[v] = Route(p, s[v])
    BY <2>1
  <2>3. ASSUME NEW v \in Busy
        PROVE  /\ DOMAIN routes'[v].stops = DOMAIN s[v]
               /\ routes'[v].time = Return(p, s[v])
               /\ \A k \in DOMAIN s[v] :
                     /\ routes'[v].stops[k].task = Ordered[s[v][k]]
                     /\ routes'[v].stops[k].arrival = Arrivals(p, s[v])[k]
    <3>1. /\ routes'[v].stops = [k \in DOMAIN s[v] |-> Stop(p, s[v], k)]
          /\ routes'[v].time = Return(p, s[v])
      <4>1. routes'[v] = Route(p, s[v])
        BY <2>2
      <4>2. \A tour : /\ Route(p, tour).stops = [k \in DOMAIN tour |-> Stop(p, tour, k)]
                      /\ Route(p, tour).time = Return(p, tour)
        BY DEF Route
      <4> QED
        BY <4>1, <4>2
    <3>2. \A k \in DOMAIN s[v] : /\ Stop(p, s[v], k).task = Ordered[s[v][k]]
                                 /\ Stop(p, s[v], k).arrival = Arrivals(p, s[v])[k]
      BY DEF Stop
    <3>3. /\ DOMAIN routes'[v].stops = DOMAIN s[v]
          /\ \A k \in DOMAIN s[v] : routes'[v].stops[k] = Stop(p, s[v], k)
      BY <3>1
    <3> HIDE DEF Busy
    <3> QED
      BY <3>1, <3>2, <3>3
  <2>4. DOMAIN routes' = Busy
    BY <2>1
  <2>5. EachTaskIsRouted'
    <3>1. ASSUME NEW v \in Busy, NEW k \in DOMAIN s[v]
          PROVE  Ordered[s[v][k]] \in tasks
      <4>1. s[v][k] \in 1..N
        BY <1>1, SolutionsVisitOnce
      <4> QED
        BY <1>1, <4>1, OrderedType
    <3>2. ASSUME NEW t \in tasks
          PROVE  Cardinality(StopsFor(t)') = 1
      <4>1. PICK n \in 1..N : Ordered[n] = t
        BY <1>1, OrderedType
      <4>2. StopsFor(t)' = {x \in (DOMAIN routes') \X (1..N) :
               x[2] \in DOMAIN routes'[x[1]].stops /\ routes'[x[1]].stops[x[2]].task = t}
        BY <1>3 DEF StopsFor
      <4>3. ASSUME NEW v, NEW k
            PROVE  <<v, k>> \in StopsFor(t)' <=> <<v, k>> \in Visits(s, n)
        <5>1. <<v, k>> \in StopsFor(t)' <=>
                 v \in Busy /\ k \in 1..N /\ k \in DOMAIN s[v] /\ Ordered[s[v][k]] = t
          BY <2>3, <2>4, <4>2
        <5>2. <<v, k>> \in Visits(s, n) <=>
                 v \in DOMAIN s /\ k \in 1..N /\ k \in DOMAIN s[v] /\ s[v][k] = n
          BY DEF Visits
        <5>3. v \in DOMAIN s /\ k \in DOMAIN s[v] => s[v] # <<>>
          OBVIOUS
        <5>4. v \in DOMAIN s /\ k \in DOMAIN s[v] => s[v][k] \in 1..N
          BY <1>1, SolutionsVisitOnce
        <5>5. \A m \in 1..N : Ordered[m] = t <=> m = n
          BY <1>1, <4>1, OrderedType
        <5> QED
          BY <5>1, <5>2, <5>3, <5>4, <5>5
      <4>4. StopsFor(t)' = Visits(s, n)
        <5>1. \A x \in StopsFor(t)' : \E v, k : x = <<v, k>>
          BY <4>2
        <5>2. \A x \in Visits(s, n) : \E v, k : x = <<v, k>>
          BY DEF Visits
        <5> HIDE DEF N
        <5> QED
          BY <4>3, <5>1, <5>2
      <4> QED
        BY <4>1, <4>4 DEF Solutions
    <3> HIDE DEF N, Busy
    <3> QED
      BY <1>3, <2>3, <2>4, <3>1, <3>2 DEF EachTaskIsRouted
  <2>6. ASSUME NEW v \in Busy
        PROVE  /\ Return(p, s[v]) \in Nat /\ Return(p, s[v]) <= p.horizon
               /\ \A j, k \in DOMAIN s[v] :
                     j < k => Arrivals(p, s[v])[j] < Arrivals(p, s[v])[k]
               /\ \A k \in DOMAIN s[v] : Arrivals(p, s[v])[k] < Return(p, s[v])
    <3>1. s[v] \in Tours /\ s[v] # <<>> /\ \A k \in 2..Len(s[v]) : s[v][k - 1] # s[v][k]
      BY <1>1, SolutionsVisitOnce
    <3>2. Return(p, s[v]) <= p.horizon
      BY <1>1, <3>1, SolutionsVisitOnce DEF Solutions
    <3> HIDE DEF Busy
    <3> QED
      BY <1>1, <1>5, <3>1, <3>2, ToursTakeTime
  <2>7. OneStopAtATime'
    <3> HIDE DEF Busy
    <3> QED
      BY <1>1, <2>3, <2>4, <2>6 DEF OneStopAtATime
  <2> QED
    BY <1>3, <2>1, <2>5, <2>7 DEF RoutesInvariant
<1> QED
  BY <1>4, <1>5 DEF Plan, Answer

(* Nothing follows a cycle's end but its routes.                           *)
LEMMA RoutesStep == RoutesInvariant /\ [RoutesNext]_<<vars, routeVars>> => RoutesInvariant'
<1> SUFFICES ASSUME RoutesInvariant, [RoutesNext]_<<vars, routeVars>>
             PROVE  RoutesInvariant'
  OBVIOUS
<1>1. CASE \E p \in Planners : Plan(p)
  BY <1>1, PlanPreserves
<1>2. CASE Next /\ UNCHANGED routeVars
  <2>1. pc # "done"
    BY <1>2 DEF Next, Consider, Considered, Deduplicate, Offer, SelectGreedy, SelectAssigned,
       SelectByPolicy, PolicyFallsBack
  <2>2. outcome' = "NONE" /\ routes' = <<>>
    BY <1>2, <2>1 DEF RoutesInvariant, routeVars, Solved
  <2>3. PlanningInvariant'
    BY <1>2, PlanningStep DEF RoutesInvariant
  <2>4. DOMAIN routes' = {}
    BY <2>2
  <2> QED
    BY <2>2, <2>3, <2>4 DEF RoutesInvariant, Solved, EachTaskIsRouted, OneStopAtATime
<1>3. CASE UNCHANGED <<vars, routeVars>>
  <2>1. PlanningInvariant'
    BY <1>3, PlanningStep DEF RoutesInvariant
  <2>2. tasks' = tasks /\ pc' = pc /\ outcome' = outcome /\ routes' = routes /\ planner' = planner
    BY <1>3 DEF vars, routeVars
  <2> QED
    BY <2>1, <2>2 DEF RoutesInvariant, EachTaskIsRouted, OneStopAtATime, StopsFor
<1> QED
  BY <1>1, <1>2, <1>3 DEF RoutesNext

(* The planner's inductive invariant holds.                                *)
THEOREM RoutesAreInvariant == RoutesSpec => []RoutesInvariant
BY RoutesInitially, RoutesStep, PTL DEF RoutesSpec

(* A successful plan routes each task of the cycle once, and nothing else. *)
THEOREM EachTaskRouted == RoutesSpec => []EachTaskIsRouted
<1>1. RoutesInvariant => EachTaskIsRouted
  BY DEF RoutesInvariant
<1> QED
  BY <1>1, RoutesAreInvariant, PTL

(* No resource is at two stops at once, or out after the horizon.          *)
THEOREM OneStopAtOnce == RoutesSpec => []OneStopAtATime
<1>1. RoutesInvariant => OneStopAtATime
  BY DEF RoutesInvariant
<1> QED
  BY <1>1, RoutesAreInvariant, PTL
=============================================================================
