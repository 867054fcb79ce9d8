---------------------------- MODULE ImportProofs ----------------------------
(***************************************************************************)
(* For every drawing, and whatever is imported afterwards: merging covers  *)
(* what was drawn, the ids a plan generates differ, its aisles are bands.  *)
(* For every database and all files: an import in a transaction is all or  *)
(* nothing, and files that fit are imported.                               *)
(***************************************************************************)
EXTENDS Import, Sums, SequenceTheorems

(* What an entity that has a place becomes.                                *)
RawLocations == {RawLocation(e) : e \in {f \in Entities : f.at # NoPoint}}

PlanTypes ==
    /\ pc \in {"read", "merge", "number", "ready"}
    /\ raw \in Seq(RawLocations)
    /\ kept \in Seq(RawLocations)
    /\ next \in 1..Len(raw) + 1

(* Where the loop stands, what was merged so far is covered.               *)
MergedSoFar ==
    /\ pc = "read" => kept = <<>> /\ next = 1
    /\ pc \in {"number", "ready"} => next = Len(raw) + 1
    /\ \A k \in DOMAIN kept : \E j \in 1..next - 1 : kept[k] = raw[j]
    /\ \A i, j \in DOMAIN kept : i # j => ~ Merges(kept[i], kept[j])
    /\ \A i \in 1..next - 1 :
          \E k \in DOMAIN kept, j \in 1..i :
              kept[k] = raw[j] /\ (j = i \/ Merges(raw[i], kept[k]))

LEMMA RawLocationsHaveAPlace == \A l \in RawLocations : l.at \in Point
BY FloorPlanAssumption DEF RawLocations, RawLocation

LEMMA SquareOfDifference ==
    ASSUME NEW m \in Int, NEW n \in Int
    PROVE  Square(m - n) \in Int /\ Square(m - n) = Square(n - m)
<1>1. n - m = -(m - n) /\ m - n \in Int
  OBVIOUS
<1>2. \A k \in Int : k * k = (-k) * (-k)
  OBVIOUS
<1> QED
  BY <1>1, <1>2 DEF Square

LEMMA MergesIsSymmetric ==
    ASSUME NEW l \in RawLocations, NEW k \in RawLocations
    PROVE  Merges(l, k) = Merges(k, l)
BY RawLocationsHaveAPlace, SquareOfDifference DEF Merges, Apart, Point

-----------------------------------------------------------------------------
LEMMA Appending ==
    ASSUME NEW s \in Seq(RawLocations), NEW e \in RawLocations
    PROVE  /\ Append(s, e) \in Seq(RawLocations) /\ Len(Append(s, e)) = Len(s) + 1
           /\ \A k \in DOMAIN s : Append(s, e)[k] = s[k]
           /\ Append(s, e)[Len(s) + 1] = e /\ DOMAIN Append(s, e) = 1..Len(s) + 1
           /\ DOMAIN s = 1..Len(s) /\ Len(s) \in Nat
OBVIOUS

LEMMA MergingInitially == FloorPlanInit => PlanTypes /\ MergedSoFar
BY DEF FloorPlanInit, PlanTypes, MergedSoFar

(* The invariant of the next state, with its parts primed one by one.      *)
LEMMA InvariantAfter ==
    ASSUME pc' \in {"read", "merge", "number", "ready"},
           raw' \in Seq(RawLocations), kept' \in Seq(RawLocations),
           next' \in 1..Len(raw') + 1,
           pc' = "read" => kept' = <<>> /\ next' = 1,
           pc' \in {"number", "ready"} => next' = Len(raw') + 1,
           \A k \in DOMAIN kept' : \E j \in 1..next' - 1 : kept'[k] = raw'[j],
           \A i, j \in DOMAIN kept' : i # j => ~ Merges(kept'[i], kept'[j]),
           \A i \in 1..next' - 1 :
              \E k \in DOMAIN kept', j \in 1..i :
                  kept'[k] = raw'[j] /\ (j = i \/ Merges(raw'[i], kept'[k]))
    PROVE  PlanTypes' /\ MergedSoFar'
BY DEF PlanTypes, MergedSoFar, Merges, Apart

LEMMA MergingStep ==
    ASSUME PlanTypes, MergedSoFar, [FloorPlanNext]_planVars
    PROVE  PlanTypes' /\ MergedSoFar'
<1> USE DEF PlanTypes, MergedSoFar
<1>1. CASE UNCHANGED planVars
  BY <1>1 DEF planVars, Merges, Apart
<1>2. ASSUME NEW e \in Entities, ReadEntity(e)
      PROVE  PlanTypes' /\ MergedSoFar'
  <2>1. raw' \in Seq(RawLocations)
    BY <1>2 DEF ReadEntity, RawLocations
  <2>2. UNCHANGED <<pc, next, kept>> /\ pc = "read"
    BY <1>2 DEF ReadEntity
  <2> QED
    BY <2>1, <2>2
<1>3. CASE EndOfDrawing \/ SortDoors \/ NumberLocation \/ Numbering
  <2>1. UNCHANGED <<raw, kept, next>>
    BY <1>3 DEF EndOfDrawing, SortDoors, NumberLocation, Numbering
  <2>2. /\ pc' \in {"merge", "number", "ready"}
        /\ pc' \in {"number", "ready"} => next = Len(raw) + 1
    BY <1>3 DEF EndOfDrawing, SortDoors, NumberLocation, Numbering
  <2> QED
    BY <2>1, <2>2, InvariantAfter
<1>4. CASE Merge
  <2> DEFINE l == raw[next]
  <2>1. /\ pc = "merge" /\ next \in 1..Len(raw) /\ next \in Nat /\ next' = next + 1
        /\ l \in RawLocations /\ UNCHANGED <<pc, raw>> /\ kept' = MergeOrKeep(l)
    BY <1>4 DEF Merge
  <2>2. CASE \E i \in DOMAIN kept : Merges(l, kept[i])
    <3>1. kept' = kept
      BY <2>1, <2>2 DEF MergeOrKeep
    <3>2. PICK k \in DOMAIN kept : Merges(l, kept[k])
      BY <2>2
    <3>3. PICK j \in 1..next - 1 : kept[k] = raw[j]
      OBVIOUS
    <3>4. \A i \in 1..next : \E m \in DOMAIN kept, n \in 1..i :
              kept[m] = raw[n] /\ (n = i \/ Merges(raw[i], kept[m]))
      <4> SUFFICES ASSUME NEW i \in 1..next
                   PROVE  \E m \in DOMAIN kept, n \in 1..i :
                              kept[m] = raw[n] /\ (n = i \/ Merges(raw[i], kept[m]))
        OBVIOUS
      <4>1. CASE i = next
        <5>1. j \in 1..i
          BY <2>1, <3>3, <4>1
        <5> QED
          BY <3>2, <3>3, <4>1, <5>1
      <4>2. CASE i \in 1..next - 1
        BY <4>2
      <4> QED
        BY <2>1, <4>1, <4>2
    <3>5. \A m \in DOMAIN kept : \E n \in 1..next : kept[m] = raw[n]
      BY <2>1
    <3>6. next' - 1 = next
      BY <2>1
    <3> QED
      <4>1. /\ \A m \in DOMAIN kept' : \E n \in 1..next' - 1 : kept'[m] = raw'[n]
            /\ \A m, n \in DOMAIN kept' : m # n => ~ Merges(kept'[m], kept'[n])
        BY <2>1, <3>1, <3>5, <3>6
      <4>2. \A i \in 1..next' - 1 : \E m \in DOMAIN kept', n \in 1..i :
                kept'[m] = raw'[n] /\ (n = i \/ Merges(raw'[i], kept'[m]))
        <5> SUFFICES ASSUME NEW i \in 1..next' - 1
                     PROVE  \E m \in DOMAIN kept', n \in 1..i :
                                kept'[m] = raw'[n] /\ (n = i \/ Merges(raw'[i], kept'[m]))
          OBVIOUS
        <5>1. i \in 1..next
          BY <3>6
        <5>2. PICK m \in DOMAIN kept, n \in 1..i :
                  kept[m] = raw[n] /\ (n = i \/ Merges(raw[i], kept[m]))
          BY <3>4, <5>1
        <5>3. raw' = raw
          BY <2>1
        <5> QED
          BY <3>1, <5>2, <5>3
      <4>3. /\ raw' \in Seq(RawLocations) /\ kept' \in Seq(RawLocations)
            /\ next' \in 1..Len(raw') + 1 /\ pc' = "merge"
        BY <2>1, <3>1
      <4>4. pc' = "read" => kept' = <<>> /\ next' = 1
        BY <4>3
      <4>5. pc' \in {"number", "ready"} => next' = Len(raw') + 1
        BY <4>3
      <4> HIDE DEF PlanTypes, MergedSoFar
      <4> QED
        BY <4>1, <4>2, <4>3, <4>4, <4>5, InvariantAfter
  <2>3. CASE \A i \in DOMAIN kept : ~ Merges(l, kept[i])
    <3>0. kept' = Append(kept, l)
      <4>1. MergeOrKeep(l) = Append(kept, l)
        BY <2>3 DEF MergeOrKeep
      <4> QED
        BY <2>1, <4>1
    <3>1. /\ kept' \in Seq(RawLocations) /\ Len(kept') = Len(kept) + 1
          /\ \A k \in DOMAIN kept : kept'[k] = kept[k]
          /\ kept'[Len(kept) + 1] = l /\ DOMAIN kept' = 1..Len(kept) + 1
          /\ DOMAIN kept = 1..Len(kept) /\ Len(kept) \in Nat
      <4>1. l \in RawLocations /\ kept \in Seq(RawLocations)
        BY <2>1
      <4> HIDE DEF l
      <4>2. /\ Append(kept, l) \in Seq(RawLocations) /\ Len(Append(kept, l)) = Len(kept) + 1
            /\ \A k \in DOMAIN kept : Append(kept, l)[k] = kept[k]
            /\ Append(kept, l)[Len(kept) + 1] = l
            /\ DOMAIN Append(kept, l) = 1..Len(kept) + 1
            /\ DOMAIN kept = 1..Len(kept) /\ Len(kept) \in Nat
        BY <4>1, Appending
      <4> QED
        BY <3>0, <4>2
    <3>2. \A i, j \in DOMAIN kept' : i # j => ~ Merges(kept'[i], kept'[j])
      <4> SUFFICES ASSUME NEW i \in DOMAIN kept', NEW j \in DOMAIN kept', i # j
                   PROVE  ~ Merges(kept'[i], kept'[j])
        OBVIOUS
      <4>1. CASE i \in DOMAIN kept /\ j \in DOMAIN kept
        BY <3>1, <4>1
      <4>2. CASE i = Len(kept) + 1
        <5>1. j \in DOMAIN kept
          BY <3>1, <4>2
        <5> QED
          BY <2>3, <3>1, <4>2, <5>1
      <4>3. CASE j = Len(kept) + 1
        <5>1. i \in DOMAIN kept /\ kept[i] \in RawLocations
          <6>1. i \in DOMAIN kept
            BY <3>1, <4>3
          <6> QED
            BY <3>1, <6>1
        <5>2. ~ Merges(l, kept[i]) /\ Merges(l, kept[i]) = Merges(kept[i], l)
          BY <2>1, <2>3, <5>1, MergesIsSymmetric
        <5> QED
          BY <3>1, <4>3, <5>1, <5>2
      <4>4. i \in DOMAIN kept \/ i = Len(kept) + 1
        BY <3>1
      <4>5. j \in DOMAIN kept \/ j = Len(kept) + 1
        BY <3>1
      <4> QED
        BY <4>1, <4>2, <4>3, <4>4, <4>5
    <3>3. \A i \in 1..next : \E k \in DOMAIN kept', j \in 1..i :
              kept'[k] = raw[j] /\ (j = i \/ Merges(raw[i], kept'[k]))
      <4> SUFFICES ASSUME NEW i \in 1..next
                   PROVE  \E k \in DOMAIN kept', j \in 1..i :
                              kept'[k] = raw[j] /\ (j = i \/ Merges(raw[i], kept'[k]))
        OBVIOUS
      <4>1. CASE i = next
        <5>1. next \in 1..i /\ Len(kept) + 1 \in DOMAIN kept'
          BY <2>1, <3>1, <4>1
        <5> QED
          BY <3>1, <4>1, <5>1
      <4>2. CASE i \in 1..next - 1
        <5>1. PICK k \in DOMAIN kept, j \in 1..i :
                  kept[k] = raw[j] /\ (j = i \/ Merges(raw[i], kept[k]))
          BY <4>2
        <5>2. k \in DOMAIN kept' /\ kept'[k] = kept[k]
          BY <3>1
        <5> QED
          BY <5>1, <5>2
      <4> QED
        BY <2>1, <4>1, <4>2
    <3>4. \A k \in DOMAIN kept' : \E j \in 1..next : kept'[k] = raw[j]
      <4> SUFFICES ASSUME NEW k \in DOMAIN kept'
                   PROVE  \E j \in 1..next : kept'[k] = raw[j]
        OBVIOUS
      <4>1. CASE k = Len(kept) + 1
        BY <2>1, <3>1, <4>1
      <4>2. CASE k \in DOMAIN kept
        <5>1. PICK j \in 1..next - 1 : kept[k] = raw[j]
          BY <4>2
        <5>2. j \in 1..next
          BY <2>1
        <5>3. kept'[k] = raw[j]
          BY <3>1, <4>2, <5>1
        <5> QED
          BY <5>2, <5>3
      <4>3. k = Len(kept) + 1 \/ k \in DOMAIN kept
        BY <3>1
      <4> QED
        BY <4>1, <4>2, <4>3
    <3>5. next' - 1 = next
      BY <2>1
    <3> QED
      BY <2>1, <3>1, <3>2, <3>3, <3>4, <3>5, InvariantAfter
  <2> QED
    BY <2>2, <2>3
<1> QED
  BY <1>1, <1>2, <1>3, <1>4 DEF FloorPlanNext

(* An import does to a drawing nothing but read it.                        *)
LEMMA ImportReads == [ImportNext]_<<planVars, dbVars>> => [FloorPlanNext]_planVars
<1>1. ReadDrawing => FloorPlanNext
  BY DEF ReadDrawing
<1>2. \A j, s, st : Start(j, s, st) => UNCHANGED planVars
  BY DEF Start
<1>3. ASSUME NEW files, NEW truncate, NEW wrap, NEW applied, ImportCsv(files, truncate, wrap, applied)
      PROVE  UNCHANGED planVars
  BY <1>2, <1>3 DEF ImportCsv
<1>4. ASSUME NEW truncate, ImportPlan(truncate)
      PROVE  UNCHANGED planVars
  BY <1>2, <1>4 DEF ImportPlan
<1> QED
  BY <1>1, <1>3, <1>4
  DEF ImportNext, BeginTransaction, CommitTransaction, StatementSucceeds, StatementFails,
      ApplyFails, ConnectionLost, Finish, Advance, Abort

(* Merging covers every drawing, however many entities it has and whatever *)
(* the tolerance.                                                          *)
THEOREM MergingIsCovered == ImportSpec => []MergingCovers
<1>1. ImportInit => PlanTypes /\ MergedSoFar
  BY MergingInitially DEF ImportInit
<1>2. PlanTypes /\ MergedSoFar /\ [ImportNext]_<<planVars, dbVars>> => (PlanTypes /\ MergedSoFar)'
  BY MergingStep, ImportReads
<1>3. PlanTypes /\ MergedSoFar => MergingCovers
  <2> SUFFICES ASSUME PlanTypes, MergedSoFar
               PROVE  MergingCovers
    OBVIOUS
  <2>1. pc \in {"number", "ready"} => DOMAIN raw = 1..next - 1
    BY DEF PlanTypes, MergedSoFar
  <2> QED
    BY <2>1 DEF MergedSoFar, MergingCovers
<1> QED
  BY <1>1, <1>2, <1>3, PTL DEF ImportSpec

-----------------------------------------------------------------------------
(* The generated ids of a plan, and those of one counter.                  *)
GeneratedIn(P) == {n \in DOMAIN P : ~ P[n].drawn}

Sharing(P, p) == {n \in GeneratedIn(P) : P[n].id[1] = p}

(* No id is beyond its counter, and no two are equal.                      *)
IdsAreCounted(P) ==
    /\ \A n \in GeneratedIn(P) : P[n].id[2] \in 1..Cardinality(Sharing(P, P[n].id[1]))
    /\ \A m, n \in GeneratedIn(P) : m # n => P[m].id # P[n].id

PlanIsNumbered ==
    /\ \E S : plan \in Seq(S)
    /\ IdsAreCounted(plan)

LEMMA AppendingAny ==
    ASSUME NEW S, NEW s \in Seq(S), NEW e
    PROVE  /\ Append(s, e) \in Seq(S \cup {e})
           /\ \A k \in DOMAIN s : Append(s, e)[k] = s[k]
           /\ Append(s, e)[Len(s) + 1] = e /\ DOMAIN Append(s, e) = DOMAIN s \cup {Len(s) + 1}
           /\ DOMAIN s = 1..Len(s) /\ Len(s) \in Nat /\ Len(s) + 1 \notin DOMAIN s
<1>1. s \in Seq(S \cup {e})
  OBVIOUS
<1> QED
  BY <1>1

LEMMA SharingIsFinite ==
    ASSUME NEW S, NEW P \in Seq(S), NEW p
    PROVE  IsFiniteSet(Sharing(P, p)) /\ Cardinality(Sharing(P, p)) \in Nat
<1>1. IsFiniteSet(1..Len(P))
  BY FS_Interval
<1>2. Sharing(P, p) \subseteq 1..Len(P)
  BY DEF Sharing, GeneratedIn
<1> QED
  BY <1>1, <1>2, FS_Subset, FS_CardinalityType

(* A drawn id counts for nothing; a generated one moves its counter on.    *)
LEMMA NextIdDiffers ==
    ASSUME NEW S, NEW P \in Seq(S), IdsAreCounted(P), NEW r, NEW p,
           ~ r.drawn => r.id = <<p, 1 + Cardinality(Sharing(P, p))>>
    PROVE  IdsAreCounted(Append(P, r))
<1> DEFINE Q == Append(P, r)
           new == Len(P) + 1
<1>1. /\ \A k \in DOMAIN P : Q[k] = P[k]
      /\ Q[new] = r /\ DOMAIN Q = DOMAIN P \cup {new} /\ new \notin DOMAIN P
  BY AppendingAny
<1> HIDE DEF Q, new
<1>2. CASE r.drawn
  <2>1. GeneratedIn(Q) = GeneratedIn(P) /\ \A n \in GeneratedIn(P) : Q[n] = P[n]
    BY <1>1, <1>2 DEF GeneratedIn
  <2>2. \A q : Sharing(Q, q) = Sharing(P, q)
    BY <2>1 DEF Sharing
  <2> QED
    BY <2>1, <2>2 DEF IdsAreCounted, Q
<1>3. CASE ~ r.drawn
  <2>1. GeneratedIn(Q) = GeneratedIn(P) \cup {new} /\ \A n \in GeneratedIn(P) : Q[n] = P[n]
    BY <1>1, <1>3 DEF GeneratedIn
  <2>2. \A q : q # p => Sharing(Q, q) = Sharing(P, q)
    BY <1>1, <1>3, <2>1 DEF Sharing
  <2>3. Sharing(Q, p) = Sharing(P, p) \cup {new} /\ new \notin Sharing(P, p)
    BY <1>1, <1>3, <2>1 DEF Sharing, GeneratedIn
  <2>4. Cardinality(Sharing(Q, p)) = Cardinality(Sharing(P, p)) + 1
    BY <2>3, SharingIsFinite, FS_AddElement
  <2>5. Cardinality(Sharing(P, p)) \in Nat
    BY SharingIsFinite
  <2>6. r.id[1] = p /\ r.id[2] = Cardinality(Sharing(P, p)) + 1
    BY <1>3, <2>5
  <2>7. \A n \in GeneratedIn(P) : Q[n].id # r.id
    <3> SUFFICES ASSUME NEW n \in GeneratedIn(P), P[n].id = r.id
                 PROVE  FALSE
      BY <2>1
    <3>1. P[n].id[2] \in 1..Cardinality(Sharing(P, p))
      BY <2>6 DEF IdsAreCounted
    <3> QED
      BY <2>5, <2>6, <3>1
  <2>8. \A n \in GeneratedIn(Q) : Q[n].id[2] \in 1..Cardinality(Sharing(Q, Q[n].id[1]))
    <3> SUFFICES ASSUME NEW n \in GeneratedIn(Q)
                 PROVE  Q[n].id[2] \in 1..Cardinality(Sharing(Q, Q[n].id[1]))
      OBVIOUS
    <3>1. CASE n = new
      BY <1>1, <2>4, <2>5, <2>6, <3>1
    <3>2. CASE n \in GeneratedIn(P)
      <4>1. Q[n] = P[n] /\ P[n].id[2] \in 1..Cardinality(Sharing(P, P[n].id[1]))
        BY <2>1, <3>2 DEF IdsAreCounted
      <4>2. CASE P[n].id[1] = p
        BY <2>4, <2>5, <4>1, <4>2
      <4>3. CASE P[n].id[1] # p
        BY <2>2, <4>1, <4>3
      <4> QED
        BY <4>2, <4>3
    <3> QED
      BY <2>1, <3>1, <3>2
  <2>9. \A m, n \in GeneratedIn(Q) : m # n => Q[m].id # Q[n].id
    BY <1>1, <2>1, <2>7 DEF IdsAreCounted
  <2> QED
    BY <2>8, <2>9 DEF IdsAreCounted, Q
<1> QED
  BY <1>2, <1>3

LEMMA NumberingStep ==
    ASSUME PlanIsNumbered, [FloorPlanNext]_planVars
    PROVE  PlanIsNumbered'
<1>1. CASE UNCHANGED plan
  BY <1>1 DEF PlanIsNumbered, IdsAreCounted, GeneratedIn, Sharing
<1>2. ASSUME NEW j \in DOMAIN kept, plan' = Append(plan, Numbered(j))
      PROVE  PlanIsNumbered'
  <2>1. PICK S : plan \in Seq(S)
    BY DEF PlanIsNumbered
  <2>2. ~ Numbered(j).drawn =>
            Numbered(j).id = <<Prefix(kept[j]), 1 + Cardinality(Sharing(plan, Prefix(kept[j])))>>
    BY DEF Numbered, LocationId, GeneratedId, CounterOf, Generated, Sharing, GeneratedIn
  <2>3. IdsAreCounted(Append(plan, Numbered(j)))
    BY <2>1, <2>2, NextIdDiffers DEF PlanIsNumbered
  <2>4. Append(plan, Numbered(j)) \in Seq(S \cup {Numbered(j)})
    BY <2>1, AppendingAny
  <2>5. \E T : plan' \in Seq(T)
    BY <1>2, <2>4
  <2>6. IdsAreCounted(plan')
    BY <1>2, <2>3
  <2>7. IdsAreCounted(plan)'
    BY <2>6 DEF IdsAreCounted, GeneratedIn, Sharing
  <2> QED
    BY <2>5, <2>7 DEF PlanIsNumbered
<1> QED
  BY <1>1, <1>2 DEF FloorPlanNext, planVars, ReadEntity, EndOfDrawing, Merge, SortDoors,
                    NumberLocation, Numbering

(* Generated ids differ in every plan, however many aisles and staging     *)
(* spots it has and whatever ids are drawn in it.                          *)
THEOREM IdsDiffer == ImportSpec => []GeneratedIdsDiffer
<1>1. ImportInit => PlanIsNumbered
  <2> SUFFICES ASSUME plan = <<>>
               PROVE  PlanIsNumbered
    BY DEF ImportInit, FloorPlanInit
  <2>1. plan \in Seq({})
    OBVIOUS
  <2>2. DOMAIN plan = {}
    OBVIOUS
  <2>3. IdsAreCounted(plan)
    BY <2>2 DEF IdsAreCounted, GeneratedIn
  <2> QED
    BY <2>1, <2>3 DEF PlanIsNumbered
<1>2. PlanIsNumbered /\ [ImportNext]_<<planVars, dbVars>> => PlanIsNumbered'
  BY NumberingStep, ImportReads
<1>3. PlanIsNumbered => GeneratedIdsDiffer
  BY DEF PlanIsNumbered, IdsAreCounted, GeneratedIdsDiffer, Generated, GeneratedIn
<1> QED
  BY <1>1, <1>2, <1>3, PTL DEF ImportSpec

-----------------------------------------------------------------------------
(* The places of a set in an order, given by what comes before each: they  *)
(* differ, ascend, and none is left out.                                   *)
Orders(before, S) ==
    /\ before \in [S -> SUBSET S]
    /\ \A i, j \in S : i # j => i \in before[j] \/ j \in before[i]
    /\ \A i \in S : i \notin before[i]
    /\ \A i, j \in S : i \in before[j] => before[i] \in SUBSET before[j]

Ranks(before, S) ==
    /\ Cardinality(S) \in Nat
    /\ \A i \in S : Cardinality(before[i]) \in 0..Cardinality(S) - 1
    /\ \A i, j \in S : i \in before[j] => Cardinality(before[i]) < Cardinality(before[j])
    /\ \A i, j \in S : Cardinality(before[i]) = Cardinality(before[j]) => i = j
    /\ \A n \in 0..Cardinality(S) - 1 : \E i \in S : Cardinality(before[i]) = n

LEMMA RanksAreOnto ==
    ASSUME NEW S, IsFiniteSet(S), NEW before, Orders(before, S)
    PROVE  Ranks(before, S)
<1> USE DEF Orders
<1> DEFINE N == Cardinality(S)
           rank == [i \in S |-> Cardinality(before[i])]
<1>1. N \in Nat
  BY FS_CardinalityType
<1>2. \A i \in S : IsFiniteSet(before[i]) /\ Cardinality(before[i]) \in Nat
  BY FS_Subset, FS_CardinalityType
<1>3. \A s, t : IsFiniteSet(t) /\ s \in SUBSET t /\ s # t =>
                    /\ Cardinality(s) \in Nat /\ Cardinality(t) \in Nat
                    /\ Cardinality(s) < Cardinality(t)
  <2> SUFFICES ASSUME NEW s, NEW t, IsFiniteSet(t), s \in SUBSET t, s # t
               PROVE  /\ Cardinality(s) \in Nat /\ Cardinality(t) \in Nat
                      /\ Cardinality(s) < Cardinality(t)
    OBVIOUS
  <2>1. IsFiniteSet(s) /\ Cardinality(s) <= Cardinality(t) /\ Cardinality(s) # Cardinality(t)
    BY FS_Subset
  <2>2. Cardinality(s) \in Nat /\ Cardinality(t) \in Nat
    BY <2>1, FS_CardinalityType
  <2> QED
    BY <2>1, <2>2
<1>4. \A i \in S : Cardinality(before[i]) \in 0..N - 1
  <2> SUFFICES ASSUME NEW i \in S
               PROVE  Cardinality(before[i]) \in 0..N - 1
    OBVIOUS
  <2>1. before[i] \in SUBSET S /\ before[i] # S
    OBVIOUS
  <2>2. Cardinality(before[i]) \in Nat /\ Cardinality(before[i]) < N
    BY <1>3, <2>1
  <2> QED
    BY <1>1, <2>2
<1>5. \A i, j \in S : i \in before[j] => Cardinality(before[i]) < Cardinality(before[j])
  <2> SUFFICES ASSUME NEW i \in S, NEW j \in S, i \in before[j]
               PROVE  Cardinality(before[i]) < Cardinality(before[j])
    OBVIOUS
  <2>1. before[i] \in SUBSET before[j] /\ before[i] # before[j]
    OBVIOUS
  <2> QED
    BY <1>2, <1>3, <2>1
<1>6. \A i, j \in S : Cardinality(before[i]) = Cardinality(before[j]) => i = j
  <2>1. \A i, j \in S : i \in before[j] => Cardinality(before[i]) # Cardinality(before[j])
    BY <1>2, <1>5
  <2> QED
    BY <2>1
<1>7. \A n \in 0..N - 1 : \E i \in S : Cardinality(before[i]) = n
  <2>1. rank \in Injection(S, 0..N - 1)
    <3>1. rank \in [S -> 0..N - 1]
      BY <1>4
    <3>2. \A i, j \in S : rank[i] = rank[j] => i = j
      BY <1>6
    <3> QED
      BY <3>1, <3>2 DEF Injection, IsInjective
  <2>2. IsFiniteSet(0..N - 1) /\ Cardinality(0..N - 1) = N
    <3>1. \A n \in Nat : IsFiniteSet(0..n - 1) /\ Cardinality(0..n - 1) = n
      <4> SUFFICES ASSUME NEW n \in Nat
                   PROVE  IsFiniteSet(0..n - 1) /\ Cardinality(0..n - 1) = n
        OBVIOUS
      <4>1. /\ IsFiniteSet(0..n - 1)
            /\ Cardinality(0..n - 1) = IF 0 > n - 1 THEN 0 ELSE n - 1 - 0 + 1
        BY FS_Interval
      <4> QED
        BY <4>1
    <3> QED
      BY <1>1, <3>1
  <2>3. rank \in Surjection(S, 0..N - 1)
    BY <2>1, <2>2, FS_Injection
  <2> QED
    BY <2>3 DEF Surjection
<1> QED
  BY <1>1, <1>4, <1>5, <1>6, <1>7 DEF Ranks

(* What comes before a number in a set of them.                            *)
Below(S, v) == {u \in S : u < v}

LEMMA NumbersAreRanked ==
    ASSUME NEW S \in SUBSET Int, IsFiniteSet(S)
    PROVE  /\ Cardinality(S) \in Nat
           /\ \A v \in S : Cardinality(Below(S, v)) \in 0..Cardinality(S) - 1
           /\ \A n \in 0..Cardinality(S) - 1 : \E v \in S : Cardinality(Below(S, v)) = n
<1> DEFINE before == [v \in S |-> Below(S, v)]
<1>1. before \in [S -> SUBSET S]
  BY DEF Below
<1>2. \A v \in S : before[v] = Below(S, v)
  OBVIOUS
<1> HIDE DEF before
<1>3. \A i, j \in S : i # j => i \in before[j] \/ j \in before[i]
  BY <1>2 DEF Below
<1>4. \A i \in S : i \notin before[i]
  BY <1>2 DEF Below
<1>5. \A i, j \in S : i \in before[j] => before[i] \in SUBSET before[j]
  <2>1. \A u, v, w \in Int : u < v /\ v < w => u < w
    OBVIOUS
  <2> QED
    BY <1>2, <2>1 DEF Below
<1>6. Orders(before, S)
  BY <1>1, <1>3, <1>4, <1>5 DEF Orders
<1>7. Ranks(before, S)
  BY <1>6, RanksAreOnto
<1> QED
  BY <1>2, <1>7 DEF Ranks

LEMMA GreatestExists ==
    ASSUME NEW S \in SUBSET Int, IsFiniteSet(S), S # {}
    PROVE  \E m \in S : \A v \in S : v <= m
<1> DEFINE N == Cardinality(S)
<1>1. N \in Nat /\ N # 0
  BY FS_CardinalityType, FS_EmptySet
<1>2. PICK m \in S : Cardinality(Below(S, m)) = N - 1
  <2>1. N - 1 \in 0..N - 1
    BY <1>1
  <2> QED
    BY <2>1, NumbersAreRanked
<1>3. \A v \in S : v <= m
  <2> SUFFICES ASSUME NEW v \in S, m < v
               PROVE  FALSE
    OBVIOUS
  <2>1. Cardinality(Below(S, v)) \in 0..N - 1
    BY NumbersAreRanked
  <2>2. Below(S, m) \in SUBSET Below(S, v) /\ m \in Below(S, v) /\ m \notin Below(S, m)
    <3>1. \A u \in Int : u < m => u < v
      OBVIOUS
    <3>2. ~ (m < m)
      OBVIOUS
    <3> QED
      BY <3>1, <3>2 DEF Below
  <2>3. IsFiniteSet(Below(S, v))
    <3>1. Below(S, v) \in SUBSET S
      BY DEF Below
    <3> QED
      BY <3>1, FS_Subset
  <2>4. Below(S, m) # Below(S, v)
    BY <2>2
  <2>5. /\ Cardinality(Below(S, m)) <= Cardinality(Below(S, v))
        /\ Cardinality(Below(S, m)) # Cardinality(Below(S, v))
    BY <2>2, <2>3, <2>4, FS_Subset
  <2> QED
    BY <1>1, <1>2, <2>1, <2>5
<1> QED
  BY <1>3

-----------------------------------------------------------------------------
(* The ys of Y that open a group: those that are not within the tolerance  *)
(* of one further south that does.                                         *)
Opening(O, Y) ==
    /\ O \in SUBSET Y
    /\ \A v \in Y : v \in O <=> \A u \in O : u < v => v - u > AisleWidth

LEMMA GroupsExist ==
    ASSUME NEW Y \in SUBSET Int, IsFiniteSet(Y)
    PROVE  \E O : Opening(O, Y)
<1> DEFINE T == {n \in Nat : \E I \in SUBSET Y : Cardinality(I) = n /\ ~ \E O : Opening(O, I)}
<1>1. ASSUME NEW n \in Nat, \A m \in 0..n - 1 : m \notin T, NEW I \in SUBSET Y, Cardinality(I) = n
      PROVE  \E O : Opening(O, I)
  <2>1. CASE I = {}
    <3>1. Opening({}, I)
      BY <2>1 DEF Opening
    <3> QED
      BY <3>1
  <2>2. CASE I # {}
    <3>1. IsFiniteSet(I) /\ I \in SUBSET Int
      BY FS_Subset
    <3>2. PICK m \in I : \A v \in I : v <= m
      BY <2>2, <3>1, GreatestExists
    <3> DEFINE J == I \ {m}
    <3>3. J \in SUBSET Y /\ Cardinality(J) = n - 1 /\ n - 1 \in 0..n - 1 /\ n - 1 \in Nat
      <4>1. Cardinality(J) = Cardinality(I) - 1
        BY <3>1, FS_RemoveElement
      <4>2. n # 0
        BY <1>1, <2>2, <3>1, FS_EmptySet
      <4> QED
        BY <1>1, <4>1, <4>2
    <3>4. PICK O : Opening(O, J)
      <4>1. n - 1 \notin T
        BY <1>1, <3>3
      <4> QED
        BY <3>3, <4>1
    <3> DEFINE fits == \A u \in O : u < m => m - u > AisleWidth
               Q == IF fits THEN O \cup {m} ELSE O
    <3>5. O \in SUBSET J /\ m \notin O /\ \A v \in J : v < m /\ ~ (m < v)
      <4>1. O \in SUBSET J /\ m \notin O
        BY <3>4 DEF Opening
      <4>2. \A v \in J : v \in Int /\ m \in Int /\ v <= m /\ v # m
        BY <3>1, <3>2
      <4>3. \A v \in J : v < m /\ ~ (m < v)
        BY <4>2
      <4> QED
        BY <4>1, <4>3
    <3>6. ASSUME NEW v \in I
          PROVE  v \in Q <=> \A u \in Q : u < v => v - u > AisleWidth
      <4>1. CASE v = m
        <5>1. ~ (m < m)
          BY <3>1
        <5>2. (\A u \in Q : u < m => m - u > AisleWidth) <=> fits
          BY <5>1
        <5>3. m \in Q <=> fits
          BY <3>5
        <5> QED
          BY <4>1, <5>2, <5>3
      <4>2. CASE v \in J
        <5>1. ~ (m < v) /\ v # m
          BY <3>5, <4>2
        <5>2. v \in O <=> \A u \in O : u < v => v - u > AisleWidth
          BY <3>4, <4>2 DEF Opening
        <5>3. v \in Q <=> v \in O
          BY <5>1
        <5>4. (\A u \in Q : u < v => v - u > AisleWidth)
                <=> (\A u \in O : u < v => v - u > AisleWidth)
          BY <5>1
        <5> QED
          BY <5>2, <5>3, <5>4
      <4> QED
        BY <4>1, <4>2
    <3>7. Q \in SUBSET I
      BY <3>5
    <3> HIDE DEF Q
    <3>8. Opening(Q, I)
      BY <3>6, <3>7 DEF Opening
    <3> QED
      BY <3>8
  <2> QED
    BY <2>1, <2>2
<1>2. \A n \in Nat : (\A m \in 0..n - 1 : m \notin T) => n \notin T
  BY <1>1
<1>3. T = {}
  <2>1. T \in SUBSET Nat
    OBVIOUS
  <2> HIDE DEF T
  <2> QED
    BY <1>2, <2>1, LeastCounterexample
<1>4. Cardinality(Y) \in Nat /\ Y \in SUBSET Y
  BY FS_CardinalityType
<1> QED
  BY <1>3, <1>4

LEMMA YsAreFinite ==
    ASSUME kept \in Seq(RawLocations)
    PROVE  /\ Ys \in SUBSET Int /\ IsFiniteSet(Ys)
           /\ IsFiniteSet(DOMAIN kept) /\ Cardinality(DOMAIN kept) = Len(kept) /\ Len(kept) \in Nat
           /\ DOMAIN kept = 1..Len(kept)
           /\ \A i \in DOMAIN kept : kept[i].at.x \in Int /\ kept[i].at.y \in Ys
<1>1. Len(kept) \in Nat /\ DOMAIN kept = 1..Len(kept)
  OBVIOUS
<1>2. IsFiniteSet(DOMAIN kept) /\ Cardinality(DOMAIN kept) = Len(kept)
  <2>1. \A n \in Nat : IsFiniteSet(1..n) /\ Cardinality(1..n) = n
    BY FS_Interval
  <2> QED
    BY <1>1, <2>1
<1>3. \A i \in DOMAIN kept : kept[i].at \in Point
  BY RawLocationsHaveAPlace
<1>4. \A i \in DOMAIN kept : kept[i].at.x \in Int /\ kept[i].at.y \in Int
  BY <1>3 DEF Point
<1>5. Ys \in SUBSET Int /\ \A i \in DOMAIN kept : kept[i].at.y \in Ys
  BY <1>4 DEF Ys
<1>6. IsFiniteSet(Ys)
  <2> DEFINE f == [i \in DOMAIN kept |-> kept[i].at.y]
  <2>1. f \in Surjection(DOMAIN kept, Ys)
    BY DEF Ys, Surjection
  <2> HIDE DEF f
  <2> QED
    BY <1>2, <2>1, FS_Surjection
<1> QED
  BY <1>1, <1>2, <1>4, <1>5, <1>6

OpensBy(g, Y) == g = [v \in Y |-> \A u \in Y : u < v /\ g[u] => v - u > AisleWidth]

LEMMA OpensAreApart ==
    ASSUME kept \in Seq(RawLocations)
    PROVE  Opening(Opens, Ys)
<1> DEFINE opens == CHOOSE g : OpensBy(g, Ys)
<1>1. Opens = {v \in Ys : opens[v]}
  BY DEF Opens, OpensBy
<1>2. PICK O : Opening(O, Ys)
  BY YsAreFinite, GroupsExist
<1>3. OpensBy([v \in Ys |-> v \in O], Ys)
  <2> DEFINE f == [v \in Ys |-> v \in O]
  <2>1. \A v \in Ys : (v \in O) <=> \A u \in Ys : u < v /\ f[u] => v - u > AisleWidth
    <3>1. \A u \in Ys : f[u] <=> u \in O
      OBVIOUS
    <3>2. O \in SUBSET Ys /\ \A v \in Ys : v \in O <=> \A u \in O : u < v => v - u > AisleWidth
      BY <1>2 DEF Opening
    <3> HIDE DEF f
    <3> QED
      BY <3>1, <3>2
  <2> DEFINE g == [v \in Ys |-> \A u \in Ys : u < v /\ f[u] => v - u > AisleWidth]
  <2>2. f = g
    <3>1. \A v \in Ys : f[v] = g[v]
      <4> SUFFICES ASSUME NEW v \in Ys
                   PROVE  f[v] = g[v]
        OBVIOUS
      <4>1. f[v] = (v \in O)
        BY Zenon
      <4>2. g[v] = (\A u \in Ys : u < v /\ f[u] => v - u > AisleWidth)
        BY Zenon
      <4>3. f[v] <=> g[v]
        BY <2>1, <4>1, <4>2, Zenon
      <4>4. f[v] \in BOOLEAN /\ g[v] \in BOOLEAN
        BY <4>1, <4>2
      <4>5. \A p, q \in BOOLEAN : (p <=> q) => p = q
        OBVIOUS
      <4> HIDE DEF f, g
      <4> QED
        BY <4>3, <4>4, <4>5
    <3> QED
      BY <3>1, Zenon
  <2> QED
    BY <2>2 DEF OpensBy
<1>4. OpensBy(opens, Ys)
  BY <1>3
<1> HIDE DEF opens
<1>5. \A v \in Ys : opens[v] <=> \A u \in Ys : u < v /\ opens[u] => v - u > AisleWidth
  BY <1>4, Zenon DEF OpensBy
<1> QED
  BY <1>1, <1>5 DEF Opening

(* How many groups have opened up to v is the aisle of who stands there.   *)
OpenUpTo(v) == {u \in Opens : u <= v}

LEMMA AislesOfYs ==
    ASSUME kept \in Seq(RawLocations)
    PROVE  /\ \A v \in Ys : /\ IsFiniteSet(OpenUpTo(v)) /\ OpenUpTo(v) \in SUBSET Ys
                            /\ Cardinality(OpenUpTo(v)) \in Nat
           /\ \A v, w \in Ys : v <= w => OpenUpTo(v) \in SUBSET OpenUpTo(w)
           /\ \A v, w \in Ys : v <= w => Cardinality(OpenUpTo(v)) <= Cardinality(OpenUpTo(w))
           /\ \A v, w \in Ys :
                 Cardinality(OpenUpTo(v)) = Cardinality(OpenUpTo(w)) => v - w <= AisleWidth
           /\ \A v \in Ys : \A a \in 1..Cardinality(OpenUpTo(v)) :
                 \E u \in Ys : Cardinality(OpenUpTo(u)) = a
<1>1. /\ Ys \in SUBSET Int /\ IsFiniteSet(Ys) /\ Opens \in SUBSET Ys
      /\ \A v \in Ys : v \in Opens <=> \A u \in Opens : u < v => v - u > AisleWidth
  BY YsAreFinite, OpensAreApart DEF Opening
<1>2. \A v \in Ys : /\ IsFiniteSet(OpenUpTo(v)) /\ OpenUpTo(v) \in SUBSET Ys
                    /\ Cardinality(OpenUpTo(v)) \in Nat
  <2>1. \A v : OpenUpTo(v) \in SUBSET Ys
    BY <1>1 DEF OpenUpTo
  <2> QED
    BY <1>1, <2>1, FS_Subset, FS_CardinalityType
<1>3. \A v, w \in Ys : v <= w => OpenUpTo(v) \in SUBSET OpenUpTo(w)
  <2>1. \A u, v, w \in Int : u <= v /\ v <= w => u <= w
    OBVIOUS
  <2> QED
    BY <1>1, <2>1 DEF OpenUpTo
<1>4. \A v, w \in Ys : v <= w => Cardinality(OpenUpTo(v)) <= Cardinality(OpenUpTo(w))
  BY <1>2, <1>3, FS_Subset
<1>5. ASSUME NEW v \in Ys, NEW w \in Ys, Cardinality(OpenUpTo(v)) = Cardinality(OpenUpTo(w)),
             v - w > AisleWidth
      PROVE  FALSE
  <2>1. v \in Int /\ w \in Int /\ AisleWidth \in Nat
    BY <1>1, FloorPlanAssumption
  <2>2. w < v /\ w <= v
    BY <1>5, <2>1
  <2>3. OpenUpTo(w) = OpenUpTo(v)
    BY <1>2, <1>3, <1>5, <2>2, FS_Subset
  <2>4. CASE v \in Opens
    <3>1. v \in OpenUpTo(v) /\ v \notin OpenUpTo(w)
      BY <2>1, <2>2, <2>4 DEF OpenUpTo
    <3> QED
      BY <2>3, <3>1
  <2>5. CASE v \notin Opens
    <3>1. PICK u \in Opens : u < v /\ ~ (v - u > AisleWidth)
      BY <1>1, <2>5
    <3>2. u \in Int
      BY <1>1
    <3>3. u <= v /\ ~ (u <= w)
      BY <1>5, <2>1, <3>1, <3>2
    <3>4. u \in OpenUpTo(v) /\ u \notin OpenUpTo(w)
      BY <3>3 DEF OpenUpTo
    <3> QED
      BY <2>3, <3>4
  <2> QED
    BY <2>4, <2>5
<1>6. \A v, w \in Ys :
          Cardinality(OpenUpTo(v)) = Cardinality(OpenUpTo(w)) => v - w <= AisleWidth
  <2>1. \A v, w \in Ys : v - w \in Int /\ AisleWidth \in Int
    BY <1>1, FloorPlanAssumption
  <2> QED
    BY <1>5, <2>1
<1>7. ASSUME NEW v \in Ys, NEW a \in 1..Cardinality(OpenUpTo(v))
      PROVE  \E u \in Ys : Cardinality(OpenUpTo(u)) = a
  <2> DEFINE S == OpenUpTo(v)
  <2>1. S \in SUBSET Int /\ IsFiniteSet(S) /\ Cardinality(S) \in Nat /\ S \in SUBSET Ys
    BY <1>1, <1>2
  <2>2. a - 1 \in 0..Cardinality(S) - 1 /\ a \in Nat
    BY <2>1
  <2>3. PICK u \in S : Cardinality(Below(S, u)) = a - 1
    <3> HIDE DEF S
    <3> QED
      BY <2>1, <2>2, NumbersAreRanked
  <2>4. OpenUpTo(u) = Below(S, u) \cup {u} /\ u \notin Below(S, u)
    <3>1. u \in Opens /\ u <= v /\ u \in Int /\ v \in Int
      BY <1>1 DEF OpenUpTo
    <3>2. \A w \in Int : w <= u <=> (w <= v /\ w < u) \/ w = u
      BY <3>1
    <3>3. \A w \in Opens : w \in Int
      BY <1>1
    <3>4. ~ (u < u)
      BY <3>1
    <3> QED
      BY <3>1, <3>2, <3>3, <3>4 DEF OpenUpTo, Below
  <2>5. IsFiniteSet(Below(S, u))
    <3>1. Below(S, u) \in SUBSET S
      BY DEF Below
    <3> QED
      BY <2>1, <3>1, FS_Subset
  <2>6. Cardinality(OpenUpTo(u)) = Cardinality(Below(S, u)) + 1
    BY <2>4, <2>5, FS_AddElement
  <2> HIDE DEF S
  <2>7. Cardinality(OpenUpTo(u)) = a
    BY <2>2, <2>3, <2>6
  <2> QED
    BY <2>1, <2>7
<1> QED
  BY <1>2, <1>3, <1>4, <1>6, <1>7

LEMMA AislesOfLocations ==
    ASSUME kept \in Seq(RawLocations)
    PROVE  /\ \A i \in DOMAIN kept : Aisle(kept[i]) \in Nat
           /\ \A i, j \in DOMAIN kept :
                 kept[i].at.y <= kept[j].at.y => Aisle(kept[i]) <= Aisle(kept[j])
           /\ \A i, j \in DOMAIN kept :
                 Aisle(kept[i]) = Aisle(kept[j]) => kept[i].at.y - kept[j].at.y <= AisleWidth
           /\ \A i \in DOMAIN kept : \A a \in 1..Aisle(kept[i]) :
                 \E j \in DOMAIN kept : Aisle(kept[j]) = a
<1>1. \A i \in DOMAIN kept : /\ kept[i].at.y \in Ys
                             /\ Aisle(kept[i]) = Cardinality(OpenUpTo(kept[i].at.y))
  BY YsAreFinite DEF Aisle, OpenUpTo
<1>2. \A v \in Ys : \E i \in DOMAIN kept : kept[i].at.y = v
  BY DEF Ys
<1>3. /\ \A i \in DOMAIN kept : Aisle(kept[i]) \in Nat
      /\ \A i, j \in DOMAIN kept :
            kept[i].at.y <= kept[j].at.y => Aisle(kept[i]) <= Aisle(kept[j])
      /\ \A i, j \in DOMAIN kept :
            Aisle(kept[i]) = Aisle(kept[j]) => kept[i].at.y - kept[j].at.y <= AisleWidth
  BY <1>1, AislesOfYs
<1>4. ASSUME NEW i \in DOMAIN kept, NEW a \in 1..Aisle(kept[i])
      PROVE  \E j \in DOMAIN kept : Aisle(kept[j]) = a
  <2>1. PICK u \in Ys : Cardinality(OpenUpTo(u)) = a
    BY <1>1, AislesOfYs
  <2>2. PICK j \in DOMAIN kept : kept[j].at.y = u
    BY <1>2
  <2> QED
    BY <1>1, <2>1, <2>2
<1> QED
  BY <1>3, <1>4

-----------------------------------------------------------------------------
(* Locations are sorted by four numbers.                                   *)
Sorted(p, q) ==
    \/ p[1] < q[1]
    \/ p[1] = q[1] /\ p[2] < q[2]
    \/ p[1] = q[1] /\ p[2] = q[2] /\ p[3] < q[3]
    \/ p[1] = q[1] /\ p[2] = q[2] /\ p[3] = q[3] /\ p[4] < q[4]

SortKey(i) == <<Aisle(kept[i]), kept[i].at.x, kept[i].at.y, i>>

LEMMA SortingIsTotal ==
    /\ \A p \in Int \X Int \X Int \X Int : ~ Sorted(p, p)
    /\ \A p, q \in Int \X Int \X Int \X Int : p[4] # q[4] => Sorted(p, q) \/ Sorted(q, p)
    /\ \A p, q, r \in Int \X Int \X Int \X Int : Sorted(p, q) /\ Sorted(q, r) => Sorted(p, r)
BY DEF Sorted

LEMMA EarlierIsSorted ==
    ASSUME kept \in Seq(RawLocations)
    PROVE  /\ \A i \in DOMAIN kept : SortKey(i) \in Int \X Int \X Int \X Int /\ SortKey(i)[4] = i
           /\ \A i, j \in DOMAIN kept : i \in Earlier(j) <=> Sorted(SortKey(i), SortKey(j))
<1>1. ASSUME NEW i \in DOMAIN kept
      PROVE  /\ Aisle(kept[i]) \in Int /\ kept[i].at.x \in Int /\ kept[i].at.y \in Int /\ i \in Int
             /\ kept[i].at = [x |-> kept[i].at.x, y |-> kept[i].at.y]
  <2>1. kept[i].at \in Point
    BY RawLocationsHaveAPlace
  <2>2. Aisle(kept[i]) \in Int /\ i \in Int
    BY AislesOfLocations
  <2> QED
    BY <2>1, <2>2 DEF Point
<1>2. ASSUME NEW i \in DOMAIN kept, NEW j \in DOMAIN kept
      PROVE  i \in Earlier(j) <=> Sorted(SortKey(i), SortKey(j))
  <2>1. kept[i].at = kept[j].at <=> kept[i].at.x = kept[j].at.x /\ kept[i].at.y = kept[j].at.y
    BY <1>1
  <2>2. ComesBefore(i, j) <=> Sorted(SortKey(i), SortKey(j))
    BY <2>1 DEF ComesBefore, Sorted, SortKey
  <2> QED
    BY <2>2 DEF Earlier
<1>3. \A i \in DOMAIN kept : SortKey(i) \in Int \X Int \X Int \X Int /\ SortKey(i)[4] = i
  BY <1>1 DEF SortKey
<1> QED
  BY <1>2, <1>3

LEMMA EarlierOrders ==
    ASSUME kept \in Seq(RawLocations)
    PROVE  /\ \A i, j \in DOMAIN kept : i # j => i \in Earlier(j) \/ j \in Earlier(i)
           /\ \A i \in DOMAIN kept : i \notin Earlier(i)
           /\ \A i, j \in DOMAIN kept : i \in Earlier(j) => Earlier(i) \in SUBSET Earlier(j)
           /\ \A j \in DOMAIN kept : Earlier(j) \in SUBSET DOMAIN kept
<1>1. \A j \in DOMAIN kept : Earlier(j) \in SUBSET DOMAIN kept
  BY DEF Earlier
<1>2. \A i, j \in DOMAIN kept : i # j => i \in Earlier(j) \/ j \in Earlier(i)
  BY EarlierIsSorted, SortingIsTotal
<1>3. \A i \in DOMAIN kept : i \notin Earlier(i)
  BY EarlierIsSorted, SortingIsTotal
<1>4. ASSUME NEW i \in DOMAIN kept, NEW j \in DOMAIN kept, i \in Earlier(j), NEW h \in Earlier(i)
      PROVE  h \in Earlier(j)
  <2>1. h \in DOMAIN kept
    BY <1>1
  <2>2. Sorted(SortKey(h), SortKey(i)) /\ Sorted(SortKey(i), SortKey(j))
    BY <1>4, <2>1, EarlierIsSorted
  <2>3. Sorted(SortKey(h), SortKey(j))
    BY <2>1, <2>2, EarlierIsSorted, SortingIsTotal
  <2> QED
    BY <2>1, <2>3, EarlierIsSorted
<1> QED
  BY <1>1, <1>2, <1>3, <1>4

LEMMA EarlierRanks ==
    ASSUME kept \in Seq(RawLocations)
    PROVE  /\ \A j \in DOMAIN kept : Cardinality(Earlier(j)) \in 0..Len(kept) - 1
           /\ \A i, j \in DOMAIN kept : Cardinality(Earlier(i)) = Cardinality(Earlier(j)) => i = j
<1> DEFINE before == [j \in DOMAIN kept |-> Earlier(j)]
<1>1. \A j \in DOMAIN kept : before[j] = Earlier(j)
  OBVIOUS
<1>2. before \in [DOMAIN kept -> SUBSET DOMAIN kept]
  BY EarlierOrders
<1> HIDE DEF before
<1>3. Orders(before, DOMAIN kept)
  BY <1>1, <1>2, EarlierOrders DEF Orders
<1>4. Ranks(before, DOMAIN kept) /\ Cardinality(DOMAIN kept) = Len(kept)
  BY <1>3, YsAreFinite, RanksAreOnto
<1> QED
  BY <1>1, <1>4 DEF Ranks

(* The members of an aisle, and those west of one of them.                 *)
Members(a) == {i \in DOMAIN kept : Aisle(kept[i]) = a}

EarlierInAisle(j) == {i \in Earlier(j) : Aisle(kept[i]) = Aisle(kept[j])}

LEMMA BaysCount ==
    ASSUME kept \in Seq(RawLocations), NEW a
    PROVE  /\ \A j \in Members(a) : Bay(j) \in Nat
           /\ \A i, j \in Members(a) : i \in Earlier(j) => Bay(i) < Bay(j)
           /\ \A i, j \in Members(a) : Bay(i) = Bay(j) => i = j
           /\ \A j \in Members(a) : \A b \in 1..Bay(j) : \E i \in Members(a) : Bay(i) = b
<1> DEFINE S == Members(a)
           before == [j \in S |-> EarlierInAisle(j)]
<1>1. S \in SUBSET DOMAIN kept /\ IsFiniteSet(S)
  <2>1. S \in SUBSET DOMAIN kept
    BY DEF Members
  <2> QED
    BY <2>1, YsAreFinite, FS_Subset
<1>2. \A j \in S : before[j] = EarlierInAisle(j)
  OBVIOUS
<1>3. \A i, j \in S : i \in EarlierInAisle(j) <=> i \in Earlier(j)
  BY DEF Members, EarlierInAisle
<1>4. \A j \in S : EarlierInAisle(j) \in SUBSET S
  BY EarlierOrders DEF Members, EarlierInAisle
<1>5. before \in [S -> SUBSET S]
  BY <1>4
<1> HIDE DEF S, before
<1>6. \A i, j \in S : i # j => i \in before[j] \/ j \in before[i]
  BY <1>1, <1>2, <1>3, EarlierOrders
<1>7. \A i \in S : i \notin before[i]
  BY <1>1, <1>2, <1>3, EarlierOrders
<1>8. ASSUME NEW i \in S, NEW j \in S, i \in before[j], NEW h \in before[i]
      PROVE  h \in before[j]
  <2>1. h \in S /\ h \in Earlier(i) /\ i \in Earlier(j) /\ i \in DOMAIN kept /\ j \in DOMAIN kept
    BY <1>1, <1>2, <1>3, <1>4, <1>8
  <2>2. h \in Earlier(j)
    BY <2>1, EarlierOrders
  <2> QED
    BY <1>2, <1>3, <2>1, <2>2
<1>9. Orders(before, S)
  BY <1>5, <1>6, <1>7, <1>8 DEF Orders
<1>10. Ranks(before, S)
  BY <1>1, <1>9, RanksAreOnto
<1>11. \A j \in S : Bay(j) = 1 + Cardinality(before[j])
  BY <1>2 DEF Bay, EarlierInAisle
<1>12. \A j \in S : Cardinality(before[j]) \in 0..Cardinality(S) - 1 /\ Cardinality(S) \in Nat
  BY <1>10 DEF Ranks
<1>13. \A i, j \in S : i \in Earlier(j) => Bay(i) < Bay(j)
  BY <1>2, <1>3, <1>10, <1>11, <1>12 DEF Ranks
<1>14. \A i, j \in S : Bay(i) = Bay(j) => i = j
  BY <1>10, <1>11, <1>12 DEF Ranks
<1>15. ASSUME NEW j \in S, NEW b \in 1..Bay(j)
       PROVE  \E i \in S : Bay(i) = b
  <2>1. b - 1 \in 0..Cardinality(S) - 1 /\ b \in Int
    BY <1>11, <1>12
  <2>2. PICK i \in S : Cardinality(before[i]) = b - 1
    BY <1>10, <2>1 DEF Ranks
  <2> QED
    BY <1>11, <2>1, <2>2
<1> QED
  BY <1>11, <1>12, <1>13, <1>14, <1>15 DEF S

-----------------------------------------------------------------------------
(* Row n of a plan is of location j.                                       *)
IsRowOf(n, j) ==
    /\ Cardinality(Earlier(j)) = n - 1
    /\ plan[n].at = kept[j].at
    /\ plan[n].aisle = Aisle(kept[j])
    /\ plan[n].bay = Bay(j)

(* Rows are listed in the order of the locations, and a plan is ready when *)
(* all are.                                                                *)
PlanIsListed ==
    /\ \E S : plan \in Seq(S)
    /\ pc \in {"read", "merge"} => plan = <<>>
    /\ \A n \in DOMAIN plan : \E j \in DOMAIN kept : IsRowOf(n, j)
    /\ pc = "ready" => Len(plan) = Len(kept)

LEMMA OrderStays ==
    ASSUME kept' = kept
    PROVE  /\ \A j : Earlier(j)' = Earlier(j)
           /\ \A j : Bay(j)' = Bay(j)
           /\ \A j : Aisle(kept[j])' = Aisle(kept[j])
<1>1. Opens' = Opens
  <2>1. Ys' = Ys
    BY DEF Ys
  <2> QED
    BY <2>1 DEF Opens
<1>2. \A j : Aisle(kept[j])' = Aisle(kept[j])
  BY <1>1 DEF Aisle
<1>3. \A i, j : ComesBefore(i, j)' = ComesBefore(i, j)
  BY <1>2 DEF ComesBefore
<1>4. \A j : Earlier(j)' = Earlier(j)
  BY <1>3 DEF Earlier
<1> QED
  BY <1>2, <1>4 DEF Bay

LEMMA ListingStep ==
    ASSUME PlanTypes, PlanIsListed, [FloorPlanNext]_planVars
    PROVE  PlanIsListed'
<1> USE DEF PlanIsListed
<1>1. ASSUME kept' = kept, plan' = plan
      PROVE  \A n \in DOMAIN plan' : \E j \in DOMAIN kept' : IsRowOf(n, j)'
  <2>1. \A n, j : IsRowOf(n, j)' <=> IsRowOf(n, j)
    BY <1>1, OrderStays DEF IsRowOf
  <2> QED
    BY <1>1, <2>1
<1>2. CASE UNCHANGED planVars
  BY <1>1, <1>2 DEF planVars
<1>3. ASSUME NEW e \in Entities, ReadEntity(e)
      PROVE  PlanIsListed'
  BY <1>1, <1>3 DEF ReadEntity
<1>4. CASE EndOfDrawing
  BY <1>1, <1>4 DEF EndOfDrawing
<1>5. CASE Merge
  <2>1. plan' = <<>> /\ pc' = "merge" /\ plan = <<>>
    BY <1>5 DEF Merge
  <2>2. DOMAIN plan' = {}
    BY <2>1
  <2> QED
    BY <2>1, <2>2
<1>6. CASE SortDoors
  BY <1>1, <1>6 DEF SortDoors
<1>7. CASE Numbering
  BY <1>1, <1>7 DEF Numbering
<1>8. CASE NumberLocation
  <2>1. PICK j \in DOMAIN kept : Cardinality(Earlier(j)) = Len(plan) /\ plan' = Append(plan, Numbered(j))
    BY <1>8 DEF NumberLocation
  <2>2. PICK S : plan \in Seq(S)
    OBVIOUS
  <2>3. pc' = "number" /\ kept' = kept
    BY <1>8 DEF NumberLocation
  <2>4. /\ plan' \in Seq(S \cup {Numbered(j)})
        /\ \A k \in DOMAIN plan : plan'[k] = plan[k]
        /\ plan'[Len(plan) + 1] = Numbered(j) /\ DOMAIN plan' = DOMAIN plan \cup {Len(plan) + 1}
        /\ Len(plan) \in Nat
    BY <2>1, <2>2, AppendingAny
  <2>5. ASSUME NEW n \in DOMAIN plan'
        PROVE  \E i \in DOMAIN kept : IsRowOf(n, i)'
    <3>1. CASE n \in DOMAIN plan
      <4>1. PICK i \in DOMAIN kept : IsRowOf(n, i)
        BY <3>1
      <4>2. IsRowOf(n, i)'
        BY <2>3, <2>4, <3>1, <4>1, OrderStays DEF IsRowOf
      <4> QED
        BY <4>2
    <3>2. CASE n = Len(plan) + 1
      <4>1. plan'[n].at = kept[j].at /\ plan'[n].aisle = Aisle(kept[j]) /\ plan'[n].bay = Bay(j)
        BY <2>4, <3>2 DEF Numbered
      <4>2. Cardinality(Earlier(j)) = n - 1
        BY <2>1, <2>4, <3>2
      <4>3. IsRowOf(n, j)'
        BY <2>3, <4>1, <4>2, OrderStays DEF IsRowOf
      <4> QED
        BY <4>3
    <3> QED
      BY <2>4, <3>1, <3>2
  <2>6. \E T : plan' \in Seq(T)
    BY <2>4
  <2> QED
    BY <2>3, <2>5, <2>6
<1> QED
  BY <1>2, <1>3, <1>4, <1>5, <1>6, <1>7, <1>8 DEF FloorPlanNext

(* A plan that is ready lists every location.                              *)
LEMMA ReadyPlanIsWhole ==
    ASSUME PlanTypes, PlanIsListed, pc = "ready"
    PROVE  /\ \A n \in DOMAIN plan : \E j \in DOMAIN kept : IsRowOf(n, j)
           /\ \A j \in DOMAIN kept : \E n \in DOMAIN plan : IsRowOf(n, j)
           /\ \A m, n \in DOMAIN plan : \A j \in DOMAIN kept : IsRowOf(m, j) /\ IsRowOf(n, j) => m = n
<1>1. kept \in Seq(RawLocations) /\ Len(plan) = Len(kept) /\ Len(kept) \in Nat
  BY DEF PlanTypes, PlanIsListed
<1>2. DOMAIN plan = 1..Len(kept)
  BY <1>1 DEF PlanIsListed
<1>3. \A n \in DOMAIN plan : \E j \in DOMAIN kept : IsRowOf(n, j)
  BY DEF PlanIsListed
<1>4. ASSUME NEW j \in DOMAIN kept
      PROVE  \E n \in DOMAIN plan : IsRowOf(n, j)
  <2> DEFINE n == Cardinality(Earlier(j)) + 1
  <2>1. n \in DOMAIN plan /\ Cardinality(Earlier(j)) = n - 1
    BY <1>1, <1>2, EarlierRanks
  <2>2. PICK i \in DOMAIN kept : IsRowOf(n, i)
    BY <1>3, <2>1
  <2>3. i = j
    BY <1>1, <2>1, <2>2, EarlierRanks DEF IsRowOf
  <2> QED
    BY <2>1, <2>2, <2>3
<1>5. \A m, n \in DOMAIN plan : \A j \in DOMAIN kept : IsRowOf(m, j) /\ IsRowOf(n, j) => m = n
  <2>1. \A m, n \in DOMAIN plan : m - 1 = n - 1 => m = n
    BY <1>2
  <2> QED
    BY <2>1 DEF IsRowOf
<1> QED
  BY <1>3, <1>4, <1>5

(* In every drawing, whatever its entities and the width of an aisle: no   *)
(* aisle is wider than that, however many locations lie between, aisles    *)
(* are numbered from south to north and bays from west to east, and no     *)
(* number is left out or given twice (_group_by_tolerance and              *)
(* _build_locations, ingestion/floor_plan_parser.py).                      *)
THEOREM AislesBand == ImportSpec => []AislesAreBands
<1>1. ImportInit => PlanTypes /\ MergedSoFar /\ PlanIsListed
  <2> SUFFICES ASSUME FloorPlanInit
               PROVE  PlanIsListed
    BY MergingInitially DEF ImportInit
  <2>1. plan = <<>> /\ pc = "read"
    BY DEF FloorPlanInit
  <2>2. plan \in Seq({}) /\ DOMAIN plan = {}
    BY <2>1
  <2> QED
    BY <2>1, <2>2 DEF PlanIsListed
<1>2. PlanTypes /\ MergedSoFar /\ PlanIsListed /\ [ImportNext]_<<planVars, dbVars>>
          => (PlanTypes /\ MergedSoFar /\ PlanIsListed)'
  BY MergingStep, ListingStep, ImportReads
<1>3. PlanTypes /\ PlanIsListed => AislesAreBands
  <2> SUFFICES ASSUME PlanTypes, PlanIsListed, pc = "ready"
               PROVE  AislesAreBands
    BY DEF AislesAreBands
  <2>1. kept \in Seq(RawLocations) /\ Len(kept) \in Nat
    BY DEF PlanTypes
  <2>2. \A i \in DOMAIN kept : /\ kept[i].at.x \in Int /\ kept[i].at.y \in Int
                               /\ Aisle(kept[i]) \in Nat /\ i \in Members(Aisle(kept[i]))
    BY <2>1, YsAreFinite, AislesOfLocations DEF Members
  <2>3. ASSUME NEW m \in DOMAIN plan, NEW n \in DOMAIN plan
        PROVE  /\ plan[m].aisle = plan[n].aisle => plan[m].at.y - plan[n].at.y <= AisleWidth
               /\ plan[m].at.y < plan[n].at.y => plan[m].aisle <= plan[n].aisle
               /\ plan[m].aisle = plan[n].aisle /\ plan[m].at.x < plan[n].at.x => plan[m].bay < plan[n].bay
               /\ plan[m].aisle = plan[n].aisle /\ plan[m].bay = plan[n].bay => m = n
    <3>1. PICK i \in DOMAIN kept : IsRowOf(m, i)
      BY ReadyPlanIsWhole
    <3>2. PICK j \in DOMAIN kept : IsRowOf(n, j)
      BY ReadyPlanIsWhole
    <3>3. /\ plan[m].at = kept[i].at /\ plan[m].aisle = Aisle(kept[i]) /\ plan[m].bay = Bay(i)
          /\ plan[n].at = kept[j].at /\ plan[n].aisle = Aisle(kept[j]) /\ plan[n].bay = Bay(j)
      BY <3>1, <3>2 DEF IsRowOf
    <3>4. plan[m].aisle = plan[n].aisle => plan[m].at.y - plan[n].at.y <= AisleWidth
      BY <2>1, <3>3, AislesOfLocations
    <3>5. plan[m].at.y < plan[n].at.y => plan[m].aisle <= plan[n].aisle
      <4>1. kept[i].at.y < kept[j].at.y => kept[i].at.y <= kept[j].at.y
        BY <2>2
      <4> QED
        BY <2>1, <3>3, <4>1, AislesOfLocations
    <3>6. ASSUME Aisle(kept[i]) = Aisle(kept[j]), kept[i].at.x < kept[j].at.x
          PROVE  Bay(i) < Bay(j)
      <4>1. Sorted(SortKey(i), SortKey(j))
        BY <3>6 DEF Sorted, SortKey
      <4>2. i \in Earlier(j)
        BY <2>1, <4>1, EarlierIsSorted
      <4> QED
        BY <2>1, <2>2, <3>6, <4>2, BaysCount
    <3>7. ASSUME Aisle(kept[i]) = Aisle(kept[j]), Bay(i) = Bay(j)
          PROVE  m = n
      <4>1. i = j
        BY <2>1, <2>2, <3>7, BaysCount
      <4> QED
        BY <3>1, <3>2, <4>1, ReadyPlanIsWhole
    <3> QED
      BY <3>3, <3>4, <3>5, <3>6, <3>7
  <2>4. ASSUME NEW n \in DOMAIN plan, NEW a \in 1..plan[n].aisle
        PROVE  \E m \in DOMAIN plan : plan[m].aisle = a
    <3>1. PICK j \in DOMAIN kept : IsRowOf(n, j)
      BY ReadyPlanIsWhole
    <3>2. PICK i \in DOMAIN kept : Aisle(kept[i]) = a
      BY <2>1, <3>1, AislesOfLocations DEF IsRowOf
    <3>3. PICK m \in DOMAIN plan : IsRowOf(m, i)
      BY ReadyPlanIsWhole
    <3> QED
      BY <3>2, <3>3 DEF IsRowOf
  <2>5. ASSUME NEW n \in DOMAIN plan, NEW b \in 1..plan[n].bay
        PROVE  \E m \in DOMAIN plan : plan[m].aisle = plan[n].aisle /\ plan[m].bay = b
    <3>1. PICK j \in DOMAIN kept : IsRowOf(n, j)
      BY ReadyPlanIsWhole
    <3>2. j \in Members(Aisle(kept[j])) /\ b \in 1..Bay(j)
      BY <2>2, <3>1 DEF IsRowOf
    <3>3. PICK i \in Members(Aisle(kept[j])) : Bay(i) = b
      BY <2>1, <3>2, BaysCount
    <3>4. i \in DOMAIN kept /\ Aisle(kept[i]) = Aisle(kept[j])
      BY DEF Members
    <3>5. PICK m \in DOMAIN plan : IsRowOf(m, i)
      BY <3>4, ReadyPlanIsWhole
    <3> QED
      BY <3>1, <3>3, <3>4, <3>5 DEF IsRowOf
  <2> QED
    BY <2>3, <2>4, <2>5 DEF AislesAreBands
<1> QED
  BY <1>1, <1>2, <1>3, PTL DEF ImportSpec

-----------------------------------------------------------------------------
(* A script of CSV files, by what its statements are.                      *)
ScriptIs(s, files, truncate, wrap) ==
    /\ Len(s) \in Nat /\ DOMAIN s = 1..Len(s)
    /\ \A i \in DOMAIN s : s[i].kind \in {"BEGIN", "COMMIT", "TRUNCATE", "INSERT"}
    /\ wrap => Len(s) >= 2 /\ s[1].kind = "BEGIN" /\ s[Len(s)].kind = "COMMIT"
    /\ \A i \in DOMAIN s : s[i].kind = "BEGIN" => wrap /\ i = 1
    /\ \A i \in DOMAIN s : s[i].kind = "COMMIT" => wrap /\ i = Len(s)
    /\ \A i \in DOMAIN s : s[i].kind = "TRUNCATE" => truncate
    /\ truncate => \A t \in Table :
          \E i \in DOMAIN s : s[i].kind = "TRUNCATE" /\ s[i].table = t
    /\ \A i, j \in DOMAIN s : s[i].kind = "TRUNCATE" /\ s[j].kind = "INSERT" => i < j
    /\ \A i \in DOMAIN s : s[i].kind = "INSERT" =>
          s[i].table \in DOMAIN files /\ s[i].rows = files[s[i].table].rows
    /\ \A t \in Table : t \in DOMAIN files /\ files[t].rows # <<>> =>
          \E i \in DOMAIN s : s[i].kind = "INSERT" /\ s[i].table = t

(* What the first statements of a script make of a database.               *)
Spared(s, n, t) == \A i \in 1..n : s[i].kind = "TRUNCATE" => t \notin Cascade(s[i].table)

InsertedRows(s, n, t) ==
    UNION {Elements(s[i].rows) : i \in {j \in 1..n : s[j].kind = "INSERT" /\ s[j].table = t}}

Contents(d, s, n) ==
    [t \in Table |-> (IF Spared(s, n, t) THEN d[t] ELSE {}) \cup InsertedRows(s, n, t)]

LEMMA ContentsAtFirst ==
    ASSUME NEW d, IsDatabase(d), NEW s
    PROVE  Contents(d, s, 0) = d
<1>1. \A t : Spared(s, 0, t) /\ InsertedRows(s, 0, t) = {}
  BY DEF Spared, InsertedRows
<1>2. Contents(d, s, 0) = [t \in Table |-> d[t]]
  BY <1>1 DEF Contents
<1> QED
  BY <1>2 DEF IsDatabase

LEMMA ContentsStay ==
    ASSUME NEW d, NEW s, NEW n \in Nat, s[n + 1].kind \notin {"TRUNCATE", "INSERT"}
    PROVE  Contents(d, s, n + 1) = Contents(d, s, n)
<1>1. 1..n + 1 = (1..n) \cup {n + 1}
  OBVIOUS
<1>2. \A t : Spared(s, n + 1, t) <=> Spared(s, n, t)
  BY <1>1 DEF Spared
<1>3. \A t : {j \in 1..n + 1 : s[j].kind = "INSERT" /\ s[j].table = t}
              = {j \in 1..n : s[j].kind = "INSERT" /\ s[j].table = t}
  BY <1>1
<1>4. \A t : InsertedRows(s, n + 1, t) = InsertedRows(s, n, t)
  BY <1>3 DEF InsertedRows
<1> QED
  BY <1>2, <1>4 DEF Contents

LEMMA ContentsAfter ==
    ASSUME NEW d, NEW s, NEW files, NEW truncate, NEW wrap, ScriptIs(s, files, truncate, wrap),
           NEW n \in Nat, n + 1 \in DOMAIN s, s[n + 1].kind \in {"TRUNCATE", "INSERT"}
    PROVE  Effect(Contents(d, s, n), s[n + 1]) = Contents(d, s, n + 1)
<1> DEFINE st == s[n + 1]
<1>1. 1..n + 1 = (1..n) \cup {n + 1} /\ \A i \in 1..n : i \in DOMAIN s /\ i < n + 1
  BY DEF ScriptIs
<1>2. CASE st.kind = "TRUNCATE"
  <2>1. \A i \in 1..n + 1 : s[i].kind # "INSERT"
    <3> SUFFICES ASSUME NEW i \in 1..n + 1, s[i].kind = "INSERT"
                 PROVE  FALSE
      OBVIOUS
    <3>1. i \in DOMAIN s /\ i <= n + 1
      BY <1>1
    <3>2. n + 1 < i
      BY <1>2, <3>1 DEF ScriptIs
    <3> QED
      BY <3>1, <3>2
  <2>2. \A t : InsertedRows(s, n, t) = {} /\ InsertedRows(s, n + 1, t) = {}
    BY <1>1, <2>1 DEF InsertedRows
  <2>3. \A t : Spared(s, n + 1, t) <=> Spared(s, n, t) /\ t \notin Cascade(st.table)
    BY <1>1, <1>2 DEF Spared
  <2>4. \A t \in Table :
            (IF t \in Cascade(st.table) THEN {} ELSE Contents(d, s, n)[t]) = Contents(d, s, n + 1)[t]
    BY <2>2, <2>3 DEF Contents
  <2>5. Effect(Contents(d, s, n), st)
            = [t \in Table |-> IF t \in Cascade(st.table) THEN {} ELSE Contents(d, s, n)[t]]
    BY <1>2 DEF Effect, Truncated
  <2>6. Contents(d, s, n + 1) = [t \in Table |-> Contents(d, s, n + 1)[t]]
    BY DEF Contents
  <2> QED
    BY <2>4, <2>5, <2>6
<1>3. CASE st.kind = "INSERT"
  <2>1. \A t : Spared(s, n + 1, t) <=> Spared(s, n, t)
    BY <1>1, <1>3 DEF Spared
  <2>2. \A t : InsertedRows(s, n + 1, t)
               = IF t = st.table THEN InsertedRows(s, n, t) \cup Elements(st.rows)
                 ELSE InsertedRows(s, n, t)
    <3> SUFFICES ASSUME NEW t
                 PROVE  InsertedRows(s, n + 1, t)
                          = IF t = st.table THEN InsertedRows(s, n, t) \cup Elements(st.rows)
                            ELSE InsertedRows(s, n, t)
      OBVIOUS
    <3>1. {j \in 1..n + 1 : s[j].kind = "INSERT" /\ s[j].table = t}
          = {j \in 1..n : s[j].kind = "INSERT" /\ s[j].table = t}
            \cup (IF t = st.table THEN {n + 1} ELSE {})
      BY <1>1, <1>3
    <3> QED
      BY <3>1 DEF InsertedRows
  <2>3. Effect(Contents(d, s, n), st)
            = [Contents(d, s, n) EXCEPT ![st.table] = @ \cup Elements(st.rows)]
    BY <1>3 DEF Effect, Inserted
  <2> QED
    BY <2>1, <2>2, <2>3 DEF Contents
<1> QED
  BY <1>2, <1>3

(* All statements make all of the import.                                  *)
LEMMA ContentsAtLast ==
    ASSUME IsDatabase(job.before), NEW s, ScriptIs(s, job.files, job.truncate, job.wrap)
    PROVE  Contents(job.before, s, Len(s)) = Whole
<1> USE DEF ScriptIs
<1>1. \A t \in Table : Spared(s, Len(s), t) <=> ~ job.truncate
  <2>1. \A t : t \in Cascade(t)
    BY DEF Cascade
  <2> QED
    BY <2>1 DEF Spared
<1>2. \A t \in Table : InsertedRows(s, Len(s), t) = RowsOf(t)
  <2> SUFFICES ASSUME NEW t \in Table
               PROVE  InsertedRows(s, Len(s), t) = RowsOf(t)
    OBVIOUS
  <2> DEFINE places == {j \in 1..Len(s) : s[j].kind = "INSERT" /\ s[j].table = t}
  <2>1. \A i \in places : t \in DOMAIN job.files /\ s[i].rows = job.files[t].rows
    OBVIOUS
  <2>2. CASE places = {}
    <3>1. t \in DOMAIN job.files => job.files[t].rows = <<>>
      BY <2>2
    <3>2. RowsOf(t) = {}
      BY <3>1 DEF RowsOf, Elements
    <3> QED
      BY <2>2, <3>2 DEF InsertedRows
  <2>3. CASE places # {}
    <3>1. t \in DOMAIN job.files /\ \A i \in places : Elements(s[i].rows) = RowsOf(t)
      BY <2>1, <2>3 DEF RowsOf, Elements
    <3>2. {Elements(s[i].rows) : i \in places} = {RowsOf(t)}
      BY <2>3, <3>1
    <3> QED
      BY <3>2 DEF InsertedRows
  <2> QED
    BY <2>2, <2>3
<1>3. \A t \in Table : Base[t] = IF job.truncate THEN {} ELSE job.before[t]
  BY DEF Base, Nothing
<1> QED
  BY <1>1, <1>2, <1>3 DEF Contents, Whole

(* The nth of a set of numbers: each is one of them, and they ascend.      *)
LEMMA NthIsOnto ==
    ASSUME NEW S \in SUBSET Nat, IsFiniteSet(S)
    PROVE  /\ Cardinality(S) \in Nat
           /\ \A n \in 1..Cardinality(S) : Nth(S, n) \in S
           /\ \A i \in S : \E n \in 1..Cardinality(S) : Nth(S, n) = i
           /\ \A n, m \in 1..Cardinality(S) : n < m => Nth(S, n) < Nth(S, m)
<1> DEFINE upTo(i) == {j \in S : j <= i}
           rank == [i \in S |-> Cardinality(upTo(i))]
           N == Cardinality(S)
<1>1. N \in Nat
  BY FS_CardinalityType
<1>2. \A i \in S : IsFiniteSet(upTo(i)) /\ rank[i] \in 1..N
  <2> SUFFICES ASSUME NEW i \in S
               PROVE  IsFiniteSet(upTo(i)) /\ Cardinality(upTo(i)) \in 1..N
    OBVIOUS
  <2>1. upTo(i) \in SUBSET S /\ upTo(i) # {}
    OBVIOUS
  <2>2. IsFiniteSet(upTo(i)) /\ Cardinality(upTo(i)) <= N
    BY <2>1, FS_Subset
  <2>3. Cardinality(upTo(i)) \in Nat /\ Cardinality(upTo(i)) # 0
    BY <2>1, <2>2, FS_CardinalityType, FS_EmptySet
  <2> QED
    BY <1>1, <2>2, <2>3
<1>3. ASSUME NEW i \in S, NEW j \in S, i < j
      PROVE  rank[i] # rank[j]
  <2>1. /\ \A k \in S : k \in Nat
        /\ \A k \in S : k <= i => k <= j
    BY <1>3
  <2>2. j \in upTo(j) /\ j \notin upTo(i) /\ upTo(i) \in SUBSET upTo(j)
    <3>1. j <= j /\ ~ (j <= i)
      BY <1>3, <2>1
    <3>2. j \in upTo(j) /\ j \notin upTo(i)
      BY <3>1
    <3>3. upTo(i) \in SUBSET upTo(j)
      BY <2>1
    <3> QED
      BY <3>2, <3>3
  <2>3. IsFiniteSet(upTo(j)) /\ upTo(i) # upTo(j)
    BY <1>2, <2>2
  <2>4. Cardinality(upTo(i)) # Cardinality(upTo(j))
    <3> HIDE DEF upTo
    <3> QED
      BY <2>2, <2>3, FS_Subset
  <2> QED
    BY <2>4
<1>4. \A i, j \in S : i # j => rank[i] # rank[j]
  <2> SUFFICES ASSUME NEW i \in S, NEW j \in S, i # j
               PROVE  rank[i] # rank[j]
    OBVIOUS
  <2>1. i < j \/ j < i
    OBVIOUS
  <2> QED
    BY <1>3, <2>1
<1>5. IsFiniteSet(1..N) /\ Cardinality(1..N) = N
  BY <1>1, FS_Interval
<1>6. rank \in Surjection(S, 1..N)
  <2>1. rank \in Injection(S, 1..N)
    BY <1>2, <1>4 DEF Injection, IsInjective
  <2> QED
    BY <1>5, <2>1, FS_Injection
<1>7. ASSUME NEW n \in 1..N
      PROVE  Nth(S, n) \in S /\ Cardinality(upTo(Nth(S, n))) = n
  <2>1. \E i \in S : rank[i] = n
    BY <1>6 DEF Surjection
  <2>2. \E i \in S : Cardinality({j \in S : j <= i}) = n
    BY <2>1
  <2> QED
    BY <2>2 DEF Nth
<1>8. ASSUME NEW i \in S
      PROVE  rank[i] \in 1..N /\ Nth(S, rank[i]) = i
  <2>1. rank[i] \in 1..N
    BY <1>2
  <2>2. Nth(S, rank[i]) \in S /\ rank[Nth(S, rank[i])] = rank[i]
    BY <1>7, <2>1
  <2> QED
    BY <1>4, <2>1, <2>2
<1>9. ASSUME NEW n \in 1..N, NEW m \in 1..N, n < m
      PROVE  Nth(S, n) < Nth(S, m)
  <2> DEFINE i == Nth(S, n)
             j == Nth(S, m)
  <2>1. /\ i \in S /\ j \in S /\ Cardinality(upTo(i)) = n /\ Cardinality(upTo(j)) = m
        /\ i \in Nat /\ j \in Nat
    BY <1>7
  <2> HIDE DEF i, j
  <2>2. CASE j <= i
    <3>1. upTo(j) \in SUBSET upTo(i)
      <4>1. \A u, v, w \in Nat : u <= v /\ v <= w => u <= w
        OBVIOUS
      <4> QED
        BY <2>1, <2>2, <4>1
    <3>2. IsFiniteSet(upTo(i))
      BY <1>2, <2>1
    <3> HIDE DEF upTo
    <3>3. Cardinality(upTo(j)) <= Cardinality(upTo(i))
      BY <3>1, <3>2, FS_Subset
    <3> QED
      BY <1>1, <1>9, <2>1, <3>3
  <2> QED
    BY <2>1, <2>2 DEF i, j
<1> QED
  BY <1>1, <1>7, <1>8, <1>9

(* The statements of a script, one by one.                                 *)
Offset(wrap) == IF wrap THEN 1 ELSE 0

Emptying(truncate) == IF truncate THEN Len(EmptyOrder) ELSE 0

LEMMA FilledIsFinite ==
    ASSUME NEW files
    PROVE  /\ Filled(files) \in SUBSET Nat /\ IsFiniteSet(Filled(files))
           /\ Filled(files) \in SUBSET DOMAIN FillOrder
<1>1. DOMAIN FillOrder = 1..7
  BY DEF FillOrder
<1>2. Filled(files) \in SUBSET (1..7)
  BY <1>1 DEF Filled
<1>3. IsFiniteSet(1..7)
  <2>1. 1 \in Int /\ 7 \in Int
    OBVIOUS
  <2> QED
    BY <2>1, FS_Interval
<1>4. IsFiniteSet(Filled(files))
  BY <1>2, <1>3, FS_Subset
<1>5. Filled(files) \in SUBSET Nat
  BY <1>2
<1> QED
  BY <1>1, <1>2, <1>4, <1>5

LEMMA ScriptParts ==
    ASSUME NEW files, NEW truncate \in BOOLEAN, NEW wrap \in BOOLEAN,
           NEW s, s = CsvScript(files, truncate, wrap),
           NEW b, b = Offset(wrap), NEW k, k = Emptying(truncate),
           NEW m, m = Cardinality(Filled(files))
    PROVE  /\ m \in Nat /\ Len(s) = b + k + m + b /\ DOMAIN s = 1..Len(s)
           /\ wrap => s[1] = Begin /\ s[Len(s)] = Commit
           /\ \A i \in 1..k : s[b + i] = Truncate(EmptyOrder[i])
           /\ \A i \in 1..m : s[b + k + i] = InsertInto(FillOrder[Nth(Filled(files), i)], files)
<1> DEFINE S == {Begin, Commit} \cup {Truncate(t) : t \in Table} \cup {InsertInto(t, files) : t \in Table}
<1>1. Filled(files) \in SUBSET Nat /\ IsFiniteSet(Filled(files)) /\ Filled(files) \in SUBSET DOMAIN FillOrder
  BY FilledIsFinite
<1>2. m \in Nat /\ \A i \in 1..m : FillOrder[Nth(Filled(files), i)] \in Table
  BY <1>1, NthIsOnto DEF Table, Elements
<1>3. /\ Truncates(truncate) \in Seq(S) /\ Len(Truncates(truncate)) = k /\ k \in Nat
      /\ \A i \in 1..k : Truncates(truncate)[i] = Truncate(EmptyOrder[i])
  <2>1. DOMAIN EmptyOrder = 1..7 /\ Len(EmptyOrder) = 7
    BY DEF EmptyOrder
  <2>2. \A i \in 1..7 : EmptyOrder[i] \in Table
    BY DEF EmptyOrder, FillOrder, Table, Elements
  <2>3. CASE truncate
    <3>1. Truncates(truncate) = [i \in 1..7 |-> Truncate(EmptyOrder[i])]
      BY <2>1, <2>3 DEF Truncates
    <3>2. \A i \in 1..7 : Truncate(EmptyOrder[i]) \in S
      BY <2>2
    <3>3. k = 7
      BY <2>1, <2>3 DEF Emptying
    <3>4. Truncates(truncate) \in [1..7 -> S]
      BY <3>1, <3>2
    <3> HIDE DEF S
    <3> QED
      BY <3>1, <3>3, <3>4
  <2>4. CASE ~ truncate
    <3>1. Truncates(truncate) = <<>> /\ k = 0
      BY <2>4 DEF Truncates, Emptying
    <3> HIDE DEF S
    <3> QED
      BY <3>1
  <2> QED
    BY <2>3, <2>4
<1>4. /\ Inserts(files) \in Seq(S) /\ Len(Inserts(files)) = m
      /\ \A i \in 1..m : Inserts(files)[i] = InsertInto(FillOrder[Nth(Filled(files), i)], files)
  BY <1>2 DEF Inserts
<1> HIDE DEF S
<1> DEFINE body == Truncates(truncate) \o Inserts(files)
<1>5. /\ body \in Seq(S) /\ Len(body) = k + m
      /\ \A i \in 1..k : body[i] = Truncate(EmptyOrder[i])
      /\ \A i \in 1..m : body[k + i] = InsertInto(FillOrder[Nth(Filled(files), i)], files)
  <2>1. /\ body \in Seq(S) /\ Len(body) = k + m
        /\ \A i \in 1..k + m : body[i] = IF i <= k THEN Truncates(truncate)[i] ELSE Inserts(files)[i - k]
    <3>1. /\ body \in Seq(S)
          /\ Len(body) = Len(Truncates(truncate)) + Len(Inserts(files))
          /\ \A i \in 1..Len(Truncates(truncate)) + Len(Inserts(files)) :
                body[i] = IF i <= Len(Truncates(truncate)) THEN Truncates(truncate)[i]
                          ELSE Inserts(files)[i - Len(Truncates(truncate))]
      BY <1>3, <1>4, ConcatProperties
    <3> HIDE DEF body
    <3> QED
      BY <1>3, <1>4, <3>1
  <2> HIDE DEF body
  <2>2. ASSUME NEW i \in 1..k
        PROVE  body[i] = Truncate(EmptyOrder[i])
    <3>1. i \in 1..k + m /\ i <= k
      BY <1>2, <1>3
    <3> QED
      BY <1>3, <2>1, <3>1
  <2>3. ASSUME NEW i \in 1..m
        PROVE  body[k + i] = InsertInto(FillOrder[Nth(Filled(files), i)], files)
    <3>1. k + i \in 1..k + m /\ ~ (k + i <= k) /\ (k + i) - k = i
      BY <1>2, <1>3
    <3>2. body[k + i] = Inserts(files)[i]
      BY <2>1, <3>1
    <3> QED
      BY <1>4, <3>2
  <2> QED
    BY <2>1, <2>2, <2>3
<1> HIDE DEF body
<1>6. CASE wrap
  <2>1. <<Begin>> \in Seq(S) /\ <<Commit>> \in Seq(S)
    BY DEF S
  <2>2. s = (<<Begin>> \o body) \o <<Commit>> /\ b = 1
    BY <1>6 DEF CsvScript, Wrapped, body, Offset
  <2>3. /\ <<Begin>> \o body \in Seq(S) /\ Len(<<Begin>> \o body) = 1 + k + m
        /\ (<<Begin>> \o body)[1] = Begin
        /\ \A i \in 1..k + m : (<<Begin>> \o body)[1 + i] = body[i]
    BY <1>2, <1>3, <1>5, <2>1, ConcatProperties
  <2>4. /\ s \in Seq(S) /\ Len(s) = 1 + k + m + 1
        /\ s[1] = Begin /\ s[Len(s)] = Commit
        /\ \A i \in 1..k + m : s[1 + i] = body[i]
    BY <1>2, <1>3, <2>1, <2>2, <2>3, ConcatProperties
  <2>5. Len(s) = b + k + m + b /\ DOMAIN s = 1..Len(s) /\ s[1] = Begin /\ s[Len(s)] = Commit
    BY <1>2, <1>3, <2>2, <2>4
  <2>6. ASSUME NEW i \in 1..k
        PROVE  s[b + i] = Truncate(EmptyOrder[i])
    <3>1. i \in 1..k + m
      BY <1>2, <1>3
    <3> QED
      BY <1>5, <2>2, <2>4, <3>1
  <2>7. ASSUME NEW i \in 1..m
        PROVE  s[b + k + i] = InsertInto(FillOrder[Nth(Filled(files), i)], files)
    <3>1. k + i \in 1..k + m /\ b + k + i = 1 + (k + i)
      BY <1>2, <1>3, <2>2
    <3> QED
      BY <1>5, <2>4, <3>1
  <2> QED
    BY <1>2, <2>5, <2>6, <2>7
<1>7. CASE ~ wrap
  <2>1. s = body /\ b = 0
    BY <1>7 DEF CsvScript, Wrapped, body, Offset
  <2> QED
    BY <1>2, <1>3, <1>5, <1>7, <2>1
<1> QED
  BY <1>6, <1>7

LEMMA CsvScriptIs ==
    ASSUME NEW files, NEW truncate \in BOOLEAN, NEW wrap \in BOOLEAN
    PROVE  ScriptIs(CsvScript(files, truncate, wrap), files, truncate, wrap)
<1> DEFINE s == CsvScript(files, truncate, wrap)
           b == Offset(wrap)
           k == Emptying(truncate)
           m == Cardinality(Filled(files))
           Nameless(i) == /\ wrap
                          /\ \/ i = 1 /\ s[i].kind = "BEGIN"
                             \/ i = Len(s) /\ s[i].kind = "COMMIT"
           Empties(i) == i \in b + 1..b + k /\ s[i].kind = "TRUNCATE" /\ truncate
           Fills(i) == /\ i \in b + k + 1..b + k + m /\ s[i].kind = "INSERT"
                       /\ s[i].table \in DOMAIN files /\ s[i].rows = files[s[i].table].rows
<1>1. /\ m \in Nat /\ Len(s) = b + k + m + b /\ DOMAIN s = 1..Len(s)
      /\ wrap => s[1] = Begin /\ s[Len(s)] = Commit
      /\ \A i \in 1..k : s[b + i] = Truncate(EmptyOrder[i])
      /\ \A i \in 1..m : s[b + k + i] = InsertInto(FillOrder[Nth(Filled(files), i)], files)
  <2> HIDE DEF s, b, k, m
  <2>1. s = CsvScript(files, truncate, wrap) /\ b = Offset(wrap) /\ k = Emptying(truncate)
        /\ m = Cardinality(Filled(files))
    BY DEF s, b, k, m
  <2> QED
    BY <2>1, ScriptParts
<1>2. b = (IF wrap THEN 1 ELSE 0) /\ k = (IF truncate THEN 7 ELSE 0)
  BY DEF Offset, Emptying, EmptyOrder
<1>3. \A t \in Table : \E i \in 1..7 : EmptyOrder[i] = t
  <2>1. Table = {"locations", "dock_doors", "skus", "inventory_positions", "carrier_appointments",
                 "outbound_orders", "order_lines"}
    <3>1. DOMAIN FillOrder = {1, 2, 3, 4, 5, 6, 7}
      BY DEF FillOrder
    <3>2. /\ FillOrder[1] = "locations" /\ FillOrder[2] = "dock_doors" /\ FillOrder[3] = "skus"
          /\ FillOrder[4] = "inventory_positions" /\ FillOrder[5] = "carrier_appointments"
          /\ FillOrder[6] = "outbound_orders" /\ FillOrder[7] = "order_lines"
      BY DEF FillOrder
    <3> QED
      BY <3>1, <3>2 DEF Table, Elements
  <2>2. /\ EmptyOrder[7] = "locations" /\ EmptyOrder[6] = "dock_doors" /\ EmptyOrder[5] = "skus"
        /\ EmptyOrder[4] = "inventory_positions" /\ EmptyOrder[3] = "carrier_appointments"
        /\ EmptyOrder[2] = "outbound_orders" /\ EmptyOrder[1] = "order_lines"
    BY DEF EmptyOrder
  <2> QED
    BY <2>1, <2>2
<1>4. /\ Filled(files) \in SUBSET Nat /\ IsFiniteSet(Filled(files))
      /\ \A i \in 1..m : Nth(Filled(files), i) \in Filled(files)
      /\ \A i \in Filled(files) : \E n \in 1..m : Nth(Filled(files), n) = i
  <2>1. Filled(files) \in SUBSET Nat /\ IsFiniteSet(Filled(files))
    BY FilledIsFinite
  <2> QED
    BY <2>1, NthIsOnto
<1> HIDE DEF s, b, k, m
<1>5. \A i \in DOMAIN s : Nameless(i) \/ Empties(i) \/ Fills(i)
  <2> SUFFICES ASSUME NEW i \in DOMAIN s
               PROVE  Nameless(i) \/ Empties(i) \/ Fills(i)
    OBVIOUS
  <2>1. i \in 1..Len(s) /\ Len(s) = b + k + m + b
    BY <1>1
  <2>2. CASE wrap /\ (i = 1 \/ i = Len(s))
    BY <1>1, <2>2 DEF Begin, Commit
  <2>3. CASE i \in b + 1..b + k
    <3>1. i - b \in 1..k /\ b + (i - b) = i /\ truncate
      BY <1>2, <2>3
    <3>2. s[i] = Truncate(EmptyOrder[i - b])
      BY <1>1, <3>1
    <3> QED
      BY <2>3, <3>1, <3>2 DEF Truncate
  <2>4. CASE i \in b + k + 1..b + k + m
    <3> DEFINE n == i - b - k
               t == FillOrder[Nth(Filled(files), n)]
    <3>1. n \in 1..m /\ b + k + n = i
      <4>1. m \in Nat /\ b \in Nat /\ k \in Nat
        BY <1>1, <1>2
      <4> QED
        BY <2>4, <4>1
    <3>2. s[i] = InsertInto(t, files)
      BY <1>1, <3>1
    <3>3. t \in DOMAIN files
      BY <1>4, <3>1 DEF Filled
    <3> HIDE DEF t
    <3>4. s[i].kind = "INSERT" /\ s[i].table = t /\ s[i].rows = files[t].rows
      BY <3>2 DEF InsertInto, Insert
    <3> QED
      BY <2>4, <3>3, <3>4
  <2>5. \/ wrap /\ (i = 1 \/ i = Len(s))
        \/ i \in b + 1..b + k
        \/ i \in b + k + 1..b + k + m
    BY <1>1, <1>2, <2>1
  <2> QED
    BY <2>2, <2>3, <2>4, <2>5
<1>6. truncate => \A t \in Table : \E i \in DOMAIN s : s[i].kind = "TRUNCATE" /\ s[i].table = t
  <2> SUFFICES ASSUME truncate, NEW t \in Table
               PROVE  \E i \in DOMAIN s : s[i].kind = "TRUNCATE" /\ s[i].table = t
    OBVIOUS
  <2>1. PICK i \in 1..7 : EmptyOrder[i] = t
    BY <1>3
  <2>2. s[b + i] = Truncate(t) /\ b + i \in DOMAIN s
    BY <1>1, <1>2, <2>1
  <2> QED
    BY <2>2 DEF Truncate
<1>7. \A t \in Table : t \in DOMAIN files /\ files[t].rows # <<>> =>
          \E i \in DOMAIN s : s[i].kind = "INSERT" /\ s[i].table = t
  <2> SUFFICES ASSUME NEW t \in Table, t \in DOMAIN files, files[t].rows # <<>>
               PROVE  \E i \in DOMAIN s : s[i].kind = "INSERT" /\ s[i].table = t
    OBVIOUS
  <2>1. PICK i \in Filled(files) : FillOrder[i] = t
    BY DEF Table, Elements, Filled
  <2>2. PICK n \in 1..m : Nth(Filled(files), n) = i
    BY <1>4
  <2>3. s[b + k + n] = InsertInto(t, files)
    BY <1>1, <2>1, <2>2
  <2>4. b + k + n \in DOMAIN s
    BY <1>1, <1>2
  <2> QED
    BY <2>3, <2>4 DEF InsertInto, Insert
<1>8. Len(s) \in Nat /\ (wrap => Len(s) >= 2)
  BY <1>1, <1>2
<1>9. \A i, j \in DOMAIN s : s[i].kind = "TRUNCATE" /\ s[j].kind = "INSERT" => i < j
  <2> SUFFICES ASSUME NEW i \in DOMAIN s, NEW j \in DOMAIN s, s[i].kind = "TRUNCATE", s[j].kind = "INSERT"
               PROVE  i < j
    OBVIOUS
  <2>1. i \in b + 1..b + k /\ j \in b + k + 1..b + k + m
    BY <1>5
  <2> QED
    BY <1>1, <1>2, <2>1
<1>10. /\ \A i \in DOMAIN s : s[i].kind \in {"BEGIN", "COMMIT", "TRUNCATE", "INSERT"}
       /\ \A i \in DOMAIN s : s[i].kind = "BEGIN" => wrap /\ i = 1
       /\ \A i \in DOMAIN s : s[i].kind = "COMMIT" => wrap /\ i = Len(s)
       /\ \A i \in DOMAIN s : s[i].kind = "TRUNCATE" => truncate
       /\ \A i \in DOMAIN s : s[i].kind = "INSERT" =>
             s[i].table \in DOMAIN files /\ s[i].rows = files[s[i].table].rows
  BY <1>5
<1>11. wrap => s[1].kind = "BEGIN" /\ s[Len(s)].kind = "COMMIT"
  BY <1>1 DEF Begin, Commit
<1>12. ScriptIs(s, files, truncate, wrap)
  BY <1>1, <1>6, <1>7, <1>8, <1>9, <1>10, <1>11 DEF ScriptIs
<1> QED
  BY <1>12 DEF s

-----------------------------------------------------------------------------
(* Where an import in a transaction stands: the open transaction has seen  *)
(* what the statements executed so far make of the database before, and    *)
(* nobody else has; or it is over.                                         *)
Underway ==
    /\ ScriptIs(script, job.files, job.truncate, job.wrap)
    /\ at \in 0..Len(script)
    /\ \/ /\ tx = "open" /\ errors = 0 /\ db = job.before
          /\ work = Contents(job.before, script, at)
       \/ tx = "aborted" /\ errors > 0 /\ at > 0 /\ db = job.before
       \/ tx = "none" /\ errors = 0 /\ at = 0 /\ job.wrap /\ work = db /\ db = job.before
       \/ tx = "none" /\ at = Len(script)

TransactionHolds ==
    /\ IsDatabase(job.before)
    /\ errors \in Nat /\ at \in Nat
    /\ db = job.before \/ (db = Whole /\ at = Len(script) /\ errors = 0)
    /\ outcome = "running" => Underway

Tables == IsDatabase(db) /\ IsDatabase(work)

AtomicInvariant == Tables /\ (AllOrNothing => TransactionHolds)

LEMMA EffectIsDatabase ==
    ASSUME NEW d, IsDatabase(d), NEW st
    PROVE  IsDatabase(Effect(d, st))
<1>1. IsDatabase(Truncated(d, st.table))
  BY DEF IsDatabase, Truncated
<1>2. IsDatabase(Inserted(d, st))
  BY DEF IsDatabase, Inserted
<1> QED
  BY <1>1, <1>2 DEF Effect

LEMMA TablesStep == Tables /\ [ImportNext]_<<planVars, dbVars>> => Tables'
<1> SUFFICES ASSUME Tables, [ImportNext]_<<planVars, dbVars>>
             PROVE  Tables'
  OBVIOUS
<1> USE DEF Tables
<1>1. IsDatabase(Effect(work, script[at + 1]))
  BY EffectIsDatabase
<1>2. CASE UNCHANGED <<planVars, dbVars>>
  BY <1>2 DEF dbVars, IsDatabase
<1>3. CASE ReadDrawing
  BY <1>3 DEF ReadDrawing, dbVars, IsDatabase
<1>4. ASSUME NEW j, NEW s, NEW st, Start(j, s, st)
      PROVE  Tables'
  BY <1>4 DEF Start, IsDatabase
<1>5. ASSUME NEW files, NEW truncate, NEW wrap, NEW applied, ImportCsv(files, truncate, wrap, applied)
      PROVE  Tables'
  BY <1>4, <1>5 DEF ImportCsv
<1>6. ASSUME NEW truncate, ImportPlan(truncate)
      PROVE  Tables'
  BY <1>4, <1>6 DEF ImportPlan
<1>7. CASE BeginTransaction
  BY <1>7 DEF BeginTransaction, IsDatabase
<1>8. CASE CommitTransaction
  BY <1>8 DEF CommitTransaction, IsDatabase
<1>9. CASE StatementSucceeds
  BY <1>1, <1>9 DEF StatementSucceeds, IsDatabase
<1>10. CASE StatementFails
  BY <1>10 DEF StatementFails, IsDatabase
<1>11. CASE ApplyFails \/ ConnectionLost
  BY <1>11 DEF ApplyFails, ConnectionLost, Abort, IsDatabase
<1>12. CASE Finish
  BY <1>12 DEF Finish, IsDatabase
<1> QED
  BY <1>2, <1>3, <1>5, <1>6, <1>7, <1>8, <1>9, <1>10, <1>11, <1>12 DEF ImportNext

LEMMA AtomicBegins ==
    ASSUME Tables, NEW files, NEW truncate \in BOOLEAN, NEW wrap \in BOOLEAN, NEW applied \in BOOLEAN,
           ImportCsv(files, truncate, wrap, applied), AllOrNothing'
    PROVE  TransactionHolds'
<1> DEFINE j == [by |-> "csv", files |-> files, truncate |-> truncate, wrap |-> wrap,
                 applied |-> applied, before |-> db]
<1>1. CASE Readable(files) /\ files # <<>>
  <2>1. Start(j, CsvScript(files, truncate, wrap), "running")
    BY <1>1 DEF ImportCsv
  <2>2. /\ job' = j /\ script' = CsvScript(files, truncate, wrap) /\ at' = 0 /\ errors' = 0
        /\ work' = db /\ db' = db /\ tx' = IF applied THEN "open" ELSE "none"
    BY <2>1 DEF Start
  <2>3. /\ job'.files = files /\ job'.truncate = truncate /\ job'.wrap = wrap
        /\ job'.applied = applied /\ job'.before = db
    BY <2>2
  <2>4. ScriptIs(script', job'.files, job'.truncate, job'.wrap)
    BY <2>2, <2>3, CsvScriptIs
  <2>5. 0 \in 0..Len(script')
    BY <2>4 DEF ScriptIs
  <2>6. work' = Contents(job'.before, script', at')
    BY <2>2, <2>3, ContentsAtFirst DEF Tables
  <2>7. wrap \/ applied
    BY <2>3 DEF AllOrNothing
  <2>8. Underway'
    BY <2>2, <2>3, <2>4, <2>5, <2>6, <2>7 DEF Underway
  <2>9. IsDatabase(job'.before)
    BY <2>3 DEF Tables
  <2> QED
    BY <2>2, <2>3, <2>8, <2>9 DEF TransactionHolds
<1>2. CASE ~ (Readable(files) /\ files # <<>>)
  <2>1. Start([j EXCEPT !.applied = FALSE], <<>>, "failed")
    BY <1>2 DEF ImportCsv
  <2>2. job'.before = db /\ db' = db /\ at' = 0 /\ errors' = 0 /\ outcome' = "failed"
    BY <2>1 DEF Start
  <2>3. IsDatabase(job'.before)
    BY <2>2 DEF Tables
  <2> QED
    BY <2>2, <2>3 DEF TransactionHolds
<1> QED
  BY <1>1, <1>2

(* A statement of an import in a transaction.                              *)
LEMMA AtomicAdvances ==
    ASSUME Tables, TransactionHolds, AllOrNothing,
           BeginTransaction \/ CommitTransaction \/ StatementSucceeds \/ StatementFails
    PROVE  TransactionHolds'
<1> DEFINE st == script[at + 1]
<1>1. /\ outcome = "running" /\ outcome' = "running" /\ job' = job /\ script' = script
      /\ at' = at + 1 /\ at \in Nat /\ at < Len(script)
  BY DEF BeginTransaction, CommitTransaction, StatementSucceeds, StatementFails, Running, Advance,
         TransactionHolds
<1>2. Underway /\ IsDatabase(job.before) /\ errors \in Nat /\ db = job.before
  BY <1>1 DEF TransactionHolds
<1>3. /\ ScriptIs(script, job.files, job.truncate, job.wrap)
      /\ Len(script) \in Nat /\ at + 1 \in DOMAIN script /\ at' \in 0..Len(script) /\ at' \in Nat /\ at' > 0
  <2>1. ScriptIs(script, job.files, job.truncate, job.wrap)
    BY <1>2 DEF Underway
  <2>2. Len(script) \in Nat /\ DOMAIN script = 1..Len(script)
    BY <2>1 DEF ScriptIs
  <2>3. at + 1 \in 1..Len(script) /\ at' \in 0..Len(script) /\ at' \in Nat /\ at' > 0
    BY <1>1, <2>2
  <2> QED
    BY <2>1, <2>2, <2>3
<1>4. \/ tx = "open" /\ errors = 0 /\ work = Contents(job.before, script, at)
      \/ tx = "aborted" /\ errors > 0 /\ at > 0
      \/ /\ tx = "none" /\ errors = 0 /\ at = 0 /\ st.kind = "BEGIN"
         /\ work = Contents(job.before, script, at)
  <2>1. CASE tx = "none" /\ errors = 0 /\ at = 0 /\ job.wrap /\ work = db
    <3>1. st.kind = "BEGIN"
      BY <1>3, <2>1 DEF ScriptIs
    <3>2. work = Contents(job.before, script, at)
      BY <1>2, <2>1, ContentsAtFirst
    <3> QED
      BY <2>1, <3>1, <3>2
  <2> QED
    BY <1>1, <1>2, <2>1 DEF Underway
<1>5. ScriptIs(script', job'.files, job'.truncate, job'.wrap) /\ IsDatabase(job'.before)
  BY <1>1, <1>2, <1>3
<1>6. CASE BeginTransaction
  <2>1. st.kind = "BEGIN" /\ tx' = "open" /\ db' = db /\ work' = work /\ errors' = errors
    BY <1>6 DEF BeginTransaction, Running
  <2>2. at = 0
    BY <1>1, <1>3, <2>1 DEF ScriptIs
  <2>3. Contents(job.before, script, at + 1) = Contents(job.before, script, at)
    BY <1>1, <2>1, ContentsStay
  <2>4. errors = 0 /\ work' = Contents(job'.before, script', at')
    BY <1>1, <1>4, <2>1, <2>2, <2>3
  <2>5. Underway'
    BY <1>1, <1>2, <1>3, <1>5, <2>1, <2>4 DEF Underway
  <2> QED
    BY <1>1, <1>2, <1>3, <1>5, <2>1, <2>5 DEF TransactionHolds
<1>7. CASE CommitTransaction
  <2>1. st.kind = "COMMIT" /\ db' = (IF tx = "open" THEN work ELSE db) /\ tx' = "none" /\ errors' = errors
    BY <1>7 DEF CommitTransaction, Running
  <2>2. at' = Len(script')
    BY <1>1, <1>3, <2>1 DEF ScriptIs
  <2>3. Underway'
    BY <1>1, <1>3, <1>5, <2>1, <2>2 DEF Underway
  <2>4. CASE tx = "open"
    <3>1. Contents(job.before, script, at + 1) = Contents(job.before, script, at)
      BY <1>1, <2>1, ContentsStay
    <3>2. Contents(job.before, script, Len(script)) = Whole
      BY <1>2, <1>3, ContentsAtLast
    <3>3. db' = Whole
      BY <1>1, <1>4, <2>1, <2>2, <2>4, <3>1, <3>2
    <3>4. Whole' = Whole
      BY <1>1 DEF Whole, Base, RowsOf
    <3> QED
      BY <1>1, <1>3, <1>4, <1>5, <2>1, <2>2, <2>3, <2>4, <3>3, <3>4 DEF TransactionHolds
  <2>5. CASE tx # "open"
    BY <1>1, <1>2, <1>3, <1>5, <2>1, <2>3, <2>5 DEF TransactionHolds
  <2> QED
    BY <2>4, <2>5
<1>8. CASE StatementSucceeds
  <2>1. /\ st.kind \in {"TRUNCATE", "INSERT"} /\ tx # "aborted" /\ work' = Effect(work, st)
        /\ db' = (IF tx = "none" THEN work' ELSE db) /\ tx' = tx /\ errors' = errors
    BY <1>8 DEF StatementSucceeds, Running
  <2>2. tx = "open" /\ errors = 0 /\ work = Contents(job.before, script, at)
    BY <1>4, <2>1
  <2>3. Effect(Contents(job.before, script, at), st) = Contents(job.before, script, at + 1)
    BY <1>1, <1>3, <2>1, ContentsAfter
  <2>4. work' = Contents(job'.before, script', at')
    BY <1>1, <2>1, <2>2, <2>3
  <2>5. Underway'
    BY <1>1, <1>2, <1>3, <1>5, <2>1, <2>2, <2>4 DEF Underway
  <2> QED
    BY <1>1, <1>2, <1>3, <1>5, <2>1, <2>2, <2>5 DEF TransactionHolds
<1>9. CASE StatementFails
  <2>1. /\ st.kind \in {"TRUNCATE", "INSERT"} /\ tx' = (IF tx = "none" THEN "none" ELSE "aborted")
        /\ errors' = errors + 1 /\ db' = db
    BY <1>9 DEF StatementFails, Running
  <2>2. tx' = "aborted" /\ errors' \in Nat /\ errors' > 0
    BY <1>2, <1>4, <2>1
  <2>3. Underway'
    BY <1>1, <1>2, <1>3, <1>5, <2>1, <2>2 DEF Underway
  <2> QED
    BY <1>1, <1>2, <1>3, <1>5, <2>1, <2>2, <2>3 DEF TransactionHolds
<1> QED
  BY <1>6, <1>7, <1>8, <1>9

(* Its end.                                                                *)
LEMMA AtomicEnds ==
    ASSUME TransactionHolds, Finish
    PROVE  TransactionHolds'
<1>1. /\ outcome = "running" /\ at = Len(script) /\ outcome' \in {"done", "failed"}
      /\ db' = (IF tx = "open" THEN work ELSE db)
      /\ job' = job /\ script' = script /\ at' = at /\ errors' = errors
  BY DEF Finish
<1>2. Underway /\ IsDatabase(job.before) /\ errors \in Nat /\ at \in Nat
  BY <1>1 DEF TransactionHolds
<1>3. Whole' = Whole
  BY <1>1 DEF Whole, Base, RowsOf
<1>4. CASE tx = "open"
  <2>1. errors = 0 /\ work = Contents(job.before, script, Len(script))
    BY <1>1, <1>2, <1>4 DEF Underway
  <2>2. Contents(job.before, script, Len(script)) = Whole
    BY <1>2, ContentsAtLast DEF Underway
  <2> QED
    BY <1>1, <1>2, <1>3, <1>4, <2>1, <2>2 DEF TransactionHolds
<1>5. CASE tx # "open"
  BY <1>1, <1>2, <1>3, <1>5 DEF TransactionHolds
<1> QED
  BY <1>4, <1>5

LEMMA AtomicStep == AtomicInvariant /\ [ImportNext]_<<planVars, dbVars>> => AtomicInvariant'
<1> SUFFICES ASSUME AtomicInvariant, [ImportNext]_<<planVars, dbVars>>, AllOrNothing'
             PROVE  TransactionHolds'
  BY TablesStep DEF AtomicInvariant
<1>1. Tables
  BY DEF AtomicInvariant
<1>2. ASSUME UNCHANGED dbVars
      PROVE  TransactionHolds'
  <2>1. AllOrNothing /\ TransactionHolds
    BY <1>2 DEF dbVars, AllOrNothing, AtomicInvariant
  <2>2. (Whole' = Whole) /\ (Underway' = Underway)
    BY <1>2 DEF dbVars, Whole, Base, RowsOf, Underway
  <2> QED
    BY <1>2, <2>1, <2>2 DEF dbVars, TransactionHolds
<1>3. CASE ReadDrawing
  BY <1>2, <1>3 DEF ReadDrawing
<1>4. ASSUME NEW files \in Directories, NEW truncate \in BOOLEAN, NEW wrap \in BOOLEAN,
             NEW applied \in BOOLEAN, ImportCsv(files, truncate, wrap, applied)
      PROVE  TransactionHolds'
  BY <1>1, <1>4, AtomicBegins
<1>5. ASSUME NEW truncate \in BOOLEAN, ImportPlan(truncate)
      PROVE  FALSE
  <2>1. job'.by = "plan"
    BY <1>5 DEF ImportPlan, Start
  <2> QED
    BY <2>1 DEF AllOrNothing
<1>6. CASE BeginTransaction \/ CommitTransaction \/ StatementSucceeds \/ StatementFails
  <2>1. job' = job
    BY <1>6 DEF BeginTransaction, CommitTransaction, StatementSucceeds, StatementFails, Advance
  <2>2. AllOrNothing /\ TransactionHolds
    BY <2>1 DEF AllOrNothing, AtomicInvariant
  <2> QED
    BY <1>1, <1>6, <2>2, AtomicAdvances
<1>7. CASE ApplyFails \/ ConnectionLost
  <2>1. /\ outcome' = "failed" /\ job' = job /\ db' = db /\ script' = script /\ at' = at
        /\ errors' = errors \/ (errors' = errors + 1 /\ at < Len(script))
    BY <1>7 DEF ApplyFails, ConnectionLost, Abort, Running
  <2>2. AllOrNothing /\ TransactionHolds
    BY <2>1 DEF AllOrNothing, AtomicInvariant
  <2>3. Whole' = Whole
    BY <2>1 DEF Whole, Base, RowsOf
  <2>4. IsDatabase(job'.before) /\ errors' \in Nat /\ at' \in Nat
    BY <2>1, <2>2 DEF TransactionHolds
  <2>5. db' = job'.before \/ (db' = Whole' /\ at' = Len(script') /\ errors' = 0)
    <3>1. at < Len(script) => at # Len(script)
      BY <2>2 DEF TransactionHolds
    <3> QED
      BY <2>1, <2>2, <2>3, <3>1 DEF TransactionHolds
  <2> QED
    BY <2>1, <2>4, <2>5 DEF TransactionHolds
<1>8. CASE Finish
  <2>1. AllOrNothing /\ TransactionHolds
    BY <1>8 DEF Finish, AllOrNothing, AtomicInvariant
  <2> QED
    BY <1>8, <2>1, AtomicEnds
<1>9. CASE UNCHANGED <<planVars, dbVars>>
  BY <1>2, <1>9
<1> QED
  BY <1>3, <1>4, <1>5, <1>6, <1>7, <1>8, <1>9 DEF ImportNext

(* "a failed INSERT mid-import rolls back cleanly": for every database,    *)
(* every directory of files and however many rows they have, an import in  *)
(* a transaction that runs, fails or loses its connection at any statement *)
(* leaves what was there before it or all of it, in whichever order the    *)
(* tables are emptied and filled (ingestion/csv_loader.py).                *)
THEOREM ImportsAreAtomic == ImportSpec => []ImportIsAtomic
<1>1. ImportInit => AtomicInvariant
  <2> SUFFICES ASSUME ImportInit
               PROVE  Tables /\ ~ AllOrNothing
    BY DEF AtomicInvariant
  <2>1. Tables
    BY ImportAssumption DEF ImportInit, Tables
  <2>2. ~ AllOrNothing
    BY DEF ImportInit, NoJob, AllOrNothing
  <2> QED
    BY <2>1, <2>2
<1>2. AtomicInvariant => ImportIsAtomic
  <2> SUFFICES ASSUME TransactionHolds
               PROVE  /\ db \in {job.before, Whole}
                      /\ outcome = "failed" /\ at < Len(script) => db = job.before
                      /\ errors > 0 => db = job.before
    BY DEF AtomicInvariant, ImportIsAtomic
  <2> QED
    BY DEF TransactionHolds
<1> QED
  BY <1>1, <1>2, AtomicStep, PTL DEF ImportSpec

-----------------------------------------------------------------------------
(* What makes files fit that fit each other: of each table one statement,  *)
(* after those of the tables it refers to.                                 *)
FillsInOrder(s, files) ==
    /\ \A i \in DOMAIN s : s[i].kind = "INSERT" =>
          s[i].table \in Table /\ s[i].column = KeyColumn(s[i].table)
    /\ \A i, j \in DOMAIN s :
          s[i].kind = "INSERT" /\ s[j].kind = "INSERT" /\ s[i].table = s[j].table => i = j
    /\ \A j \in DOMAIN s : s[j].kind = "INSERT" =>
          \A p \in Parents(s[j].table) :
              p \in DOMAIN files /\ files[p].rows # <<>> =>
                  \E i \in DOMAIN s : i < j /\ s[i].kind = "INSERT" /\ s[i].table = p

LEMMA ParentsComeFirst ==
    /\ DOMAIN FillOrder = 1..7
    /\ \A i, j \in 1..7 : FillOrder[i] = FillOrder[j] => i = j
    /\ \A j \in 1..7 : \A p \in Parents(FillOrder[j]) : \E i \in 1..7 : i < j /\ FillOrder[i] = p
<1>1. DOMAIN FillOrder = 1..7
  BY DEF FillOrder
<1>2. /\ FillOrder[1] = "locations" /\ FillOrder[2] = "dock_doors" /\ FillOrder[3] = "skus"
      /\ FillOrder[4] = "inventory_positions" /\ FillOrder[5] = "carrier_appointments"
      /\ FillOrder[6] = "outbound_orders" /\ FillOrder[7] = "order_lines"
  BY DEF FillOrder
<1>3. \A i \in 1..7 : i = 1 \/ i = 2 \/ i = 3 \/ i = 4 \/ i = 5 \/ i = 6 \/ i = 7
  OBVIOUS
<1>4. \A i, j \in 1..7 : FillOrder[i] = FillOrder[j] => i = j
  BY <1>2, <1>3
<1>5. /\ Parents("locations") = {} /\ Parents("dock_doors") = {} /\ Parents("skus") = {}
      /\ Parents("inventory_positions") = {"skus", "locations"}
      /\ Parents("carrier_appointments") = {}
      /\ Parents("outbound_orders") = {"carrier_appointments"}
      /\ Parents("order_lines") = {"outbound_orders", "skus"}
  BY DEF Parents
<1>6. ASSUME NEW j \in 1..7, NEW p \in Parents(FillOrder[j])
      PROVE  \E i \in 1..7 : i < j /\ FillOrder[i] = p
  <2>1. CASE j = 4
    <3>1. p = FillOrder[3] \/ p = FillOrder[1]
      BY <1>2, <1>5, <1>6, <2>1
    <3>2. 3 \in 1..7 /\ 1 \in 1..7 /\ 3 < j /\ 1 < j
      BY <2>1
    <3> QED
      BY <3>1, <3>2
  <2>2. CASE j = 6
    <3>1. p = FillOrder[5]
      BY <1>2, <1>5, <1>6, <2>2
    <3>2. 5 \in 1..7 /\ 5 < j
      BY <2>2
    <3> QED
      BY <3>1, <3>2
  <2>3. CASE j = 7
    <3>1. p = FillOrder[6] \/ p = FillOrder[3]
      BY <1>2, <1>5, <1>6, <2>3
    <3>2. 6 \in 1..7 /\ 3 \in 1..7 /\ 6 < j /\ 3 < j
      BY <2>3
    <3> QED
      BY <3>1, <3>2
  <2>4. CASE j \in {1, 2, 3, 5}
    BY <1>2, <1>5, <1>6, <2>4
  <2> QED
    BY <1>3, <2>1, <2>2, <2>3, <2>4
<1> QED
  BY <1>1, <1>4, <1>6

LEMMA CsvScriptFills ==
    ASSUME NEW files, NEW truncate \in BOOLEAN, NEW wrap \in BOOLEAN
    PROVE  FillsInOrder(CsvScript(files, truncate, wrap), files)
<1> DEFINE s == CsvScript(files, truncate, wrap)
           b == Offset(wrap)
           k == Emptying(truncate)
           m == Cardinality(Filled(files))
           table(n) == FillOrder[Nth(Filled(files), n)]
<1>1. /\ m \in Nat /\ Len(s) = b + k + m + b /\ DOMAIN s = 1..Len(s)
      /\ wrap => s[1] = Begin /\ s[Len(s)] = Commit
      /\ \A i \in 1..k : s[b + i] = Truncate(EmptyOrder[i])
      /\ \A i \in 1..m : s[b + k + i] = InsertInto(table(i), files)
  <2> HIDE DEF s, b, k, m
  <2>1. s = CsvScript(files, truncate, wrap) /\ b = Offset(wrap) /\ k = Emptying(truncate)
        /\ m = Cardinality(Filled(files))
    BY DEF s, b, k, m
  <2> QED
    BY <2>1, ScriptParts
<1>2. b = (IF wrap THEN 1 ELSE 0) /\ k = (IF truncate THEN 7 ELSE 0)
  BY DEF Offset, Emptying, EmptyOrder
<1>3. /\ \A n \in 1..m : Nth(Filled(files), n) \in 1..7
      /\ \A n, o \in 1..m : n < o => Nth(Filled(files), n) < Nth(Filled(files), o)
      /\ \A i \in Filled(files) : \E n \in 1..m : Nth(Filled(files), n) = i
  <2>1. Filled(files) \in SUBSET Nat /\ IsFiniteSet(Filled(files)) /\ Filled(files) \in SUBSET (1..7)
    BY FilledIsFinite, ParentsComeFirst
  <2> QED
    BY <2>1, NthIsOnto
<1> HIDE DEF s, b, k, m
<1>4. ASSUME NEW i \in DOMAIN s, s[i].kind = "INSERT"
      PROVE  \E n \in 1..m : i = b + k + n /\ s[i] = InsertInto(table(n), files)
  <2>1. i \in 1..Len(s) /\ Len(s) = b + k + m + b
    BY <1>1
  <2>2. ~ (wrap /\ (i = 1 \/ i = Len(s)))
    BY <1>1, <1>4 DEF Begin, Commit
  <2>3. i \notin b + 1..b + k
    <3> SUFFICES ASSUME i \in b + 1..b + k
                 PROVE  FALSE
      OBVIOUS
    <3>1. i - b \in 1..k /\ b + (i - b) = i
      BY <1>2
    <3>2. s[i] = Truncate(EmptyOrder[i - b])
      BY <1>1, <3>1
    <3> QED
      BY <1>4, <3>2 DEF Truncate
  <2>4. i - b - k \in 1..m /\ b + k + (i - b - k) = i
    <3>1. i \in Nat /\ b \in Nat /\ k \in Nat /\ m \in Nat
      BY <1>1, <1>2, <2>1
    <3>2. i >= 1 /\ i <= b + k + m + b
      BY <2>1
    <3>3. i > b + k
      <4>1. i >= b + 1
        BY <1>2, <2>2, <3>1, <3>2
      <4> QED
        BY <2>3, <3>1, <4>1
    <3>4. i <= b + k + m
      BY <1>2, <2>1, <2>2, <3>1, <3>2
    <3> QED
      BY <3>1, <3>3, <3>4
  <2> HIDE DEF table
  <2> QED
    BY <1>1, <2>4
<1>5. \A n \in 1..m : /\ b + k + n \in DOMAIN s
                      /\ s[b + k + n].kind = "INSERT" /\ s[b + k + n].table = table(n)
  <2> HIDE DEF table
  <2>1. \A n \in 1..m : b + k + n \in 1..Len(s)
    BY <1>1, <1>2
  <2>2. \A u : InsertInto(u, files).kind = "INSERT" /\ InsertInto(u, files).table = u
    BY DEF InsertInto, Insert
  <2>3. /\ \A n \in 1..m : s[b + k + n] = InsertInto(table(n), files)
        /\ DOMAIN s = 1..Len(s)
    BY <1>1
  <2> QED
    BY <2>1, <2>2, <2>3
<1>6. \A n \in 1..m : table(n) \in Table
  BY <1>3, ParentsComeFirst DEF Table, Elements
<1>7. ASSUME NEW n \in 1..m, NEW o \in 1..m, table(n) = table(o)
      PROVE  n = o
  <2>1. Nth(Filled(files), n) = Nth(Filled(files), o)
    BY <1>3, <1>7, ParentsComeFirst
  <2>2. n \in Nat /\ o \in Nat /\ Nth(Filled(files), n) \in 1..7
    BY <1>1, <1>3
  <2> QED
    BY <1>3, <2>1, <2>2
<1>8. ASSUME NEW n \in 1..m, NEW p \in Parents(table(n)), p \in DOMAIN files, files[p].rows # <<>>
      PROVE  \E o \in 1..m : o < n /\ table(o) = p
  <2> DEFINE j == Nth(Filled(files), n)
  <2>1. j \in 1..7
    BY <1>3
  <2>2. PICK i \in 1..7 : i < j /\ FillOrder[i] = p
    BY <1>8, <2>1, ParentsComeFirst
  <2>3. i \in Filled(files)
    BY <1>8, <2>2, ParentsComeFirst DEF Filled
  <2>4. PICK o \in 1..m : Nth(Filled(files), o) = i
    BY <1>3, <2>3
  <2>5. o < n
    <3>1. o # n /\ ~ (n < o)
      BY <1>3, <2>1, <2>2, <2>4
    <3> QED
      BY <1>1, <3>1
  <2> QED
    BY <2>2, <2>4, <2>5
<1> HIDE DEF table
<1>9. \A i \in DOMAIN s : s[i].kind = "INSERT" =>
          s[i].table \in Table /\ s[i].column = KeyColumn(s[i].table)
  BY <1>4, <1>6 DEF InsertInto, Insert
<1>10. \A i, j \in DOMAIN s :
          s[i].kind = "INSERT" /\ s[j].kind = "INSERT" /\ s[i].table = s[j].table => i = j
  <2> SUFFICES ASSUME NEW i \in DOMAIN s, NEW j \in DOMAIN s,
                      s[i].kind = "INSERT", s[j].kind = "INSERT", s[i].table = s[j].table
               PROVE  i = j
    OBVIOUS
  <2>1. PICK n \in 1..m : i = b + k + n
    BY <1>4
  <2>2. PICK o \in 1..m : j = b + k + o
    BY <1>4
  <2> QED
    BY <1>5, <1>7, <2>1, <2>2
<1>11. ASSUME NEW j \in DOMAIN s, s[j].kind = "INSERT", NEW p \in Parents(s[j].table),
              p \in DOMAIN files, files[p].rows # <<>>
       PROVE  \E i \in DOMAIN s : i < j /\ s[i].kind = "INSERT" /\ s[i].table = p
  <2>1. PICK n \in 1..m : j = b + k + n
    BY <1>4, <1>11
  <2>2. PICK o \in 1..m : o < n /\ table(o) = p
    BY <1>5, <1>8, <1>11, <2>1
  <2>3. b + k + o < j
    BY <1>1, <1>2, <2>1, <2>2
  <2> QED
    BY <1>5, <2>2, <2>3
<1>12. FillsInOrder(s, files)
  BY <1>9, <1>10, <1>11 DEF FillsInOrder
<1> QED
  BY <1>12 DEF s

LEMMA InsertIsNotRefused ==
    ASSUME IsDatabase(job.before), Consistent, NEW s,
           ScriptIs(s, job.files, job.truncate, job.wrap), FillsInOrder(s, job.files),
           NEW n \in Nat, n + 1 \in DOMAIN s, s[n + 1].kind = "INSERT"
    PROVE  ~ Refused(Contents(job.before, s, n), s[n + 1])
<1> DEFINE st == s[n + 1]
           t == st.table
           d == Contents(job.before, s, n)
<1>1. /\ t \in Table /\ st.column = KeyColumn(t) /\ t \in DOMAIN job.files
      /\ st.rows = job.files[t].rows
  BY DEF ScriptIs, FillsInOrder
<1>2. \A i \in 1..n : i \in DOMAIN s /\ i < n + 1
  BY DEF ScriptIs
<1>3. \A u \in Table : Spared(s, n, u) <=> ~ job.truncate
  <2> SUFFICES ASSUME NEW u \in Table
               PROVE  Spared(s, n, u) <=> ~ job.truncate
    OBVIOUS
  <2>1. CASE job.truncate
    <3>1. PICK i \in DOMAIN s : s[i].kind = "TRUNCATE" /\ s[i].table = u
      BY <2>1 DEF ScriptIs
    <3>2. i < n + 1 /\ i \in 1..Len(s) /\ Len(s) \in Nat
      BY <3>1 DEF ScriptIs
    <3>3. i \in 1..n
      BY <3>2
    <3>4. u \in Cascade(u)
      BY DEF Cascade
    <3> QED
      BY <2>1, <3>1, <3>3, <3>4 DEF Spared
  <2>2. CASE ~ job.truncate
    BY <1>2, <2>2 DEF Spared, ScriptIs
  <2> QED
    BY <2>1, <2>2
<1>4. \A u \in Table : Base[u] = (IF job.truncate THEN {} ELSE job.before[u])
  BY DEF Base, Nothing
<1>5. \A u \in Table : d[u] = Base[u] \cup InsertedRows(s, n, u)
  BY <1>3, <1>4 DEF Contents
<1>6. InsertedRows(s, n, t) = {}
  <2>1. {j \in 1..n : s[j].kind = "INSERT" /\ s[j].table = t} = {}
    BY <1>2 DEF FillsInOrder
  <2> QED
    BY <2>1 DEF InsertedRows
<1>7. Keys(d, t) = Keys(Base, t)
  BY <1>1, <1>5, <1>6 DEF Keys
<1>8. ASSUME NEW i \in DOMAIN st.rows
      PROVE  /\ st.rows[i].cell = "fine" /\ st.rows[i].key \notin Keys(d, t)
             /\ \A j \in DOMAIN st.rows : st.rows[i].key = st.rows[j].key => i = j
             /\ \A p \in Parents(t) : st.rows[i].refs[p] \in Keys(Whole, p)
  <2>1. st.rows[i] \in RowsOf(t)
    BY <1>1 DEF RowsOf, Elements
  <2>2. /\ st.rows[i].cell = "fine" /\ st.rows[i].key \notin Keys(Base, t)
        /\ \A j \in DOMAIN st.rows : st.rows[i].key = st.rows[j].key => i = j
    BY <1>1 DEF Consistent
  <2>3. \A p \in Parents(t) : st.rows[i].refs[p] \in Keys(Whole, p)
    BY <1>1, <2>1 DEF Consistent
  <2> QED
    BY <1>7, <2>2, <2>3
<1>9. ASSUME NEW p \in Parents(t)
      PROVE  Keys(Whole, p) \in SUBSET Keys(d, p)
  <2>1. p \in Table
    <3>1. PICK j \in 1..7 : FillOrder[j] = t
      BY <1>1, ParentsComeFirst DEF Table, Elements
    <3>2. PICK i \in 1..7 : FillOrder[i] = p
      BY <3>1, ParentsComeFirst
    <3> QED
      BY <3>2, ParentsComeFirst DEF Table, Elements
  <2>2. RowsOf(p) \in SUBSET InsertedRows(s, n, p)
    <3> SUFFICES ASSUME p \in DOMAIN job.files, job.files[p].rows # <<>>
                 PROVE  Elements(job.files[p].rows) \in SUBSET InsertedRows(s, n, p)
      BY DEF RowsOf, Elements
    <3>1. PICK i \in DOMAIN s : i < n + 1 /\ s[i].kind = "INSERT" /\ s[i].table = p
      BY DEF FillsInOrder
    <3>2. i \in 1..n /\ s[i].rows = job.files[p].rows
      BY <3>1 DEF ScriptIs
    <3> QED
      BY <3>1, <3>2 DEF InsertedRows
  <2>3. Whole[p] = Base[p] \cup RowsOf(p)
    BY <2>1 DEF Whole
  <2> QED
    BY <1>5, <2>1, <2>2, <2>3 DEF Keys
<1> QED
  BY <1>1, <1>8, <1>9 DEF Refused

(* Where an import of consistent files stands, in a transaction or not.    *)
Fitting == job.by = "csv" /\ Readable(job.files) /\ Consistent

GoesWell ==
    /\ IsDatabase(job.before)
    /\ errors = 0
    /\ outcome = "done" => db = Whole
    /\ outcome = "running" =>
          /\ ScriptIs(script, job.files, job.truncate, job.wrap)
          /\ FillsInOrder(script, job.files)
          /\ at \in 0..Len(script)
          /\ work = Contents(job.before, script, at)
          /\ tx = "open" \/ (tx = "none" /\ db = work)

FittingInvariant == Tables /\ (Fitting => GoesWell)

LEMMA FittingBegins ==
    ASSUME Tables, NEW files, NEW truncate \in BOOLEAN, NEW wrap \in BOOLEAN, NEW applied \in BOOLEAN,
           ImportCsv(files, truncate, wrap, applied)
    PROVE  GoesWell'
<1> DEFINE j == [by |-> "csv", files |-> files, truncate |-> truncate, wrap |-> wrap,
                 applied |-> applied, before |-> db]
<1>1. CASE Readable(files) /\ files # <<>>
  <2>1. Start(j, CsvScript(files, truncate, wrap), "running")
    BY <1>1 DEF ImportCsv
  <2>2. /\ job' = j /\ script' = CsvScript(files, truncate, wrap) /\ at' = 0 /\ errors' = 0
        /\ work' = db /\ db' = db /\ tx' \in {"open", "none"} /\ outcome' = "running"
    BY <2>1 DEF Start
  <2>3. /\ job'.files = files /\ job'.truncate = truncate /\ job'.wrap = wrap /\ job'.before = db
    BY <2>2
  <2>4. /\ ScriptIs(script', job'.files, job'.truncate, job'.wrap)
        /\ FillsInOrder(script', job'.files)
    BY <2>2, <2>3, CsvScriptIs, CsvScriptFills
  <2>5. 0 \in 0..Len(script')
    BY <2>4 DEF ScriptIs
  <2>6. work' = Contents(job'.before, script', at') /\ IsDatabase(job'.before)
    BY <2>2, <2>3, ContentsAtFirst DEF Tables
  <2> QED
    BY <2>2, <2>4, <2>5, <2>6 DEF GoesWell
<1>2. CASE ~ (Readable(files) /\ files # <<>>)
  <2>1. Start([j EXCEPT !.applied = FALSE], <<>>, "failed")
    BY <1>2 DEF ImportCsv
  <2>2. job'.before = db /\ errors' = 0 /\ outcome' = "failed"
    BY <2>1 DEF Start
  <2>3. IsDatabase(job'.before)
    BY <2>2 DEF Tables
  <2> QED
    BY <2>2, <2>3 DEF GoesWell
<1> QED
  BY <1>1, <1>2

(* No statement fails, and each takes the database on by what it says.     *)
LEMMA FittingAdvances ==
    ASSUME Fitting, GoesWell,
           BeginTransaction \/ CommitTransaction \/ StatementSucceeds \/ StatementFails
    PROVE  GoesWell'
<1> DEFINE st == script[at + 1]
<1>1. /\ outcome = "running" /\ outcome' = "running" /\ job' = job /\ script' = script
      /\ at' = at + 1 /\ at < Len(script)
  BY DEF BeginTransaction, CommitTransaction, StatementSucceeds, StatementFails, Running, Advance
<1>2. /\ ScriptIs(script, job.files, job.truncate, job.wrap) /\ FillsInOrder(script, job.files)
      /\ IsDatabase(job.before) /\ errors = 0 /\ work = Contents(job.before, script, at)
      /\ tx = "open" \/ (tx = "none" /\ db = work)
      /\ at \in 0..Len(script)
  BY <1>1 DEF GoesWell
<1>3. at \in Nat /\ at + 1 \in DOMAIN script /\ at' \in 0..Len(script')
  <2>1. Len(script) \in Nat /\ DOMAIN script = 1..Len(script)
    BY <1>2 DEF ScriptIs
  <2> QED
    BY <1>1, <1>2, <2>1
<1>4. ScriptIs(script', job'.files, job'.truncate, job'.wrap) /\ FillsInOrder(script', job'.files)
      /\ IsDatabase(job'.before)
  BY <1>1, <1>2
<1>5. ASSUME errors' = 0, work' = Contents(job.before, script, at + 1),
             tx' = "open" \/ (tx' = "none" /\ db' = work')
      PROVE  GoesWell'
  <2>1. work' = Contents(job'.before, script', at')
    BY <1>1, <1>5
  <2>2. outcome' # "done"
    BY <1>1
  <2> QED
    BY <1>3, <1>4, <1>5, <2>1, <2>2 DEF GoesWell
<1>6. CASE BeginTransaction
  <2>1. st.kind = "BEGIN" /\ tx' = "open" /\ work' = work /\ errors' = errors
    BY <1>6 DEF BeginTransaction, Running
  <2>2. Contents(job.before, script, at + 1) = Contents(job.before, script, at)
    BY <1>3, <2>1, ContentsStay
  <2> QED
    BY <1>2, <1>5, <2>1, <2>2
<1>7. CASE CommitTransaction
  <2>1. /\ st.kind = "COMMIT" /\ db' = (IF tx = "open" THEN work ELSE db) /\ work' = db'
        /\ tx' = "none" /\ errors' = errors
    BY <1>7 DEF CommitTransaction, Running
  <2>2. Contents(job.before, script, at + 1) = Contents(job.before, script, at)
    BY <1>3, <2>1, ContentsStay
  <2>3. db' = work
    BY <1>2, <2>1
  <2> QED
    BY <1>2, <1>5, <2>1, <2>2, <2>3
<1>8. st.kind = "INSERT" => ~ Errs(work, st)
  <2>1. st.kind = "INSERT" => ~ Refused(Contents(job.before, script, at), st)
    BY <1>2, <1>3, InsertIsNotRefused DEF Fitting
  <2> QED
    BY <1>2, <2>1 DEF Errs
<1>9. CASE StatementSucceeds
  <2>1. /\ st.kind \in {"TRUNCATE", "INSERT"} /\ work' = Effect(work, st)
        /\ db' = (IF tx = "none" THEN work' ELSE db) /\ tx' = tx /\ errors' = errors
    BY <1>9 DEF StatementSucceeds, Running
  <2>2. Effect(Contents(job.before, script, at), st) = Contents(job.before, script, at + 1)
    BY <1>2, <1>3, <2>1, ContentsAfter
  <2> QED
    BY <1>2, <1>5, <2>1, <2>2
<1>10. CASE StatementFails
  <2>1. tx = "aborted" \/ Errs(work, st)
    BY <1>10 DEF StatementFails
  <2> QED
    BY <1>2, <1>8, <2>1 DEF Errs
<1> QED
  BY <1>6, <1>7, <1>9, <1>10

(* The driver is not refused either.                                       *)
LEMMA FittingIsNotRefused ==
    ASSUME Fitting, GoesWell, ApplyFails
    PROVE  FALSE
<1> DEFINE st == script[at + 1]
<1>1. outcome = "running" /\ at < Len(script) /\ st.kind = "INSERT" /\ Errs(work, st)
  BY DEF ApplyFails, Running
<1>2. /\ ScriptIs(script, job.files, job.truncate, job.wrap) /\ FillsInOrder(script, job.files)
      /\ IsDatabase(job.before) /\ work = Contents(job.before, script, at)
      /\ at \in 0..Len(script)
  BY <1>1 DEF GoesWell
<1>3. at \in Nat /\ at + 1 \in DOMAIN script
  <2>1. Len(script) \in Nat /\ DOMAIN script = 1..Len(script)
    BY <1>2 DEF ScriptIs
  <2> QED
    BY <1>1, <1>2, <2>1
<1>4. ~ Refused(Contents(job.before, script, at), st)
  BY <1>1, <1>2, <1>3, InsertIsNotRefused DEF Fitting
<1> QED
  BY <1>1, <1>2, <1>4 DEF Errs

LEMMA FittingEnds ==
    ASSUME Fitting, GoesWell, Finish
    PROVE  GoesWell'
<1>1. /\ outcome = "running" /\ at = Len(script) /\ outcome' = "done" /\ errors' = 0
      /\ db' = (IF tx = "open" THEN work ELSE db) /\ job' = job
  BY DEF Finish, GoesWell
<1>2. /\ ScriptIs(script, job.files, job.truncate, job.wrap) /\ IsDatabase(job.before)
      /\ work = Contents(job.before, script, at) /\ (tx = "open" \/ db = work)
  BY <1>1 DEF GoesWell
<1>3. work = Whole
  BY <1>1, <1>2, ContentsAtLast
<1>4. Whole' = Whole
  BY <1>1 DEF Whole, Base, RowsOf
<1> QED
  BY <1>1, <1>2, <1>3, <1>4 DEF GoesWell

LEMMA FittingStep == FittingInvariant /\ [ImportNext]_<<planVars, dbVars>> => FittingInvariant'
<1> SUFFICES ASSUME FittingInvariant, [ImportNext]_<<planVars, dbVars>>, Fitting'
             PROVE  GoesWell'
  BY TablesStep DEF FittingInvariant
<1>1. Tables
  BY DEF FittingInvariant
<1>2. ASSUME job' = job
      PROVE  /\ Fitting /\ GoesWell
             /\ Whole' = Whole
  <2>1. (Base' = Base) /\ (Whole' = Whole) /\ \A t : (RowsOf(t)' = RowsOf(t))
    BY <1>2 DEF Base, RowsOf, Whole
  <2>2. Fitting
    BY <1>2, <2>1 DEF Fitting, Readable, Consistent, Keys
  <2> QED
    BY <2>1, <2>2 DEF FittingInvariant
<1>3. ASSUME UNCHANGED dbVars
      PROVE  GoesWell'
  BY <1>2, <1>3 DEF dbVars, GoesWell
<1>4. CASE ReadDrawing
  BY <1>3, <1>4 DEF ReadDrawing
<1>5. ASSUME NEW files \in Directories, NEW truncate \in BOOLEAN, NEW wrap \in BOOLEAN,
             NEW applied \in BOOLEAN, ImportCsv(files, truncate, wrap, applied)
      PROVE  GoesWell'
  BY <1>1, <1>5, FittingBegins
<1>6. ASSUME NEW truncate \in BOOLEAN, ImportPlan(truncate)
      PROVE  FALSE
  <2>1. job'.by = "plan"
    BY <1>6 DEF ImportPlan, Start
  <2> QED
    BY <2>1 DEF Fitting
<1>7. CASE BeginTransaction \/ CommitTransaction \/ StatementSucceeds \/ StatementFails
  <2>1. job' = job
    BY <1>7 DEF BeginTransaction, CommitTransaction, StatementSucceeds, StatementFails, Advance
  <2> QED
    BY <1>2, <1>7, <2>1, FittingAdvances
<1>8. CASE ApplyFails
  <2>1. job' = job
    BY <1>8 DEF ApplyFails, Abort
  <2> QED
    BY <1>2, <1>8, <2>1, FittingIsNotRefused
<1>9. CASE ConnectionLost
  <2>1. outcome' = "failed" /\ job' = job /\ errors' = errors
    BY <1>9 DEF ConnectionLost, Abort
  <2> QED
    BY <1>2, <2>1 DEF GoesWell
<1>10. CASE Finish
  <2>1. job' = job
    BY <1>10 DEF Finish
  <2> QED
    BY <1>2, <1>10, <2>1, FittingEnds
<1>11. CASE UNCHANGED <<planVars, dbVars>>
  BY <1>3, <1>11
<1> QED
  BY <1>4, <1>5, <1>6, <1>7, <1>8, <1>9, <1>10, <1>11 DEF ImportNext

(* For every database and all files that fit it and each other: in each    *)
(* way to import them no statement fails, for each table is filled after   *)
(* those it refers to, and the database then holds what it did, unless it  *)
(* was to be emptied, and the files (TABLE_SPECS, ingestion/csv_loader.py).*)
THEOREM FittingFilesAreImported == ImportSpec => []ConsistentFilesAreImported
<1>1. ImportInit => FittingInvariant
  <2> SUFFICES ASSUME ImportInit
               PROVE  Tables /\ ~ Fitting
    BY DEF FittingInvariant
  <2>1. Tables
    BY ImportAssumption DEF ImportInit, Tables
  <2>2. ~ Fitting
    BY DEF ImportInit, NoJob, Fitting
  <2> QED
    BY <2>1, <2>2
<1>2. FittingInvariant => ConsistentFilesAreImported
  BY DEF FittingInvariant, Fitting, GoesWell, ConsistentFilesAreImported
<1> QED
  BY <1>1, <1>2, FittingStep, PTL DEF ImportSpec
=============================================================================
