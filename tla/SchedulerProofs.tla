--------------------------- MODULE SchedulerProofs ---------------------------
(***************************************************************************)
(* For any set of SKUs, any number of overlapping trigger calls and any    *)
(* limits: what cycles dispatch and what the status route reports.  For    *)
(* every threshold, recovery time and cache lifetime: the breaker of the   *)
(* demand model they ask leaves a failing model alone.                     *)
(***************************************************************************)
EXTENDS Scheduler, Inference, FiniteSetTheorems, TLAPS

(* Sets of SKUs can be counted.                                            *)
LEMMA SkusCount ==
    ASSUME NEW skus \in SUBSET Sku
    PROVE  Cardinality(skus) \in Nat
BY SchedulerAssumption, FS_Subset, FS_CardinalityType

LEMMA NothingCounts == Cardinality({}) = 0
BY FS_EmptySet

(* No cycle has begun and nothing is reported.                             *)
LEMMA InitInvariant == Init => SchedulerInvariant
BY NothingCounts, SchedulerAssumption
   DEF Init, SchedulerInvariant, TypeOK, Phases, FreeIsSeen,
       SuppressedThroughoutIsNotSent, StatusIsOfOneCycle, Lesser

(* The end of a call leaves it with nothing.                               *)
LEMMA EndKeeps ==
    ASSUME SchedulerInvariant, NEW c \in Cycle, NEW place \in {"idle", "cancelled"},
           End(c, place)
    PROVE  SchedulerInvariant'
BY DEF SchedulerInvariant, TypeOK, Phases, FreeIsSeen, End, Goto,
       SuppressedThroughoutIsNotSent, StatusIsOfOneCycle, Lesser

(* Every step of a cycle, and of its surroundings, keeps the invariant.    *)
LEMMA NextInvariant == SchedulerInvariant /\ [Next]_vars => SchedulerInvariant'
<1> SUFFICES ASSUME SchedulerInvariant, [Next]_vars
             PROVE  SchedulerInvariant'
  OBVIOUS
<1> USE SchedulerAssumption
    DEF SchedulerInvariant, TypeOK, Phases, FreeIsSeen, Goto,
        SuppressedThroughoutIsNotSent, StatusIsOfOneCycle
<1>1. CASE UNCHANGED vars
  BY <1>1 DEF vars, cycleVars
<1>2. ASSUME NEW c \in Cycle, Begin(c)
      PROVE  SchedulerInvariant'
  BY <1>2 DEF Begin
<1>3. ASSUME NEW c \in Cycle, Fetch(c)
      PROVE  SchedulerInvariant'
  BY <1>3 DEF Fetch
<1>4. ASSUME NEW c \in Cycle, NEW s \in Sku, Filter(c, s)
      PROVE  SchedulerInvariant'
  <2>1. c \in Cycle /\ pc[c] = "filter" /\ sent[c] = {} /\ batch[c] = {}
    BY <1>4 DEF Filter
  <2>2. TypeOK'
    BY <1>4 DEF Filter
  <2>3. FreeIsSeen' /\ StatusIsOfOneCycle'
    BY <1>4 DEF Filter
  <2>4. SuppressedThroughoutIsNotSent'
    BY <1>4, <2>1 DEF Filter, Passes
  <2>5. Phases'
    BY <1>4, <2>1 DEF Filter
  <2> QED
    BY <2>2, <2>3, <2>4, <2>5
<1>5. ASSUME NEW c \in Cycle, Select(c)
      PROVE  SchedulerInvariant'
  <2>1. PICK top \in Top(kept[c], MaxCandidates) : \E first \in Top(top, BatchSize) :
           /\ kept' = [kept EXCEPT ![c] = top]
           /\ batch' = [batch EXCEPT ![c] = first]
    BY <1>5 DEF Select
  <2>2. PICK first \in Top(top, BatchSize) :
           /\ kept' = [kept EXCEPT ![c] = top]
           /\ batch' = [batch EXCEPT ![c] = first]
    BY <2>1
  <2>3. top \subseteq kept[c] /\ first \subseteq top
    BY DEF Top
  <2>4. Cardinality(first) = Lesser(BatchSize, Cardinality(top))
    BY DEF Top
  <2>5. sent[c] = {} /\ pc[c] = "filter"
    BY <1>5 DEF Select
  <2>6. kept[c] \subseteq Sku
    OBVIOUS
  <2>7. TypeOK'
    BY <1>5, <2>2, <2>3, <2>6 DEF Select
  <2>8. Cardinality(sent[c] \cup first) = Lesser(BatchSize, Cardinality(top))
    BY <2>4, <2>5
  <2>9. Phases'
    BY <1>5, <2>2, <2>3, <2>5, <2>8 DEF Select
  <2>10. FreeIsSeen' /\ SuppressedThroughoutIsNotSent' /\ StatusIsOfOneCycle'
    BY <1>5, <2>2, <2>3, <2>5 DEF Select
  <2> QED
    BY <2>7, <2>9, <2>10
<1>6. ASSUME NEW c \in Cycle, NEW s \in Sku, Dispatch(c, s)
      PROVE  SchedulerInvariant'
  <2>1. sent'[c] \cup batch'[c] = sent[c] \cup batch[c]
    BY <1>6 DEF Dispatch
  <2>2. TypeOK' /\ FreeIsSeen' /\ StatusIsOfOneCycle'
    BY <1>6 DEF Dispatch
  <2>3. s \in kept[c] /\ s \in batch[c] /\ c \in Cycle
    BY <1>6 DEF Dispatch
  <2>4. SuppressedThroughoutIsNotSent'
    BY <1>6, <2>3 DEF Dispatch
  <2>5. Phases'
    BY <1>6, <2>1 DEF Dispatch
  <2> QED
    BY <2>2, <2>4, <2>5
<1>7. ASSUME NEW c \in Cycle, Finish(c)
      PROVE  SchedulerInvariant'
  <2>1. sent[c] \cup batch[c] = sent[c] /\ pc[c] = "dispatch"
    BY <1>7 DEF Finish
  <2>2. sent[c] \subseteq kept[c] /\ Cardinality(sent[c]) = Lesser(BatchSize, Cardinality(kept[c]))
    BY <2>1
  <2>3. last' = [candidates |-> kept[c], dispatched |-> sent[c]]
    BY <1>7 DEF Finish, Report
  <2>4. TypeOK'
    BY <1>7, <2>3 DEF Finish
  <2>5. StatusIsOfOneCycle'
    BY <2>2, <2>3
  <2>6. Phases' /\ FreeIsSeen' /\ SuppressedThroughoutIsNotSent'
    BY <1>7 DEF Finish
  <2> QED
    BY <2>4, <2>5, <2>6
<1>8. ASSUME NEW c \in Cycle, Announce(c)
      PROVE  SchedulerInvariant'
  BY <1>8, EndKeeps DEF Announce
<1>9. ASSUME NEW c \in Cycle, Fail(c)
      PROVE  SchedulerInvariant'
  BY <1>9, EndKeeps DEF Fail, PlaceAfterFailure
<1>10. CASE Shutdown
  BY <1>10, EndKeeps DEF Shutdown, Cycle
<1>11. ASSUME NEW s \in Sku, Suppress(s)
       PROVE  SchedulerInvariant'
  BY <1>11 DEF Suppress, cycleVars
<1>12. ASSUME NEW s \in Sku, Unsuppress(s)
       PROVE  SchedulerInvariant'
  <2>1. TypeOK' /\ Phases' /\ FreeIsSeen'
    BY <1>12 DEF Unsuppress, cycleVars
  <2>2. SuppressedThroughoutIsNotSent' /\ StatusIsOfOneCycle'
    BY <1>12 DEF Unsuppress, cycleVars
  <2> QED
    BY <2>1, <2>2
<1>13. ASSUME NEW now \in SUBSET Sku, WarehouseChanges(now)
       PROVE  SchedulerInvariant'
  BY <1>13 DEF WarehouseChanges, cycleVars
<1> QED
  BY <1>1, <1>2, <1>3, <1>4, <1>5, <1>6, <1>7, <1>8, <1>9, <1>10, <1>11, <1>12, <1>13
     DEF Next, Step

LEMMA Invariance == Spec => []SchedulerInvariant
BY InitInvariant, NextInvariant, PTL DEF Spec

(* Types of every cycle's data and of what the status counts.              *)
THEOREM SchedulerTypeCorrect == Spec => []TypeOK
BY Invariance, PTL DEF SchedulerInvariant

(* What was suppressed all through a cycle is neither among its candidates *)
(* nor dispatched by it, however cycles, rejections and clears interleave. *)
THEOREM SuppressionRespected == Spec => []SuppressedThroughoutIsNotSent
BY Invariance, PTL DEF SchedulerInvariant

(* Both numbers of the status are of one and the same cycle, which got its *)
(* whole batch out, however many cycles overlap or fail.                   *)
THEOREM StatusConsistent == Spec => []StatusIsOfOneCycle
BY Invariance, PTL DEF SchedulerInvariant

(* A cycle dispatches at most a batch, of candidates it returns, no SKU    *)
(* twice.                                                                  *)
THEOREM BatchBounded == Spec => []BatchIsBounded
<1>1. SchedulerInvariant => BatchIsBounded
  <2> SUFFICES ASSUME SchedulerInvariant, NEW c \in Cycle
               PROVE  /\ sent[c] \cap batch[c] = {}
                      /\ Cardinality(sent[c] \cup batch[c]) <= BatchSize
                      /\ sent[c] \cup batch[c] \subseteq kept[c]
    BY DEF BatchIsBounded
  <2>1. Cardinality(kept[c]) \in Nat
    BY SkusCount DEF SchedulerInvariant, TypeOK
  <2>2. CASE pc[c] \in {"dispatch", "announce"}
    BY <2>1, <2>2, SchedulerAssumption DEF SchedulerInvariant, Phases, Lesser
  <2>3. CASE pc[c] \notin {"dispatch", "announce"}
    <3>1. sent[c] \cup batch[c] = {} /\ sent[c] \cap batch[c] = {}
      BY <2>3 DEF SchedulerInvariant, Phases
    <3>2. Cardinality(sent[c] \cup batch[c]) = 0
      BY <3>1, NothingCounts
    <3> QED
      BY <3>1, <3>2, SchedulerAssumption
  <2> QED
    BY <2>2, <2>3
<1> QED
  BY <1>1, Invariance, PTL

-----------------------------------------------------------------------------
(* The models a cycle asks for its predictions.                            *)
InferenceInvariant == InferenceTypeOK /\ BreakerFollowsHistory /\ FailingModelIsLeftAlone

LEMMA AtMostBounds ==
    ASSUME NEW n \in Nat, NEW limit \in Nat
    PROVE  AtMost(n, limit) \in 0..limit
BY DEF AtMost

LEMMA InferenceStarts == InferenceInit => InferenceInvariant
BY InferenceAssumption
   DEF InferenceInit, InferenceInvariant, InferenceTypeOK, BreakerFollowsHistory, FailingModelIsLeftAlone

(* A call that gets past the breaker finds a model that is not to be left  *)
(* alone.                                                                  *)
LEMMA AskedInTime ==
    ASSUME InferenceInvariant, Current # "OPEN", Asked
    PROVE  early' = 0 /\ probes' \in 0..2
<1>1. ~(row = Threshold /\ rest < Recovery)
  BY InferenceAssumption
     DEF InferenceInvariant, InferenceTypeOK, BreakerFollowsHistory, Current, Recovered
<1>2. probes' \in 0..2
  BY DEF Asked, InferenceInvariant, InferenceTypeOK, AtMost
<1> QED
  BY <1>1, <1>2 DEF Asked, InferenceInvariant, FailingModelIsLeftAlone

(* Reading the state of the breaker agrees with the history.               *)
LEMMA CurrentFollows ==
    ASSUME InferenceInvariant
    PROVE  /\ Current \in {"CLOSED", "OPEN", "HALF_OPEN"}
           /\ row = Threshold <=> Current # "CLOSED"
           /\ Current = "OPEN" => state = "OPEN" /\ openFor = rest
           /\ Current = "HALF_OPEN" => rest = Recovery
BY InferenceAssumption
   DEF InferenceInvariant, InferenceTypeOK, BreakerFollowsHistory, Current, Recovered

LEMMA InferenceStep == InferenceInvariant /\ [InferenceNext]_inferenceVars => InferenceInvariant'
<1> SUFFICES ASSUME InferenceInvariant, [InferenceNext]_inferenceVars
             PROVE  InferenceInvariant'
  OBVIOUS
<1> USE InferenceAssumption DEF InferenceInvariant, InferenceTypeOK, BreakerFollowsHistory, FailingModelIsLeftAlone
<1>1. CASE UNCHANGED inferenceVars
  BY <1>1 DEF inferenceVars, breakerVars, weightVars, historyVars
<1>2. ASSUME NEW f \in Features, PredictCached(f)
      PROVE  InferenceInvariant'
  BY <1>2, CurrentFollows DEF PredictCached, weightVars
<1>3. ASSUME NEW f \in Features, PredictModel(f)
      PROVE  InferenceInvariant'
  BY <1>3, AskedInTime DEF PredictModel, RecordSuccess, weightVars
<1>4. ASSUME NEW f \in Features, PredictFails(f)
      PROVE  InferenceInvariant'
  <2>1. early' = 0 /\ probes' \in 0..2
    BY <1>4, AskedInTime DEF PredictFails
  <2>2. failures' = row' /\ failures' \in 0..Threshold /\ rest' = 0
    BY <1>4 DEF PredictFails, RecordFailure, AtMost
  <2>3. CASE failures + 1 >= Threshold
    BY <1>4, <2>1, <2>2, <2>3 DEF PredictFails, RecordFailure, AtMost, weightVars
  <2>4. CASE failures + 1 < Threshold
    BY <1>4, <2>1, <2>2, <2>4, CurrentFollows
       DEF PredictFails, RecordFailure, AtMost, weightVars
  <2> QED
    BY <2>3, <2>4
<1>5. CASE Explain
  <2>1. early' = 0 /\ probes' \in 0..2
    BY <1>5, AskedInTime DEF Explain
  <2> QED
    BY <1>5, <2>1, CurrentFollows DEF Explain, weightVars
<1>6. CASE ReadState
  BY <1>6, CurrentFollows DEF ReadState, weightVars
<1>7. ASSUME NEW w \in Weights, UpdateWeights(w)
      PROVE  InferenceInvariant'
  BY <1>7 DEF UpdateWeights, breakerVars, historyVars
<1>8. CASE ModelChanges
  BY <1>8 DEF ModelChanges, breakerVars, weightVars, historyVars
<1>9. CASE Tick
  BY <1>9, AtMostBounds DEF Tick, AtMost, weightVars
<1> QED
  BY <1>1, <1>2, <1>3, <1>4, <1>5, <1>6, <1>7, <1>8, <1>9 DEF InferenceNext, Predict

LEMMA InferenceInvariance == InferenceSpec => []InferenceInvariant
BY InferenceStarts, InferenceStep, PTL DEF InferenceSpec

(* Types, for every threshold and every lifetime.                          *)
THEOREM InferenceTypeCorrect == InferenceSpec => []InferenceTypeOK
BY InferenceInvariance, PTL DEF InferenceInvariant

(* A model that keeps failing is asked at most once per recovery time.     *)
THEOREM FailingModelRests == InferenceSpec => []FailingModelIsLeftAlone
BY InferenceInvariance, PTL DEF InferenceInvariant
=============================================================================
