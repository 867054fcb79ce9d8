------------------------------ MODULE Inference ------------------------------
(***************************************************************************)
(* The prediction service (src/prediction/inference.py): a circuit breaker *)
(* around the model and a cache of its answers, asked by the scorer and    *)
(* read by the health route; with the scoring weights and the route that   *)
(* changes them and clears the cache (src/api/routes/config.py).           *)
(*                                                                         *)
(* Every operation runs without an await and is one action.  Time passes   *)
(* in ticks; ages stop growing where the code stops telling them apart.    *)
(***************************************************************************)
EXTENDS Naturals

CONSTANTS
    Features,   \* feature dicts, told apart by their hash
    Threshold,  \* failure_threshold
    Recovery,   \* recovery_timeout_seconds, in ticks
    Ttl,        \* cache_ttl_seconds, in ticks
    Weights,
    Configured, \* the weights in the settings file
    Default     \* the weights ScoringWeights() makes

ASSUME InferenceAssumption ==
    /\ Threshold \in Nat \ {0}
    /\ Recovery \in Nat
    /\ Ttl \in Nat
    /\ Configured \in Weights
    /\ Default \in Weights

VARIABLES
    state,    \* _state of the breaker
    failures, \* _failure_count, which counts no further than Threshold here
    openFor,  \* ticks since _opened_at, up to Recovery
    age,      \* ticks since an answer was cached; Ttl + 1 when there is none
    model,    \* "up" while it answers, "down" while it raises
    live,     \* the weights the scorer uses
    reported, \* _current_weights
    row,      \* predictions that failed since one succeeded, up to Threshold
    rest,     \* ticks since the last of them, up to Recovery
    early,    \* 1 once the model was asked while it was to be left alone
    probes    \* times it was asked since the breaker last became HALF_OPEN

breakerVars == <<state, failures, openFor>>
weightVars == <<live, reported>>
historyVars == <<row, rest, early, probes>>
inferenceVars == <<breakerVars, age, model, weightVars, historyVars>>

AtMost(n, limit) == IF n < limit THEN n ELSE limit

InferenceTypeOK ==
    /\ state \in {"CLOSED", "OPEN", "HALF_OPEN"}
    /\ failures \in 0..Threshold
    /\ openFor \in 0..Recovery
    /\ age \in [Features -> 0..Ttl + 1]
    /\ model \in {"up", "down"}
    /\ live \in Weights
    /\ reported \in Weights
    /\ row \in 0..Threshold
    /\ rest \in 0..Recovery
    /\ early \in 0..1
    /\ probes \in 0..2

InferenceInit ==
    /\ state = "CLOSED"
    /\ failures = 0
    /\ openFor = 0
    /\ age = [f \in Features |-> Ttl + 1]
    /\ model \in {"up", "down"}
    /\ live = Configured
    /\ reported = Default
    /\ row = 0
    /\ rest = 0
    /\ early = 0
    /\ probes = 0

-----------------------------------------------------------------------------
RecoveredNever == FALSE

(* OPEN for long enough.                                                   *)
Recovered == state = "OPEN" /\ openFor >= Recovery

(* The state property, which turns OPEN into HALF_OPEN as it is read.      *)
Current == IF Recovered THEN "HALF_OPEN" ELSE state

(* The history of a call that reaches the model.                           *)
Asked ==
    /\ early' = IF row = Threshold /\ rest < Recovery THEN 1 ELSE early
    /\ probes' = IF Current = "HALF_OPEN"
                 THEN AtMost(IF Recovered THEN 1 ELSE probes + 1, 2) ELSE 0

(* predict, answered by the cache.                                         *)
PredictCached(f) ==
    /\ Current # "OPEN"
    /\ age[f] <= Ttl
    /\ state' = Current
    /\ probes' = IF Recovered THEN 0 ELSE probes
    /\ UNCHANGED <<failures, openFor, age, model, weightVars, row, rest, early>>

RecordSuccess ==
    /\ failures' = 0
    /\ state' = "CLOSED"

(* predict, answered by the model.                                         *)
PredictModel(f) ==
    /\ Current # "OPEN"
    /\ age[f] > Ttl
    /\ model = "up"
    /\ RecordSuccess
    /\ age' = [age EXCEPT ![f] = 0]
    /\ row' = 0
    /\ Asked
    /\ UNCHANGED <<openFor, model, weightVars, rest>>

RecordFailureLate ==
    /\ failures' = AtMost(failures + 1, Threshold)
    /\ IF failures >= Threshold
       THEN state' = "OPEN" /\ openFor' = 0
       ELSE state' = Current /\ UNCHANGED openFor

RecordFailure ==
    /\ failures' = AtMost(failures + 1, Threshold)
    /\ IF failures + 1 >= Threshold
       THEN state' = "OPEN" /\ openFor' = 0
       ELSE state' = Current /\ UNCHANGED openFor

(* predict, where the model raises and the fallback answers.               *)
PredictFails(f) ==
    /\ Current # "OPEN"
    /\ age[f] > Ttl
    /\ model = "down"
    /\ RecordFailure
    /\ row' = AtMost(row + 1, Threshold)
    /\ rest' = 0
    /\ Asked
    /\ UNCHANGED <<age, model, weightVars>>

(* explain asks the model too; the breaker learns nothing of the outcome.  *)
Explain ==
    /\ Current # "OPEN"
    /\ state' = Current
    /\ Asked
    /\ UNCHANGED <<failures, openFor, age, model, weightVars, row, rest>>

(* The health route reads the state.  (So does predict on an OPEN breaker, *)
(* which then falls back and changes nothing.)                             *)
ReadState ==
    /\ Recovered
    /\ state' = Current
    /\ probes' = 0
    /\ UNCHANGED <<failures, openFor, age, model, weightVars, row, rest, early>>

(* PUT /config/weights.                                                    *)
UpdateWeights(w) ==
    /\ live' = w
    /\ reported' = w
    /\ age' = [f \in Features |-> Ttl + 1]
    /\ UNCHANGED <<breakerVars, model, historyVars>>

(* The model starts or stops answering.                                    *)
ModelChanges ==
    /\ model' = IF model = "up" THEN "down" ELSE "up"
    /\ UNCHANGED <<breakerVars, age, weightVars, historyVars>>

Tick ==
    /\ openFor' = AtMost(openFor + 1, Recovery)
    /\ age' = [f \in Features |-> AtMost(age[f] + 1, Ttl + 1)]
    /\ rest' = AtMost(rest + 1, Recovery)
    /\ UNCHANGED <<state, failures, model, weightVars, row, early, probes>>

Predict(f) == PredictCached(f) \/ PredictModel(f) \/ PredictFails(f)

InferenceNext ==
    \/ \E f \in Features : Predict(f)
    \/ Explain
    \/ ReadState
    \/ \E w \in Weights : UpdateWeights(w)
    \/ ModelChanges
    \/ Tick

InferenceSpec == InferenceInit /\ [][InferenceNext]_inferenceVars

(* Time passes, and the scorer goes on to predict every cycle.             *)
FairInferenceSpec == InferenceSpec /\ WF_inferenceVars(Tick) /\ \A f \in Features : WF_inferenceVars(Predict(f))

-----------------------------------------------------------------------------
(* A model that failed Threshold times in a row, by predictions, is not    *)
(* asked again, to predict or to explain, before Recovery has passed since *)
(* the last failure, even after several rounds of probe and failure.       *)
FailingModelIsLeftAlone == early = 0

(* A model that works again is used again: the breaker closes for good,    *)
(* although the cache answers in the model's stead.                        *)
Recovers == <>[](model = "up") => <>[](state = "CLOSED")

(* What makes FailingModelIsLeftAlone inductive: the breaker counts what   *)
(* happened, and while it is open it has been so since the last failure.   *)
BreakerFollowsHistory ==
    /\ failures = row
    /\ row = Threshold => state # "CLOSED"
    /\ row < Threshold => state = "CLOSED"
    /\ state = "OPEN" => openFor = rest
    /\ state = "HALF_OPEN" => rest = Recovery

-----------------------------------------------------------------------------
(* "Recovery probe: one request allowed through."                          *)
OneProbe == probes <= 1

(* GET /config/weights returns the "current scoring weights".              *)
ReportedIsLive == reported = live
=============================================================================
