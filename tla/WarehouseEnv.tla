---------------------------- MODULE WarehouseEnv ----------------------------
(***************************************************************************)
(* The two users of the digital twin: backtests call run (DigitalTwin),    *)
(* and the Gymnasium environment (src/simulation/warehouse_env.py) drives  *)
(* a twin of its own by apply_movement, one dispatch decision per step,    *)
(* without ever running it.                                                *)
(*                                                                         *)
(* Of a place only its distance to the door of the first appointment       *)
(* counts; places lie on a line through it.  The mean over the ordered     *)
(* SKUs becomes their sum: no movement adds or drops a SKU.  Of the reward *)
(* the model keeps the shaping part.                                       *)
(***************************************************************************)
EXTENDS DigitalTwin

CONSTANTS
    Ordered,        \* the SKUs on order for the first appointment's door
    Far,            \* Far[p]: distance of place p to that door
    Handling,       \* handling_time_seconds, in the same unit
    CandidateLists, \* what candidates_fn may return
    MaxCandidates,  \* env_config.max_candidates
    EpisodeSteps,   \* shift_duration_seconds over the 60 s of a step
    MaxSteps        \* bound: steps taken without a reset

ASSUME WarehouseEnvAssumption ==
    /\ Ordered \subseteq Sku
    /\ IsFiniteSet(Ordered)
    /\ Far \in [Place -> Nat]
    /\ CandidateLists \subseteq Seq([sku : AnySku, from : Place, to : Place])
    /\ EpisodeSteps \in Nat \ {0}
    /\ MaxSteps \in Nat

VARIABLES
    user,       \* "backtest" or "training"
    home,       \* the environment's _inventory
    started,    \* its _twin is not None
    steps,      \* _step_count
    candidates, \* _candidates
    shaped      \* sum of the shaping rewards since reset

envVars == <<started, steps, candidates, shaped>>
allVars == <<vars, user, home, envVars>>

EnvTypeOK ==
    /\ TypeOK
    /\ user \in {"backtest", "training"}
    /\ home \in [Sku -> Place]
    /\ started \in BOOLEAN
    /\ steps \in 0..MaxSteps
    /\ candidates \in CandidateLists \cup {<<>>}
    /\ shaped \in Int

EnvInit ==
    /\ Init
    /\ user \in {"backtest", "training"}
    /\ home = where
    /\ started = FALSE
    /\ steps = 0
    /\ candidates = <<>>
    /\ shaped = 0

(* get_avg_distance_to_dock, as a sum.                                     *)
DistanceToDock(stock) == SumFunction([s \in Ordered |-> Far[stock[s]]])

(* _get_candidates: whatever the function returns, or nothing if it raises *)
(* or was not given.  It does not know the twin.                           *)
Fetched == CandidateLists \cup {<<>>}

(* reset: a new twin, with the inventory the environment was made with.    *)
Reset ==
    /\ user = "training"
    /\ started' = TRUE
    /\ where' = home
    /\ metrics' = NoMetrics
    /\ steps' = 0
    /\ shaped' = 0
    /\ candidates' \in Fetched
    /\ UNCHANGED <<plan, runs, running, now, queue, jobVars, user, home>>

Gap(c) == IF Far[c.from] > Far[c.to] THEN Far[c.from] - Far[c.to]
                                     ELSE Far[c.to] - Far[c.from]

(* The candidate an action stands for is dispatched, any other action is a *)
(* NO_OP.                                                                  *)
Chosen(action) == action \in 1..Len(candidates)

(* The candidates a step leaves: none once the episode has terminated.     *)
FetchedAfter(next) == IF next >= EpisodeSteps THEN {<<>>} ELSE Fetched

ShapedOnDispatch(action, after) ==
    IF action = 0 THEN 0 ELSE DistanceToDock(home) - DistanceToDock(after)

(* compute_shaping_reward.                                                 *)
Shaping(action, after) == DistanceToDock(where) - DistanceToDock(after)

Step(action) ==
    /\ started
    /\ steps < MaxSteps
    /\ where' = IF Chosen(action) THEN Applied(where, candidates[action].sku, candidates[action].to) ELSE where
    /\ metrics' = IF Chosen(action)
                  THEN [metrics EXCEPT !.executed = @ + 1, !.cost = @ + Gap(candidates[action])]
                  ELSE metrics
    /\ shaped' = shaped + Shaping(action, where')
    /\ steps' = steps + 1
    /\ candidates' \in FetchedAfter(steps + 1)
    /\ UNCHANGED <<plan, runs, running, now, queue, jobVars, user, home, started>>

EnvNext ==
    \/ user = "backtest" /\ Next /\ UNCHANGED <<user, home, envVars>>
    \/ Reset
    \/ \E action \in 0..MaxCandidates : Step(action)

EnvSpec == EnvInit /\ [][EnvNext]_allVars

-----------------------------------------------------------------------------
(* The shaping is potential based: whatever an agent does, and however     *)
(* stale its candidates, its shaping rewards add up to the distance the    *)
(* ordered SKUs gained since reset, so that no detour pays.                *)
ShapingTelescopes ==
    started => shaped = DistanceToDock(home) - DistanceToDock(where)

(* What makes this and the properties of a shift inductive.                *)
EnvInvariant ==
    /\ EnvTypeOK
    /\ ShiftInvariant
    /\ user = "backtest" => ~ started
    /\ user = "training" => runs = 0 /\ ~ running
    /\ ShapingTelescopes

-----------------------------------------------------------------------------
(* Statements of the documentation that the code does not keep.            *)

(* action_masks: "Boolean array of shape (max_candidates + 1,)".  It       *)
(* raises IndexError if the function returned more candidates.             *)
MaskFits == Len(candidates) <= MaxCandidates

(* compute_step_reward: "Actual forklift time consumed by the movement".   *)
(* The handling time is not in it, and the distance starts where the SKU   *)
(* was when the candidate was made.                                        *)
CostIsActual ==
    [][\A action \in 1..MaxCandidates :
          Step(action) /\ Chosen(action) /\ candidates[action].sku \in Sku =>
             metrics'.cost - metrics.cost
                = Gap([from |-> where[candidates[action].sku],
                       to |-> candidates[action].to]) + Handling]_allVars

(* movements_executed: "Total repositioning movements completed".  A SKU   *)
(* that is not there counts, too.                                          *)
ExecutedWereMoved ==
    [][metrics'.executed > metrics.executed /\ started =>
          \E i \in DOMAIN candidates : candidates[i].sku \in Sku]_allVars
=============================================================================
