------------------------------ MODULE Scheduler ------------------------------
(***************************************************************************)
(* Scheduling cycles (src/optimizer/scheduler.py) as the background loop   *)
(* (src/api/main.py) and the trigger route (src/api/routes/scheduler.py)   *)
(* run them: nothing keeps two cycles apart, and each awaits the WMS, one  *)
(* suppression check per candidate and one push per task.                  *)
(*                                                                         *)
(* A candidate is its SKU, which is what deduplication leaves of it.  What *)
(* the WMS offers, feasibility and score are one set, eligible, that       *)
(* changes under the cycles; the order by score is any order.              *)
(***************************************************************************)
EXTENDS Naturals, FiniteSets

CONSTANTS
    Sku,
    Loop,          \* the background loop
    Trigger,       \* concurrent calls of the trigger route
    MaxCandidates, \* config.max_candidates
    BatchSize      \* config.dispatch_batch_size

ASSUME SchedulerAssumption ==
    /\ IsFiniteSet(Sku)
    /\ Loop \notin Trigger
    /\ MaxCandidates \in Nat
    /\ BatchSize \in Nat

VARIABLES
    eligible,   \* SKUs with a feasible candidate over the score threshold
    suppressed, \* SKUs whose rejection:sku key is alive
    pc,         \* where each cycle stands
    found,      \* its candidates still to be checked for suppression
    kept,       \* its candidates so far
    batch,      \* the ones still to be pushed
    sent,       \* the ones pushed
    last,       \* the SKUs that _last_candidates and _last_dispatched count
    seenFree    \* SKUs seen unsuppressed at some time since the cycle began

cycleVars == <<pc, found, kept, batch, sent>>
vars == <<eligible, suppressed, cycleVars, last, seenFree>>

Cycle == Trigger \cup {Loop}

Lesser(m, n) == IF m < n THEN m ELSE n

TypeOK ==
    /\ eligible \subseteq Sku
    /\ suppressed \subseteq Sku
    /\ pc \in [Cycle -> {"idle", "fetch", "filter", "dispatch", "announce",
                         "cancelled"}]
    /\ found \in [Cycle -> SUBSET Sku]
    /\ kept \in [Cycle -> SUBSET Sku]
    /\ batch \in [Cycle -> SUBSET Sku]
    /\ sent \in [Cycle -> SUBSET Sku]
    /\ last \in [candidates : SUBSET Sku, dispatched : SUBSET Sku]
    /\ seenFree \in [Cycle -> SUBSET Sku]

Init ==
    /\ eligible \in SUBSET Sku
    /\ suppressed = {}
    /\ pc = [c \in Cycle |-> "idle"]
    /\ found = [c \in Cycle |-> {}]
    /\ kept = [c \in Cycle |-> {}]
    /\ batch = [c \in Cycle |-> {}]
    /\ sent = [c \in Cycle |-> {}]
    /\ last = [candidates |-> {}, dispatched |-> {}]
    /\ seenFree = [c \in Cycle |-> {}]

Goto(c, place) == pc' = [pc EXCEPT ![c] = place]

(* The call is over and its local variables with it.                       *)
End(c, place) ==
    /\ Goto(c, place)
    /\ found' = [found EXCEPT ![c] = {}]
    /\ kept' = [kept EXCEPT ![c] = {}]
    /\ batch' = [batch EXCEPT ![c] = {}]
    /\ sent' = [sent EXCEPT ![c] = {}]
    /\ seenFree' = [seenFree EXCEPT ![c] = {}]
    /\ UNCHANGED <<eligible, suppressed, last>>

-----------------------------------------------------------------------------
(* The loop's sleep ends, or the route is called.                          *)
Begin(c) ==
    /\ pc[c] = "idle"
    /\ Goto(c, "fetch")
    /\ seenFree' = [seenFree EXCEPT ![c] = Sku \ suppressed]
    /\ UNCHANGED <<eligible, suppressed, found, kept, batch, sent, last>>

(* get_warehouse_state, then pairs, feasibility, scores, one candidate per *)
(* SKU.                                                                    *)
Fetch(c) ==
    /\ pc[c] = "fetch"
    /\ found' = [found EXCEPT ![c] = eligible]
    /\ Goto(c, "filter")
    /\ UNCHANGED <<eligible, suppressed, kept, batch, sent, last, seenFree>>

PassesAlways(s) == TRUE

(* is_sku_suppressed, asked of the store.                                  *)
Passes(s) == s \notin suppressed

Filter(c, s) ==
    /\ pc[c] = "filter"
    /\ s \in found[c]
    /\ found' = [found EXCEPT ![c] = @ \ {s}]
    /\ kept' = [kept EXCEPT ![c] = IF Passes(s) THEN @ \cup {s} ELSE @]
    /\ UNCHANGED <<eligible, suppressed, pc, batch, sent, last, seenFree>>

(* The first n of a list in any order.                                     *)
Top(skus, n) ==
    {top \in SUBSET skus : Cardinality(top) = Lesser(n, Cardinality(skus))}

SelectReportsCandidates(c) ==
    /\ pc[c] = "filter"
    /\ found[c] = {}
    /\ \E top \in Top(kept[c], MaxCandidates) : \E first \in Top(top, BatchSize) :
          /\ kept' = [kept EXCEPT ![c] = top]
          /\ batch' = [batch EXCEPT ![c] = first]
          /\ last' = [last EXCEPT !.candidates = top]
    /\ Goto(c, "dispatch")
    /\ UNCHANGED <<eligible, suppressed, found, sent, seenFree>>

(* The top candidates are returned, and the top of these to be pushed.     *)
Select(c) ==
    /\ pc[c] = "filter"
    /\ found[c] = {}
    /\ \E top \in Top(kept[c], MaxCandidates) : \E first \in Top(top, BatchSize) :
          /\ kept' = [kept EXCEPT ![c] = top]
          /\ batch' = [batch EXCEPT ![c] = first]
    /\ Goto(c, "dispatch")
    /\ UNCHANGED <<eligible, suppressed, found, sent, last, seenFree>>

(* One push of the loop over the batch.                                    *)
Dispatch(c, s) ==
    /\ pc[c] = "dispatch"
    /\ s \in batch[c]
    /\ batch' = [batch EXCEPT ![c] = @ \ {s}]
    /\ sent' = [sent EXCEPT ![c] = @ \cup {s}]
    /\ UNCHANGED <<eligible, suppressed, pc, found, kept, last, seenFree>>

(* What get_status will report the sizes of.                               *)
Report(c) == last' = [candidates |-> kept[c], dispatched |-> sent[c]]

(* The statistics, set together after the last push.                       *)
Finish(c) ==
    /\ pc[c] = "dispatch"
    /\ batch[c] = {}
    /\ Report(c)
    /\ Goto(c, "announce")
    /\ UNCHANGED <<eligible, suppressed, found, kept, batch, sent, seenFree>>

(* The cycle_complete event; then the loop sleeps, the route answers.      *)
Announce(c) ==
    /\ pc[c] = "announce"
    /\ End(c, "idle")

PlaceAfterFailureReturned(c) == "returned"

(* The loop catches and sleeps again; the route answers 500.               *)
PlaceAfterFailure(c) == "idle"

(* The WMS or Redis raises: what was pushed stays pushed, no statistics.   *)
Fail(c) ==
    /\ pc[c] \in {"fetch", "filter", "dispatch"}
    /\ End(c, PlaceAfterFailure(c))

(* Shutdown cancels the loop at whatever it awaits.                        *)
Shutdown ==
    /\ pc[Loop] # "cancelled"
    /\ End(Loop, "cancelled")

-----------------------------------------------------------------------------
(* The surroundings: operators and the clock change what is suppressed,    *)
(* the warehouse what is eligible.                                         *)

Suppress(s) ==
    /\ s \notin suppressed
    /\ suppressed' = suppressed \cup {s}
    /\ UNCHANGED <<eligible, cycleVars, last, seenFree>>

Unsuppress(s) ==
    /\ s \in suppressed
    /\ suppressed' = suppressed \ {s}
    /\ seenFree' = [c \in Cycle |->
          IF pc[c] \in {"idle", "cancelled"} THEN {} ELSE seenFree[c] \cup {s}]
    /\ UNCHANGED <<eligible, cycleVars, last>>

WarehouseChanges(now) ==
    /\ now # eligible
    /\ eligible' = now
    /\ UNCHANGED <<suppressed, cycleVars, last, seenFree>>

Step(c) ==
    \/ Fetch(c) \/ Select(c) \/ Finish(c) \/ Announce(c)
    \/ \E s \in Sku : Filter(c, s) \/ Dispatch(c, s)

Next ==
    \/ \E c \in Cycle : Begin(c) \/ Step(c) \/ Fail(c)
    \/ Shutdown
    \/ \E s \in Sku : Suppress(s) \/ Unsuppress(s)
    \/ \E now \in SUBSET Sku : WarehouseChanges(now)

Spec == Init /\ [][Next]_vars

(* The sleep ends, and the WMS and Redis answer or raise.                  *)
FairSpec ==
    /\ Spec
    /\ WF_vars(Begin(Loop))
    /\ \A c \in Cycle : WF_vars(Step(c) \/ Fail(c))

-----------------------------------------------------------------------------
(* A SKU that was suppressed throughout a cycle is not among its           *)
(* candidates and is not dispatched by it, whatever was rejected, cleared  *)
(* or lapsed meanwhile.                                                    *)
SuppressedThroughoutIsNotSent ==
    \A c \in Cycle : kept[c] \cup sent[c] \subseteq seenFree[c]

(* A cycle dispatches distinct SKUs, at most a batch of them, all of them  *)
(* candidates it returns; a cycle that is cut short dispatches fewer.      *)
BatchIsBounded ==
    \A c \in Cycle :
        /\ sent[c] \cap batch[c] = {}
        /\ Cardinality(sent[c] \cup batch[c]) <= BatchSize
        /\ sent[c] \cup batch[c] \subseteq kept[c]

(* The two numbers of the status route are of one and the same cycle, one  *)
(* that dispatched all it could of its candidates: the dispatched SKUs are *)
(* of those candidates, although cycles overlap and fail half way.         *)
StatusIsOfOneCycle ==
    /\ last.dispatched \subseteq last.candidates
    /\ Cardinality(last.dispatched) = Lesser(BatchSize, Cardinality(last.candidates))

(* What makes these properties inductive: what a cycle holds in each       *)
(* phase, and that it has seen every SKU that is now unsuppressed.         *)
Phases ==
    \A c \in Cycle :
        /\ pc[c] \in {"idle", "cancelled"} => kept[c] = {}
        /\ pc[c] \notin {"dispatch", "announce"} => sent[c] = {} /\ batch[c] = {}
        /\ pc[c] = "announce" => batch[c] = {}
        /\ sent[c] \cup batch[c] \subseteq kept[c]
        /\ sent[c] \cap batch[c] = {}
        /\ pc[c] \in {"dispatch", "announce"} =>
              Cardinality(sent[c] \cup batch[c]) = Lesser(BatchSize, Cardinality(kept[c]))

FreeIsSeen ==
    \A c \in Cycle : pc[c] \notin {"idle", "cancelled"} => Sku \ suppressed \subseteq seenFree[c]

SchedulerInvariant ==
    /\ TypeOK
    /\ Phases
    /\ FreeIsSeen
    /\ SuppressedThroughoutIsNotSent
    /\ StatusIsOfOneCycle

(* The loop runs cycle after cycle, whatever raises and whatever overlaps   *)
(* with it, until shutdown.                                                *)
LoopGoesOn ==
    <>(pc[Loop] = "cancelled") \/ []<>(pc[Loop] = "fetch")

-----------------------------------------------------------------------------
(* "SKUs with active rejections are filtered out before dispatch" (the     *)
(* scheduler's rejection_store argument): no SKU is dispatched while it is *)
(* suppressed.                                                             *)
SuppressedIsNotSent ==
    [][\A c \in Cycle : \A s \in sent'[c] \ sent[c] : s \notin suppressed]_vars
=============================================================================
