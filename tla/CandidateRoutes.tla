--------------------------- MODULE CandidateRoutes ---------------------------
(***************************************************************************)
(* What an operator does with candidates (src/api/routes/movements.py,     *)
(* src/api/routes/scoring.py): look at them, then approve or reject one by *)
(* its id, or ask why it scores as it does.  No route and no cycle keeps   *)
(* the candidates it generated; each generates its own, and a candidate's  *)
(* id is a uuid4 made with it (src/models/movements.py).                   *)
(***************************************************************************)
EXTENDS Naturals, FiniteSets

CONSTANTS
    Sku,
    MaxIds  \* bound: ids generated in a behaviour

VARIABLES
    eligible,   \* SKUs with a feasible, well-scored candidate
    suppressed, \* SKUs with a rejection in force
    minted,     \* ids generated so far
    shown,      \* <<id, SKU>> of every candidate returned to a client
    tasks,      \* ids pushed to the queue
    refused,    \* ids whose approval was answered 404
    rejected,   \* ids recorded as rejected
    unexplained \* ids whose explanation was answered 404

vars == <<eligible, suppressed, minted, shown, tasks, refused, rejected, unexplained>>

Id == 1..MaxIds

TypeOK ==
    /\ eligible \subseteq Sku
    /\ suppressed \subseteq Sku
    /\ minted \in 0..MaxIds
    /\ shown \subseteq Id \X Sku
    /\ tasks \subseteq Id
    /\ refused \subseteq Id
    /\ rejected \subseteq Id
    /\ unexplained \subseteq Id

Init ==
    /\ eligible \in SUBSET Sku
    /\ suppressed = {}
    /\ minted = 0
    /\ shown = {}
    /\ tasks = {}
    /\ refused = {}
    /\ rejected = {}
    /\ unexplained = {}

Offered == eligible \ suppressed

(* generate_candidates: a fresh id for each SKU on offer, and the count of *)
(* ids after it.                                                           *)
Minted == minted + Cardinality(Offered)

Generated ==
    {ids \in [Offered -> (minted + 1)..Minted] :
        \A s, u \in Offered : ids[s] = ids[u] => s = u}

-----------------------------------------------------------------------------
GetCandidates ==
    /\ Minted <= MaxIds
    /\ minted' = Minted
    /\ \E ids \in Generated : shown' = shown \cup {<<ids[s], s>> : s \in Offered}
    /\ UNCHANGED <<eligible, suppressed, tasks, refused, rejected, unexplained>>

(* A background cycle dispatches some of its own candidates.               *)
Cycle ==
    /\ Minted <= MaxIds
    /\ minted' = Minted
    /\ \E ids \in Generated : \E batch \in SUBSET Offered :
          tasks' = tasks \cup {ids[s] : s \in batch}
    /\ UNCHANGED <<eligible, suppressed, shown, refused, rejected, unexplained>>

(* 404 when no candidate generated now has the id.                         *)
Approve(id) ==
    /\ Minted <= MaxIds
    /\ minted' = Minted
    /\ \E ids \in Generated :
          IF \E s \in Offered : ids[s] = id
          THEN tasks' = tasks \cup {id} /\ UNCHANGED refused
          ELSE refused' = refused \cup {id} /\ UNCHANGED tasks
    /\ UNCHANGED <<eligible, suppressed, shown, rejected, unexplained>>

(* The rejection is recorded whether or not its SKU could be resolved.     *)
Reject(id) ==
    /\ Minted <= MaxIds
    /\ minted' = Minted
    /\ rejected' = rejected \cup {id}
    /\ \E ids \in Generated :
          suppressed' = suppressed \cup {s \in Offered : ids[s] = id}
    /\ UNCHANGED <<eligible, shown, tasks, refused, unexplained>>

(* explain_score looks among candidates of its own, too.                   *)
ExplainScore(id) ==
    /\ Minted <= MaxIds
    /\ minted' = Minted
    /\ \E ids \in Generated :
          unexplained' = IF \E s \in Offered : ids[s] = id THEN unexplained
                         ELSE unexplained \cup {id}
    /\ UNCHANGED <<eligible, suppressed, shown, tasks, refused, rejected>>

WarehouseChanges(now) ==
    /\ now # eligible
    /\ eligible' = now
    /\ UNCHANGED <<suppressed, minted, shown, tasks, refused, rejected, unexplained>>

Next ==
    \/ GetCandidates
    \/ Cycle
    \/ \E candidate \in shown :
          Approve(candidate[1]) \/ Reject(candidate[1]) \/ ExplainScore(candidate[1])
    \/ \E now \in SUBSET Sku : WarehouseChanges(now)

Spec == Init /\ [][Next]_vars

-----------------------------------------------------------------------------
(* "Approve a candidate movement and dispatch it as a task": an operator   *)
(* who approves a candidate he was shown, and whose SKU is still on offer, *)
(* is not told that there is no such candidate.                            *)
ApprovalIsNotRefused ==
    [][\A candidate \in shown :
          candidate[2] \in Offered => candidate[1] \notin refused' \ refused]_vars

(* "The candidate's SKU is suppressed from the scheduler", once rejected.  *)
RejectionSuppresses ==
    [][\A candidate \in shown :
          candidate[1] \in rejected' \ rejected => candidate[2] \in suppressed']_vars

(* "Return detailed score breakdown for a candidate movement": of one the  *)
(* operator was shown and whose SKU is still on offer.                     *)
ShownIsExplained ==
    [][\A candidate \in shown :
          candidate[2] \in Offered => candidate[1] \notin unexplained' \ unexplained]_vars
=============================================================================
