--------------------------- MODULE TaskQueueSerial ---------------------------
(***************************************************************************)
(* The queue when its callers take turns (one operator, no sweep running   *)
(* under a request): it then implements TaskLifecycle.  The same           *)
(* statements are checked without the turns, where the code breaks them.   *)
(***************************************************************************)
EXTENDS TaskQueue

Alone == \A r, s \in InFlight : r = s

SerialSpec == Init /\ [][Next /\ Alone']_vars

Quiet == InFlight = {}

-----------------------------------------------------------------------------
(* A call that has read a record still holds it when the key lapses under  *)
(* it, and will write it back.                                             *)
Held(t) == \E r \in Request : pc[r] = "set" /\ task[r] = t

statusOf ==
    [t \in Task |->
        IF t \notin pushed THEN "UNBORN"
        ELSE IF data[t] # "NONE" THEN data[t]
        ELSE IF Held(t) THEN "PENDING" ELSE "LOST"]

Lifecycle == INSTANCE TaskLifecycle WITH status <- statusOf

(* What the call whose turn it is may still rely on: the status it was let *)
(* in with, or an absent record; and a sweep's ids are those of live tasks.*)
Turns ==
    /\ Alone
    /\ \A r \in Request :
          /\ pc[r] # "failed"
          /\ pc[r] \in {"get", "set"} =>
                data[task[r]] \in {"NONE", "PENDING"} \cup
                    (IF target[r] = "IN_PROGRESS" THEN {} ELSE {"IN_PROGRESS"})
          /\ pc[r] \in Updating \cup {"check"} =>
                \A t \in todo[r] : data[t] \notin Finished
          /\ pc[r] \in Updating => task[r] \notin todo[r]
          /\ pc[r] \in Updating /\ target[r] # "CANCELLED" => todo[r] = {}
          /\ pc[r] \in {"idle", "lookup", "scan"} => todo[r] = {}

(* Each call leaves the books in order: what is not finished is queued,    *)
(* and what was counted is finished.                                       *)
BooksAreKept ==
    /\ \A t \in pushed : data[t] \notin Finished => t \in pending
    /\ \A r \in Request :
          pc[r] = "zrem" => data[task[r]] = target[r] /\ completions[task[r]] = 0
    /\ \A t \in Task :
          /\ completions[t] \in {0, 1}
          /\ completions[t] = 1 => data[t] \in Finished

(* Callers that take turns see every task go through its life in order,    *)
(* and nothing else: dispatched, started, then completed or cancelled once *)
(* and for all, or lost untouched.                                         *)
ImplementsLifecycle == Lifecycle!Spec

(* No task is counted twice in MOVEMENTS_COMPLETED.                        *)
CountedOnce == \A t \in Task : completions[t] <= 1

(* Between calls the sorted set holds the tasks that are pending or in     *)
(* progress, and the orphans whose record lapsed; nothing else.            *)
QueueIsTheLiveTasks ==
    Quiet => pending = {t \in pushed : data[t] \in {"NONE", "PENDING", "IN_PROGRESS"}}

-----------------------------------------------------------------------------
(* Statements of the documentation that the code does not keep.            *)

(* "Status transitions: PENDING -> IN_PROGRESS -> COMPLETED | CANCELLED":  *)
(* a COMPLETED or CANCELLED task stays so.                                 *)
FinishedIsFinal ==
    [][\A t \in Task : data[t] \in Finished => data'[t] = data[t]]_vars

(* "Mark PENDING tasks whose expiry key has elapsed as CANCELLED": the     *)
(* sweep cancels tasks that nobody has started.                            *)
SweepCancelsPending ==
    [][\A t \in Task : data'[t] = "CANCELLED" =>
          data[t] \in {"PENDING", "CANCELLED"}]_vars

(* "task_status_changed: Emitted when a task transitions status            *)
(* (acknowledge, complete, cancel)": a cancelled task was announced so.    *)
CancelIsAnnounced ==
    Quiet => \A t \in Task : data[t] = "CANCELLED" => announced[t] = "CANCELLED"

(* "Acknowledge receipt of a task (PENDING -> IN_PROGRESS)": a call that   *)
(* answers with success and an event left the new status on record.        *)
AnnouncedIsOnRecord ==
    \A t \in Task : announced[t] # "NONE" => data[t] # "NONE"

(* "Current number of pending movement tasks in the queue": between calls  *)
(* the QUEUE_DEPTH gauge is the size of the sorted set.                    *)
GaugeIsDepth == Quiet => depth = Cardinality(pending)

-----------------------------------------------------------------------------
(* The application as wired in main.py: nothing ever calls                 *)
(* expire_old_tasks.                                                       *)
AppNext ==
    \/ \E t \in Task : Push(t) \/ Clock(t)
    \/ \E r \in Request :
          (\E t \in Task : Acknowledge(r, t) \/ Complete(r, t)) \/ Step(r)

(* The clock runs and Redis answers.                                       *)
AppSpec ==
    /\ Init /\ [][AppNext]_vars
    /\ \A r \in Request : WF_vars(Step(r))
    /\ \A t \in Task : WF_vars(Clock(t))

(* "A PENDING task not started within 15 minutes auto-cancels".            *)
OverdueIsCancelled ==
    \A t \in Task :
        (data[t] = "PENDING" /\ t \notin marker) ~> data[t] \in Started
=============================================================================
