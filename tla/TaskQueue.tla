------------------------------ MODULE TaskQueue ------------------------------
(***************************************************************************)
(* The Redis-backed movement queue (src/dispatch/task_queue.py) together   *)
(* with the calls that change a task in it: the acknowledge and complete   *)
(* routes (src/api/routes/movements.py) and the expiry sweep.              *)
(*                                                                         *)
(* The program is one asyncio process.  Between two `await`s a call runs   *)
(* alone; at an `await` every other call, and the clock of the Redis       *)
(* server, may move.  So each Redis command a call awaits is one action    *)
(* here, together with the Python code up to the next `await`.  A pipeline *)
(* is a MULTI/EXEC transaction and therefore a single action.              *)
(*                                                                         *)
(* A task is its status.  Scores only order the ids a scan visits, and the *)
(* scan visits them here in any order.  Times to live are abstracted to    *)
(* the order of their endings: the expiry marker of a task always ends     *)
(* before its data (15 min against 16 min, set in one transaction).        *)
(***************************************************************************)
EXTENDS Naturals, FiniteSets

CONSTANTS
    Task,     \* the movement ids the system may ever generate
    Request,  \* the calls it ever serves; a call is used once
    NoTask    \* the argument of a call that has none yet

ASSUME NoTaskAssumption == NoTask \notin Task

VARIABLES
    data,        \* movements:data:<id>, its status, or "NONE" when the key is absent
    volatile,    \* the tasks whose data key carries a time to live
    pending,     \* movements:pending, the sorted set of queued ids
    marker,      \* the tasks whose movements:expiry:<id> key is alive
    pushed,      \* the ids already used: a movement id is a fresh uuid4
    completions, \* MOVEMENTS_COMPLETED, kept per task
    depth,       \* the QUEUE_DEPTH gauge
    announced,   \* the last status broadcast for a task, or "NONE"
    pc,          \* where each call stands
    target,      \* the status a call wants to write
    task,        \* the task a call is about
    todo         \* the ids a sweep still has to visit

redisVars == <<data, volatile, pending, marker>>
metricVars == <<completions, depth, announced>>
callVars == <<pc, target, task, todo>>
vars == <<redisVars, pushed, metricVars, callVars>>

-----------------------------------------------------------------------------
(* Statuses and the places where a call may stand.                         *)

Status == {"PENDING", "IN_PROGRESS", "COMPLETED", "CANCELLED"}
Target == {"IN_PROGRESS", "COMPLETED", "CANCELLED"}

TerminalCompletedOnly == {"COMPLETED"}
TerminalCancelledOnly == {"CANCELLED"}

(* The statuses after which update_status drops the id from the queue.     *)
Terminal == {"COMPLETED", "CANCELLED"}

AcceptedEvenFinished(goal) ==
    CASE goal = "IN_PROGRESS" -> {"PENDING"}
      [] goal = "COMPLETED"   -> Status
      [] OTHER                -> {}

(* The statuses in which the route that writes goal accepts a task; it     *)
(* answers 409 in every other one (404 when there is no data).             *)
Accepted(goal) ==
    CASE goal = "IN_PROGRESS" -> {"PENDING"}
      [] goal = "COMPLETED"   -> {"PENDING", "IN_PROGRESS"}
      [] OTHER                -> {}

Place == {"idle", "lookup", "scan", "check", "get", "set", "zrem", "zcard",
          "broadcast", "done", "failed"}

InFlight == {r \in Request : pc[r] \notin {"idle", "done", "failed"}}

Goto(r, place) == pc' = [pc EXCEPT ![r] = place]

AfterUpdateLeavesSweep(r) == IF target[r] = "CANCELLED" THEN "done" ELSE "broadcast"

(* Where update_status returns to: the sweep's loop or the route.          *)
AfterUpdate(r) == IF target[r] = "CANCELLED" THEN "check" ELSE "broadcast"

TypeOK ==
    /\ data \in [Task -> Status \cup {"NONE"}]
    /\ volatile \subseteq Task
    /\ pending \subseteq Task
    /\ marker \subseteq Task
    /\ pushed \subseteq Task
    /\ completions \in [Task -> Nat]
    /\ depth \in Nat
    /\ announced \in [Task -> Target \cup {"NONE"}]
    /\ pc \in [Request -> Place]
    /\ target \in [Request -> Target \cup {"NONE"}]
    /\ task \in [Request -> Task \cup {NoTask}]
    /\ todo \in [Request -> SUBSET Task]

Init ==
    /\ data = [t \in Task |-> "NONE"]
    /\ volatile = {}
    /\ pending = {}
    /\ marker = {}
    /\ pushed = {}
    /\ completions = [t \in Task |-> 0]
    /\ depth = 0
    /\ announced = [t \in Task |-> "NONE"]
    /\ pc = [r \in Request |-> "idle"]
    /\ target = [r \in Request |-> "NONE"]
    /\ task = [r \in Request |-> NoTask]
    /\ todo = [r \in Request |-> {}]

-----------------------------------------------------------------------------
(* push: data, sorted-set entry and expiry marker in one transaction.  The *)
(* depth gauge is left alone.                                              *)
Push(t) ==
    /\ t \notin pushed
    /\ pushed' = pushed \cup {t}
    /\ data' = [data EXCEPT ![t] = "PENDING"]
    /\ volatile' = volatile \cup {t}
    /\ pending' = pending \cup {t}
    /\ marker' = marker \cup {t}
    /\ UNCHANGED <<metricVars, callVars>>

(* Redis ends the time to live of an expiry marker.                        *)
MarkerLapse(t) ==
    /\ t \in marker
    /\ marker' = marker \ {t}
    /\ UNCHANGED <<data, volatile, pending, pushed, metricVars, callVars>>

(* A data key outlives the expiry marker set with it, by a minute.         *)
Lapsable == volatile \ marker

(* Redis ends the time to live of a data key.                              *)
DataLapse(t) ==
    /\ t \in Lapsable
    /\ data' = [data EXCEPT ![t] = "NONE"]
    /\ volatile' = volatile \ {t}
    /\ UNCHANGED <<pending, marker, pushed, metricVars, callVars>>

-----------------------------------------------------------------------------
(* The routes.                                                             *)

(* acknowledge_movement and complete_movement are called with any id.      *)
CallRoute(r, t, goal) ==
    /\ pc[r] = "idle"
    /\ Goto(r, "lookup")
    /\ target' = [target EXCEPT ![r] = goal]
    /\ task' = [task EXCEPT ![r] = t]
    /\ UNCHANGED <<redisVars, pushed, metricVars, todo>>

Acknowledge(r, t) == CallRoute(r, t, "IN_PROGRESS")

Complete(r, t) == CallRoute(r, t, "COMPLETED")

LookupAnnouncesFirst(r) ==
    /\ pc[r] = "lookup"
    /\ Goto(r, IF data[task[r]] \in Accepted(target[r]) THEN "broadcast" ELSE "done")
    /\ UNCHANGED <<redisVars, pushed, metricVars, target, task, todo>>

(* get_task, then the 404 and 409 answers or the call of update_status.    *)
Lookup(r) ==
    /\ pc[r] = "lookup"
    /\ Goto(r, IF data[task[r]] \in Accepted(target[r]) THEN "get" ELSE "done")
    /\ UNCHANGED <<redisVars, pushed, metricVars, target, task, todo>>

(* The task_status_changed event, then the 200 answer.                     *)
Broadcast(r) ==
    /\ pc[r] = "broadcast"
    /\ announced' = [announced EXCEPT ![task[r]] = target[r]]
    /\ Goto(r, "done")
    /\ UNCHANGED <<redisVars, pushed, completions, depth, target, task, todo>>

-----------------------------------------------------------------------------
(* expire_old_tasks.                                                       *)

Expire(r) ==
    /\ pc[r] = "idle"
    /\ Goto(r, "scan")
    /\ target' = [target EXCEPT ![r] = "CANCELLED"]
    /\ UNCHANGED <<redisVars, pushed, metricVars, task, todo>>

(* The ids are read once; the loop below visits this snapshot.             *)
Scan(r) ==
    /\ pc[r] = "scan"
    /\ todo' = [todo EXCEPT ![r] = pending]
    /\ Goto(r, "check")
    /\ UNCHANGED <<redisVars, pushed, metricVars, target, task>>

VisitedRereads(r, t) == pending \ {t}

(* What the loop has still to visit after t: the snapshot, never a new one.*)
Visited(r, t) == todo[r] \ {t}

OverdueAlways(t) == TRUE

(* EXISTS on the marker; the task's status is not looked at.               *)
Overdue(t) == t \notin marker

(* One turn of the loop, up to the call of update_status.                  *)
Check(r, t) ==
    /\ pc[r] = "check"
    /\ t \in todo[r]
    /\ todo' = [todo EXCEPT ![r] = Visited(r, t)]
    /\ \/ ~Overdue(t) /\ UNCHANGED <<pc, task>>
       \/ Overdue(t) /\ Goto(r, "get") /\ task' = [task EXCEPT ![r] = t]
    /\ UNCHANGED <<redisVars, pushed, metricVars, target>>

ScanEnd(r) ==
    /\ pc[r] = "check"
    /\ todo[r] = {}
    /\ Goto(r, "done")
    /\ UNCHANGED <<redisVars, pushed, metricVars, target, task, todo>>

-----------------------------------------------------------------------------
(* update_status: GET, SET, ZREM, ZCARD, each an await of its own.         *)

GetDequeuesFirst(r) ==
    /\ pc[r] = "get"
    /\ Goto(r, CASE data[task[r]] = "NONE"   -> AfterUpdate(r)
                 [] target[r] \in Terminal   -> "zrem"
                 [] OTHER                    -> "set")
    /\ UNCHANGED <<redisVars, pushed, metricVars, target, task, todo>>

(* No data: warn and return, with nothing written.                         *)
Get(r) ==
    /\ pc[r] = "get"
    /\ Goto(r, IF data[task[r]] = "NONE" THEN AfterUpdate(r) ELSE "set")
    /\ UNCHANGED <<redisVars, pushed, metricVars, target, task, todo>>

RewrittenKeepsTtl(t) == volatile

(* A SET without EX drops the key's time to live.                          *)
Rewritten(t) == volatile \ {t}

Set(r) ==
    /\ pc[r] = "set"
    /\ data' = [data EXCEPT ![task[r]] = target[r]]
    /\ volatile' = Rewritten(task[r])
    /\ Goto(r, IF target[r] \in Terminal THEN "zrem" ELSE "zcard")
    /\ UNCHANGED <<pending, marker, pushed, metricVars, target, task, todo>>

CountedWhenCancelled(r) ==
    IF target[r] = "CANCELLED" THEN [completions EXCEPT ![task[r]] = @ + 1]
                               ELSE completions

(* MOVEMENTS_COMPLETED.inc() for a completion, and only for one.           *)
Counted(r) ==
    IF target[r] = "COMPLETED" THEN [completions EXCEPT ![task[r]] = @ + 1]
                               ELSE completions

Zrem(r) ==
    /\ pc[r] = "zrem"
    /\ pending' = pending \ {task[r]}
    /\ completions' = Counted(r)
    /\ Goto(r, "zcard")
    /\ UNCHANGED <<data, volatile, marker, pushed, depth, announced, target,
                   task, todo>>

Zcard(r) ==
    /\ pc[r] = "zcard"
    /\ depth' = Cardinality(pending)
    /\ Goto(r, AfterUpdate(r))
    /\ UNCHANGED <<redisVars, pushed, completions, announced, target, task, todo>>

-----------------------------------------------------------------------------
Step(r) ==
    \/ Lookup(r) \/ Broadcast(r)
    \/ Scan(r) \/ ScanEnd(r) \/ (\E t \in Task : Check(r, t))
    \/ Get(r) \/ Set(r) \/ Zrem(r) \/ Zcard(r)

Clock(t) == MarkerLapse(t) \/ DataLapse(t)

Next ==
    \/ \E t \in Task : Push(t) \/ Clock(t)
    \/ \E r \in Request :
          \/ \E t \in Task : Acknowledge(r, t) \/ Complete(r, t)
          \/ Expire(r)
          \/ Step(r)

(* The Redis client raises at an await, or the process dies: the call ends *)
(* there.  What it wrote before stays; a SET that was applied although its *)
(* reply was lost is the SET followed by an Abort.                         *)
Abort(r) ==
    /\ r \in InFlight
    /\ Goto(r, "failed")
    /\ UNCHANGED <<redisVars, pushed, metricVars, target, task, todo>>

(* ZREM was applied and its reply lost: nothing counts the completion.     *)
RemovalUnanswered(r) ==
    /\ pc[r] = "zrem"
    /\ pending' = pending \ {task[r]}
    /\ Goto(r, "failed")
    /\ UNCHANGED <<data, volatile, marker, pushed, metricVars, target, task, todo>>

Fault(r) == Abort(r) \/ RemovalUnanswered(r)

Spec == Init /\ [][Next]_vars

FaultySpec == Init /\ [][Next \/ \E r \in Request : Fault(r)]_vars

(* Redis answers every command it is sent, so a call in flight moves on;   *)
(* clients and the clock owe nothing.                                      *)
FairSpec == Spec /\ \A r \in Request : WF_vars(Step(r))

-----------------------------------------------------------------------------
(* Safety, for every interleaving of the calls.                            *)

Started == {"IN_PROGRESS", "COMPLETED", "CANCELLED"}
Finished == {"COMPLETED", "CANCELLED"}

(* The call that finished task t and has yet to take it off the queue, or  *)
(* was cut short before it could.                                          *)
Dequeuing(r, t) ==
    pc[r] \in {"zrem", "failed"} /\ task[r] = t /\ target[r] \in Finished

(* A COMPLETED or CANCELLED task is off the queue, unless the very call    *)
(* that finished it stands between its SET and its ZREM, or failed: no     *)
(* interleaving of acknowledge, complete and sweep strands a finished task *)
(* among the pending ones.                                                 *)
FinishedLeavesQueue ==
    \A t \in pending : data[t] \in Finished => \E r \in Request : Dequeuing(r, t)

(* A task whose record says PENDING is in the queue, can still expire and  *)
(* is not about to be removed from the queue: whatever calls are in        *)
(* flight, update_status drops only what it has marked first.              *)
UnstartedStaysQueued ==
    \A t \in Task : data[t] = "PENDING" =>
        /\ t \in pending \cap volatile
        /\ \A r \in Request : pc[r] = "zrem" => task[r] # t

(* Once a task was started, finished or cancelled its record neither       *)
(* vanishes (only an untouched record has a time to live) nor goes back to *)
(* PENDING, even when the record lapses inside a call's read and write.    *)
StartedIsRemembered ==
    [][\A t \in Task : data[t] \in Started => data'[t] \in Started]_vars

(* A task is cancelled only after its start window has ended, although the *)
(* sweep looks at the marker three awaits before it writes.                *)
CancelledOnlyOverdue ==
    \A t \in Task : data[t] = "CANCELLED" => t \notin marker

(* A task on record as COMPLETED is in MOVEMENTS_COMPLETED, or the call    *)
(* that completed it is about to count it (or was cut short before).       *)
CompletionIsCounted ==
    \A t \in Task : data[t] = "COMPLETED" =>
        \/ completions[t] > 0
        \/ \E r \in Request : Dequeuing(r, t) /\ target[r] = "COMPLETED"

(* An id left in the queue without its record is that of an unstarted task *)
(* that outlived its window: a task still inside its window, or ever       *)
(* started, is never listed without data.                                  *)
OrphansAreOverdue ==
    \A t \in pending : data[t] = "NONE" => t \notin marker /\ completions[t] = 0

(* The dashboard is never told that a task was started or completed while  *)
(* its record still says PENDING.                                          *)
AnnouncedIsStarted ==
    \A t \in Task : announced[t] # "NONE" => data[t] # "PENDING"

-----------------------------------------------------------------------------
(* Liveness, when Redis answers.                                           *)

(* Every call comes to an end: the sweep visits a snapshot, so pushes that *)
(* go on meanwhile cannot keep it busy.                                    *)
CallsReturn == \A r \in Request : pc[r] # "idle" ~> pc[r] = "done"

(* A completion that got as far as its write takes the task off the queue. *)
CompletionDequeues ==
    \A r \in Request, t \in Task :
        (pc[r] = "set" /\ task[r] = t /\ target[r] \in Finished) ~> t \notin pending

(* A sweep that still has an overdue task before it gets it off the queue, *)
(* unless the task has no record any more.                                 *)
SweepClearsOverdue ==
    \A r \in Request, t \in Task :
        (t \in todo[r] /\ Overdue(t))
            ~> (t \notin pending \/ data[t] = "NONE")

-----------------------------------------------------------------------------
(* Why the safety properties hold: what is true between any two awaits.    *)

(* A call past its checks, with an id it will act upon.                    *)
Updating == {"get", "set", "zrem", "zcard", "broadcast"}

OnlyPushedIdsAreKnown ==
    /\ pending \cup marker \subseteq pushed
    /\ \A t \in Task \ pushed : data[t] = "NONE" /\ announced[t] = "NONE"
    /\ \A r \in Request :
          /\ todo[r] \subseteq pushed
          /\ pc[r] \in Updating => task[r] \in pushed

CallsKnowTheirGoal ==
    \A r \in Request :
        /\ pc[r] = "lookup" => task[r] \in Task /\ target[r] \in Target \ {"CANCELLED"}
        /\ pc[r] \in Updating \cup {"check"} => target[r] \in Target
        /\ pc[r] = "check" => target[r] = "CANCELLED"
        /\ pc[r] = "scan" => target[r] = "CANCELLED"
        /\ pc[r] = "zrem" => target[r] \in Finished

WritesPrecedeRemovals ==
    \A r \in Request :
        /\ pc[r] = "zrem" => data[task[r]] \in Started
        /\ pc[r] \in {"zcard", "broadcast"} => data[task[r]] # "PENDING"

SweepsKnowTheirTaskIsOverdue ==
    \A r \in Request :
        pc[r] \in Updating /\ target[r] = "CANCELLED" => task[r] \notin marker

OnlyUntouchedRecordsLapse ==
    /\ \A t \in volatile : data[t] = "PENDING"
    /\ \A t \in marker : data[t] # "NONE"
    /\ \A t \in Task : data[t] \in {"NONE", "PENDING"} => completions[t] = 0

(* The inductive invariant behind the safety properties above: it holds at *)
(* every await, whatever calls, lapses and failures surround it.           *)
QueueInvariant ==
    /\ TypeOK
    /\ IsFiniteSet(pending)
    /\ OnlyPushedIdsAreKnown
    /\ CallsKnowTheirGoal
    /\ WritesPrecedeRemovals
    /\ SweepsKnowTheirTaskIsOverdue
    /\ OnlyUntouchedRecordsLapse
    /\ FinishedLeavesQueue
    /\ UnstartedStaysQueued
    /\ CancelledOnlyOverdue
    /\ CompletionIsCounted
    /\ OrphansAreOverdue
    /\ AnnouncedIsStarted
=============================================================================
