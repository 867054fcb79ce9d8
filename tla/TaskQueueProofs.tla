-------------------------- MODULE TaskQueueProofs --------------------------
(***************************************************************************)
(* TaskQueue is correct for every set of tasks and every number of         *)
(* concurrent calls, with calls that fail anywhere.  QueueInvariant is     *)
(* inductive: one lemma per action, one step per conjunct it can disturb.  *)
(* With callers that take turns the queue implements TaskLifecycle, and a  *)
(* listing beside any calls has what stays queued.                         *)
(***************************************************************************)
EXTENDS TaskQueueSerial, TaskListing, FiniteSetTheorems, TLAPS

(* Nothing is known of any task or call at the start.                      *)
LEMMA InitInvariant == Init => QueueInvariant
<1> SUFFICES ASSUME Init PROVE QueueInvariant
  OBVIOUS
<1> USE DEF Init
<1>1. TypeOK
  BY DEF TypeOK, Status, Target, Place
<1>2. IsFiniteSet(pending)
  BY FS_EmptySet
<1>3. OnlyPushedIdsAreKnown /\ CallsKnowTheirGoal /\ WritesPrecedeRemovals
        /\ SweepsKnowTheirTaskIsOverdue /\ OnlyUntouchedRecordsLapse
  BY DEF OnlyPushedIdsAreKnown, CallsKnowTheirGoal, WritesPrecedeRemovals,
        SweepsKnowTheirTaskIsOverdue, OnlyUntouchedRecordsLapse, Updating
<1>4. FinishedLeavesQueue /\ UnstartedStaysQueued /\ CancelledOnlyOverdue
        /\ CompletionIsCounted /\ OrphansAreOverdue /\ AnnouncedIsStarted
  BY DEF FinishedLeavesQueue, UnstartedStaysQueued, CancelledOnlyOverdue,
        CompletionIsCounted, OrphansAreOverdue, AnnouncedIsStarted
<1> QED
  BY <1>1, <1>2, <1>3, <1>4 DEF QueueInvariant

(* Stuttering.                                                             *)
LEMMA StutterKeeps ==
    ASSUME QueueInvariant, UNCHANGED vars
    PROVE  QueueInvariant'
BY DEF QueueInvariant, vars, redisVars, metricVars, callVars, TypeOK,
       OnlyPushedIdsAreKnown, CallsKnowTheirGoal, WritesPrecedeRemovals,
       SweepsKnowTheirTaskIsOverdue, OnlyUntouchedRecordsLapse,
       FinishedLeavesQueue, UnstartedStaysQueued, CancelledOnlyOverdue,
       CompletionIsCounted, OrphansAreOverdue, AnnouncedIsStarted, Dequeuing

(* A pushed id is fresh: no call, marker or record knows it yet.           *)
LEMMA PushKeeps ==
    ASSUME QueueInvariant, NEW t \in Task, Push(t)
    PROVE  QueueInvariant'
<1> USE DEF QueueInvariant, Push, metricVars, callVars
<1>1. TypeOK'
  BY DEF TypeOK, Status
<1>2. IsFiniteSet(pending)'
  BY FS_AddElement
<1>3. OnlyPushedIdsAreKnown'
  BY DEF OnlyPushedIdsAreKnown
<1>4. WritesPrecedeRemovals'
  BY DEF WritesPrecedeRemovals, OnlyPushedIdsAreKnown, Updating
<1>5. SweepsKnowTheirTaskIsOverdue'
  BY DEF SweepsKnowTheirTaskIsOverdue, OnlyPushedIdsAreKnown
<1>6. OnlyUntouchedRecordsLapse'
  BY DEF OnlyUntouchedRecordsLapse, OnlyPushedIdsAreKnown, TypeOK
<1>7. FinishedLeavesQueue'
  BY DEF FinishedLeavesQueue, Finished, Dequeuing, TypeOK
<1>8. UnstartedStaysQueued'
  BY DEF UnstartedStaysQueued, OnlyPushedIdsAreKnown, Updating
<1>9. CancelledOnlyOverdue'
  BY DEF CancelledOnlyOverdue, TypeOK
<1>10. CompletionIsCounted'
  BY DEF CompletionIsCounted, Dequeuing
<1>11. OrphansAreOverdue'
  BY DEF OrphansAreOverdue, TypeOK
<1>12. AnnouncedIsStarted'
  BY DEF AnnouncedIsStarted, OnlyPushedIdsAreKnown
<1>13. CallsKnowTheirGoal'
  BY DEF CallsKnowTheirGoal
<1> QED
  BY <1>1, <1>2, <1>3, <1>4, <1>5, <1>6, <1>7, <1>8, <1>9, <1>10, <1>11,
     <1>12, <1>13

(* The end of a start window only takes a marker away.                     *)
LEMMA MarkerLapseKeeps ==
    ASSUME QueueInvariant, NEW t \in Task, MarkerLapse(t)
    PROVE  QueueInvariant'
<1> USE DEF QueueInvariant, MarkerLapse, metricVars, callVars
<1>1. TypeOK'
  BY DEF TypeOK
<1>2. OnlyPushedIdsAreKnown'
  BY DEF OnlyPushedIdsAreKnown
<1>3. SweepsKnowTheirTaskIsOverdue'
  BY DEF SweepsKnowTheirTaskIsOverdue
<1>4. OnlyUntouchedRecordsLapse'
  BY DEF OnlyUntouchedRecordsLapse
<1>5. CancelledOnlyOverdue'
  BY DEF CancelledOnlyOverdue
<1>6. OrphansAreOverdue'
  BY DEF OrphansAreOverdue
<1>7. (IsFiniteSet(pending) /\ CallsKnowTheirGoal /\ WritesPrecedeRemovals /\
         FinishedLeavesQueue /\ UnstartedStaysQueued /\ CompletionIsCounted /\
         AnnouncedIsStarted)'
  BY DEF CallsKnowTheirGoal, WritesPrecedeRemovals, FinishedLeavesQueue,
      UnstartedStaysQueued, CompletionIsCounted, AnnouncedIsStarted, Dequeuing
<1> QED
  BY <1>1, <1>2, <1>3, <1>4, <1>5, <1>6, <1>7

(* A record that lapses was PENDING and its marker is gone.                *)
LEMMA DataLapseKeeps ==
    ASSUME QueueInvariant, NEW t \in Task, DataLapse(t)
    PROVE  QueueInvariant'
<1> USE DEF QueueInvariant, DataLapse, metricVars, callVars, Lapsable
<1>1. TypeOK'
  BY DEF TypeOK
<1>2. OnlyPushedIdsAreKnown'
  BY DEF OnlyPushedIdsAreKnown
<1>3. WritesPrecedeRemovals'
  BY DEF WritesPrecedeRemovals, OnlyUntouchedRecordsLapse, Started
<1>4. OnlyUntouchedRecordsLapse'
  BY DEF OnlyUntouchedRecordsLapse
<1>5. FinishedLeavesQueue'
  BY DEF FinishedLeavesQueue, Finished, Dequeuing
<1>6. UnstartedStaysQueued'
  BY DEF UnstartedStaysQueued, TypeOK
<1>7. CancelledOnlyOverdue'
  BY DEF CancelledOnlyOverdue
<1>8. CompletionIsCounted'
  BY DEF CompletionIsCounted, Dequeuing
<1>9. OrphansAreOverdue'
  BY DEF OrphansAreOverdue, OnlyUntouchedRecordsLapse
<1>10. AnnouncedIsStarted'
  BY DEF AnnouncedIsStarted
<1>11. (IsFiniteSet(pending) /\ CallsKnowTheirGoal /\
         SweepsKnowTheirTaskIsOverdue)'
  BY DEF CallsKnowTheirGoal, SweepsKnowTheirTaskIsOverdue
<1> QED
  BY <1>1, <1>2, <1>3, <1>4, <1>5, <1>6, <1>7, <1>8, <1>9, <1>10, <1>11

(* acknowledge and complete begin with a lookup.                           *)
LEMMA CallRouteKeeps ==
    ASSUME QueueInvariant,
           NEW r \in Request, NEW t \in Task, NEW goal \in Target \ {"CANCELLED"},
           CallRoute(r, t, goal)
    PROVE  QueueInvariant'
<1> USE DEF QueueInvariant, CallRoute, Goto, redisVars, metricVars
<1>1. TypeOK'
  BY DEF TypeOK, Place
<1>2. OnlyPushedIdsAreKnown'
  BY DEF OnlyPushedIdsAreKnown, Updating
<1>3. CallsKnowTheirGoal'
  BY DEF CallsKnowTheirGoal, TypeOK
<1>4. WritesPrecedeRemovals'
  BY DEF WritesPrecedeRemovals
<1>5. SweepsKnowTheirTaskIsOverdue'
  BY DEF SweepsKnowTheirTaskIsOverdue, TypeOK
<1>6. FinishedLeavesQueue'
  BY DEF FinishedLeavesQueue, Dequeuing
<1>7. UnstartedStaysQueued'
  BY DEF UnstartedStaysQueued
<1>8. CompletionIsCounted'
  BY DEF CompletionIsCounted, Dequeuing
<1>9. (IsFiniteSet(pending) /\ OnlyUntouchedRecordsLapse /\
         CancelledOnlyOverdue /\ OrphansAreOverdue /\ AnnouncedIsStarted)'
  BY DEF OnlyUntouchedRecordsLapse, CancelledOnlyOverdue, OrphansAreOverdue,
      AnnouncedIsStarted
<1> QED
  BY <1>1, <1>2, <1>3, <1>4, <1>5, <1>6, <1>7, <1>8, <1>9

(* A task that is accepted has a record, so its id was pushed.             *)
LEMMA LookupKeeps ==
    ASSUME QueueInvariant, NEW r \in Request, Lookup(r)
    PROVE  QueueInvariant'
<1> USE DEF QueueInvariant, Lookup, Goto, redisVars, metricVars, Accepted
<1>1. TypeOK'
  BY DEF TypeOK, Place
<1>2. OnlyPushedIdsAreKnown'
  BY DEF OnlyPushedIdsAreKnown, CallsKnowTheirGoal, Updating
<1>3. CallsKnowTheirGoal'
  BY DEF CallsKnowTheirGoal
<1>4. WritesPrecedeRemovals'
  BY DEF WritesPrecedeRemovals
<1>5. SweepsKnowTheirTaskIsOverdue'
  BY DEF SweepsKnowTheirTaskIsOverdue, Updating
<1>6. FinishedLeavesQueue'
  BY DEF FinishedLeavesQueue, Dequeuing
<1>7. UnstartedStaysQueued'
  BY DEF UnstartedStaysQueued
<1>8. CompletionIsCounted'
  BY DEF CompletionIsCounted, Dequeuing
<1>9. (IsFiniteSet(pending) /\ OnlyUntouchedRecordsLapse /\
         CancelledOnlyOverdue /\ OrphansAreOverdue /\ AnnouncedIsStarted)'
  BY DEF OnlyUntouchedRecordsLapse, CancelledOnlyOverdue, OrphansAreOverdue,
      AnnouncedIsStarted
<1> QED
  BY <1>1, <1>2, <1>3, <1>4, <1>5, <1>6, <1>7, <1>8, <1>9

(* By the time of the event the record is not PENDING any more.            *)
LEMMA BroadcastKeeps ==
    ASSUME QueueInvariant, NEW r \in Request, Broadcast(r)
    PROVE  QueueInvariant'
<1> USE DEF QueueInvariant, Broadcast, Goto, redisVars
<1>1. TypeOK'
  BY DEF TypeOK, Place
<1>2. OnlyPushedIdsAreKnown'
  BY DEF OnlyPushedIdsAreKnown, Updating
<1>3. CallsKnowTheirGoal'
  BY DEF CallsKnowTheirGoal, Updating
<1>4. WritesPrecedeRemovals'
  BY DEF WritesPrecedeRemovals
<1>5. SweepsKnowTheirTaskIsOverdue'
  BY DEF SweepsKnowTheirTaskIsOverdue, Updating
<1>6. FinishedLeavesQueue'
  BY DEF FinishedLeavesQueue, Dequeuing
<1>7. UnstartedStaysQueued'
  BY DEF UnstartedStaysQueued
<1>8. CompletionIsCounted'
  BY DEF CompletionIsCounted, Dequeuing
<1>9. AnnouncedIsStarted'
  BY DEF AnnouncedIsStarted, WritesPrecedeRemovals
<1>10. (IsFiniteSet(pending) /\ OnlyUntouchedRecordsLapse /\
         CancelledOnlyOverdue /\ OrphansAreOverdue)'
  BY DEF OnlyUntouchedRecordsLapse, CancelledOnlyOverdue, OrphansAreOverdue
<1> QED
  BY <1>1, <1>2, <1>3, <1>4, <1>5, <1>6, <1>7, <1>8, <1>9, <1>10

(* A sweep begins.                                                         *)
LEMMA ExpireKeeps ==
    ASSUME QueueInvariant, NEW r \in Request, Expire(r)
    PROVE  QueueInvariant'
<1> USE DEF QueueInvariant, Expire, Goto, redisVars, metricVars
<1>1. TypeOK'
  BY DEF TypeOK, Target, Place
<1>2. OnlyPushedIdsAreKnown'
  BY DEF OnlyPushedIdsAreKnown, Updating
<1>3. CallsKnowTheirGoal'
  BY DEF CallsKnowTheirGoal, Updating, TypeOK
<1>4. WritesPrecedeRemovals'
  BY DEF WritesPrecedeRemovals
<1>5. SweepsKnowTheirTaskIsOverdue'
  BY DEF SweepsKnowTheirTaskIsOverdue, Updating
<1>6. FinishedLeavesQueue'
  BY DEF FinishedLeavesQueue, Dequeuing
<1>7. UnstartedStaysQueued'
  BY DEF UnstartedStaysQueued
<1>8. CompletionIsCounted'
  BY DEF CompletionIsCounted, Dequeuing
<1>9. (IsFiniteSet(pending) /\ OnlyUntouchedRecordsLapse /\
         CancelledOnlyOverdue /\ OrphansAreOverdue /\ AnnouncedIsStarted)'
  BY DEF OnlyUntouchedRecordsLapse, CancelledOnlyOverdue, OrphansAreOverdue,
      AnnouncedIsStarted
<1> QED
  BY <1>1, <1>2, <1>3, <1>4, <1>5, <1>6, <1>7, <1>8, <1>9

(* A sweep reads the ids in the queue.                                     *)
LEMMA ScanKeeps ==
    ASSUME QueueInvariant, NEW r \in Request, Scan(r)
    PROVE  QueueInvariant'
<1> USE DEF QueueInvariant, Scan, Goto, redisVars, metricVars
<1>1. TypeOK'
  BY DEF TypeOK, Place
<1>2. OnlyPushedIdsAreKnown'
  BY DEF OnlyPushedIdsAreKnown, Updating
<1>3. CallsKnowTheirGoal'
  BY DEF CallsKnowTheirGoal, TypeOK
<1>4. WritesPrecedeRemovals'
  BY DEF WritesPrecedeRemovals
<1>5. SweepsKnowTheirTaskIsOverdue'
  BY DEF SweepsKnowTheirTaskIsOverdue, Updating
<1>6. FinishedLeavesQueue'
  BY DEF FinishedLeavesQueue, Dequeuing
<1>7. UnstartedStaysQueued'
  BY DEF UnstartedStaysQueued
<1>8. CompletionIsCounted'
  BY DEF CompletionIsCounted, Dequeuing
<1>9. (IsFiniteSet(pending) /\ OnlyUntouchedRecordsLapse /\
         CancelledOnlyOverdue /\ OrphansAreOverdue /\ AnnouncedIsStarted)'
  BY DEF OnlyUntouchedRecordsLapse, CancelledOnlyOverdue, OrphansAreOverdue,
      AnnouncedIsStarted
<1> QED
  BY <1>1, <1>2, <1>3, <1>4, <1>5, <1>6, <1>7, <1>8, <1>9

(* A sweep goes on to cancel a task only if its marker is gone.            *)
LEMMA CheckKeeps ==
    ASSUME QueueInvariant, NEW r \in Request, NEW t \in Task, Check(r, t)
    PROVE  QueueInvariant'
<1> USE DEF QueueInvariant, Check, Goto, redisVars, metricVars, Visited,
    Overdue
<1>1. TypeOK'
  BY DEF TypeOK, Place
<1>2. OnlyPushedIdsAreKnown'
  BY DEF OnlyPushedIdsAreKnown, TypeOK
<1>3. CallsKnowTheirGoal'
  BY DEF CallsKnowTheirGoal, TypeOK
<1>4. WritesPrecedeRemovals'
  BY DEF WritesPrecedeRemovals, TypeOK
<1>5. SweepsKnowTheirTaskIsOverdue'
  BY DEF SweepsKnowTheirTaskIsOverdue, TypeOK
<1>6. FinishedLeavesQueue'
  BY DEF FinishedLeavesQueue, Dequeuing, TypeOK
<1>7. UnstartedStaysQueued'
  BY DEF UnstartedStaysQueued, TypeOK
<1>8. CompletionIsCounted'
  BY DEF CompletionIsCounted, Dequeuing, TypeOK
<1>9. (IsFiniteSet(pending) /\ OnlyUntouchedRecordsLapse /\
         CancelledOnlyOverdue /\ OrphansAreOverdue /\ AnnouncedIsStarted)'
  BY DEF OnlyUntouchedRecordsLapse, CancelledOnlyOverdue, OrphansAreOverdue,
      AnnouncedIsStarted
<1> QED
  BY <1>1, <1>2, <1>3, <1>4, <1>5, <1>6, <1>7, <1>8, <1>9

(* A sweep ends.                                                           *)
LEMMA ScanEndKeeps ==
    ASSUME QueueInvariant, NEW r \in Request, ScanEnd(r)
    PROVE  QueueInvariant'
<1> USE DEF QueueInvariant, ScanEnd, Goto, redisVars, metricVars
<1>1. TypeOK'
  BY DEF TypeOK, Place
<1>2. OnlyPushedIdsAreKnown'
  BY DEF OnlyPushedIdsAreKnown, Updating
<1>3. CallsKnowTheirGoal'
  BY DEF CallsKnowTheirGoal
<1>4. WritesPrecedeRemovals'
  BY DEF WritesPrecedeRemovals
<1>5. SweepsKnowTheirTaskIsOverdue'
  BY DEF SweepsKnowTheirTaskIsOverdue, Updating
<1>6. FinishedLeavesQueue'
  BY DEF FinishedLeavesQueue, Dequeuing
<1>7. UnstartedStaysQueued'
  BY DEF UnstartedStaysQueued
<1>8. CompletionIsCounted'
  BY DEF CompletionIsCounted, Dequeuing
<1>9. (IsFiniteSet(pending) /\ OnlyUntouchedRecordsLapse /\
         CancelledOnlyOverdue /\ OrphansAreOverdue /\ AnnouncedIsStarted)'
  BY DEF OnlyUntouchedRecordsLapse, CancelledOnlyOverdue, OrphansAreOverdue,
      AnnouncedIsStarted
<1> QED
  BY <1>1, <1>2, <1>3, <1>4, <1>5, <1>6, <1>7, <1>8, <1>9

(* update_status reads the record.                                         *)
LEMMA GetKeeps ==
    ASSUME QueueInvariant, NEW r \in Request, Get(r)
    PROVE  QueueInvariant'
<1> USE DEF QueueInvariant, Get, Goto, redisVars, metricVars, AfterUpdate
<1>1. TypeOK'
  BY DEF TypeOK, Place
<1>2. OnlyPushedIdsAreKnown'
  BY DEF OnlyPushedIdsAreKnown, Updating
<1>3. CallsKnowTheirGoal'
  BY DEF CallsKnowTheirGoal, Updating
<1>4. WritesPrecedeRemovals'
  BY DEF WritesPrecedeRemovals
<1>5. SweepsKnowTheirTaskIsOverdue'
  BY DEF SweepsKnowTheirTaskIsOverdue, Updating
<1>6. FinishedLeavesQueue'
  BY DEF FinishedLeavesQueue, Dequeuing
<1>7. UnstartedStaysQueued'
  BY DEF UnstartedStaysQueued
<1>8. CompletionIsCounted'
  BY DEF CompletionIsCounted, Dequeuing
<1>9. (IsFiniteSet(pending) /\ OnlyUntouchedRecordsLapse /\
         CancelledOnlyOverdue /\ OrphansAreOverdue /\ AnnouncedIsStarted)'
  BY DEF OnlyUntouchedRecordsLapse, CancelledOnlyOverdue, OrphansAreOverdue,
      AnnouncedIsStarted
<1> QED
  BY <1>1, <1>2, <1>3, <1>4, <1>5, <1>6, <1>7, <1>8, <1>9

(* update_status writes; a call that finishes a task is to dequeue it.     *)
LEMMA SetKeeps ==
    ASSUME QueueInvariant, NEW r \in Request, Set(r)
    PROVE  QueueInvariant'
<1> USE DEF QueueInvariant, Set, Goto, metricVars, Rewritten, Terminal
<1>1. TypeOK'
  BY DEF TypeOK, Target, Status, Place
<1>2. OnlyPushedIdsAreKnown'
  BY DEF OnlyPushedIdsAreKnown, Updating
<1>3. CallsKnowTheirGoal'
  BY DEF CallsKnowTheirGoal, Updating, Finished
<1>4. WritesPrecedeRemovals'
  BY DEF WritesPrecedeRemovals, Target, OnlyPushedIdsAreKnown, CallsKnowTheirGoal,
      Updating, Started, TypeOK
<1>5. SweepsKnowTheirTaskIsOverdue'
  BY DEF SweepsKnowTheirTaskIsOverdue, Updating
<1>6. OnlyUntouchedRecordsLapse'
  BY DEF OnlyUntouchedRecordsLapse, Target, CallsKnowTheirGoal, Updating
<1>7. FinishedLeavesQueue'
  BY DEF FinishedLeavesQueue, Finished, Dequeuing, TypeOK
<1>8. UnstartedStaysQueued'
  BY DEF UnstartedStaysQueued, Target, TypeOK
<1>9. CancelledOnlyOverdue'
  BY DEF CancelledOnlyOverdue, SweepsKnowTheirTaskIsOverdue, Updating
<1>10. CompletionIsCounted'
  BY DEF CompletionIsCounted, Finished, Dequeuing, TypeOK
<1>11. OrphansAreOverdue'
  BY DEF OrphansAreOverdue, Target, CallsKnowTheirGoal, Updating
<1>12. AnnouncedIsStarted'
  BY DEF AnnouncedIsStarted, Target, TypeOK
<1>13. IsFiniteSet(pending)'
  OBVIOUS
<1> QED
  BY <1>1, <1>2, <1>3, <1>4, <1>5, <1>6, <1>7, <1>8, <1>9, <1>10, <1>11,
     <1>12, <1>13

(* Only an id whose record is already started leaves the queue.            *)
LEMMA ZremKeeps ==
    ASSUME QueueInvariant, NEW r \in Request, Zrem(r)
    PROVE  QueueInvariant'
<1> USE DEF QueueInvariant, Zrem, Goto, Counted
<1>1. TypeOK'
  BY DEF TypeOK, Place, OnlyPushedIdsAreKnown, Updating
<1>2. IsFiniteSet(pending)'
  BY FS_RemoveElement
<1>3. OnlyPushedIdsAreKnown'
  BY DEF OnlyPushedIdsAreKnown, Updating
<1>4. CallsKnowTheirGoal'
  BY DEF CallsKnowTheirGoal, Finished, TypeOK
<1>5. WritesPrecedeRemovals'
  BY DEF WritesPrecedeRemovals, Started
<1>6. SweepsKnowTheirTaskIsOverdue'
  BY DEF SweepsKnowTheirTaskIsOverdue, Updating
<1>7. OnlyUntouchedRecordsLapse'
  BY DEF OnlyUntouchedRecordsLapse, WritesPrecedeRemovals, Started
<1>8. FinishedLeavesQueue'
  BY DEF FinishedLeavesQueue, Dequeuing
<1>9. UnstartedStaysQueued'
  BY DEF UnstartedStaysQueued
<1>10. CompletionIsCounted'
  BY DEF CompletionIsCounted, Dequeuing, TypeOK
<1>11. OrphansAreOverdue'
  BY DEF OrphansAreOverdue
<1>12. (CancelledOnlyOverdue /\ AnnouncedIsStarted)'
  BY DEF CancelledOnlyOverdue, AnnouncedIsStarted
<1> QED
  BY <1>1, <1>2, <1>3, <1>4, <1>5, <1>6, <1>7, <1>8, <1>9, <1>10, <1>11, <1>12

(* The gauge is the size of a finite set.                                  *)
LEMMA ZcardKeeps ==
    ASSUME QueueInvariant, NEW r \in Request, Zcard(r)
    PROVE  QueueInvariant'
<1> USE DEF QueueInvariant, Zcard, Goto, redisVars, AfterUpdate
<1>1. TypeOK'
  BY FS_CardinalityType DEF TypeOK, Place
<1>2. OnlyPushedIdsAreKnown'
  BY DEF OnlyPushedIdsAreKnown, Updating
<1>3. CallsKnowTheirGoal'
  BY DEF CallsKnowTheirGoal, Updating
<1>4. WritesPrecedeRemovals'
  BY DEF WritesPrecedeRemovals
<1>5. SweepsKnowTheirTaskIsOverdue'
  BY DEF SweepsKnowTheirTaskIsOverdue, Updating
<1>6. FinishedLeavesQueue'
  BY DEF FinishedLeavesQueue, Dequeuing
<1>7. UnstartedStaysQueued'
  BY DEF UnstartedStaysQueued
<1>8. CompletionIsCounted'
  BY DEF CompletionIsCounted, Dequeuing
<1>9. (IsFiniteSet(pending) /\ OnlyUntouchedRecordsLapse /\
         CancelledOnlyOverdue /\ OrphansAreOverdue /\ AnnouncedIsStarted)'
  BY DEF OnlyUntouchedRecordsLapse, CancelledOnlyOverdue, OrphansAreOverdue,
      AnnouncedIsStarted
<1> QED
  BY <1>1, <1>2, <1>3, <1>4, <1>5, <1>6, <1>7, <1>8, <1>9

(* A call that fails leaves what it wrote, and its place is remembered.    *)
LEMMA AbortKeeps ==
    ASSUME QueueInvariant, NEW r \in Request, Abort(r)
    PROVE  QueueInvariant'
<1> USE DEF QueueInvariant, Abort, Goto, redisVars, metricVars, InFlight
<1>1. TypeOK'
  BY DEF TypeOK, Place
<1>2. OnlyPushedIdsAreKnown'
  BY DEF OnlyPushedIdsAreKnown, Updating
<1>3. CallsKnowTheirGoal'
  BY DEF CallsKnowTheirGoal, Updating
<1>4. WritesPrecedeRemovals'
  BY DEF WritesPrecedeRemovals
<1>5. SweepsKnowTheirTaskIsOverdue'
  BY DEF SweepsKnowTheirTaskIsOverdue, Updating
<1>6. FinishedLeavesQueue'
  BY DEF FinishedLeavesQueue, Dequeuing
<1>7. UnstartedStaysQueued'
  BY DEF UnstartedStaysQueued
<1>8. CompletionIsCounted'
  BY DEF CompletionIsCounted, Dequeuing
<1>9. (IsFiniteSet(pending) /\ OnlyUntouchedRecordsLapse /\
         CancelledOnlyOverdue /\ OrphansAreOverdue /\ AnnouncedIsStarted)'
  BY DEF OnlyUntouchedRecordsLapse, CancelledOnlyOverdue, OrphansAreOverdue,
      AnnouncedIsStarted
<1> QED
  BY <1>1, <1>2, <1>3, <1>4, <1>5, <1>6, <1>7, <1>8, <1>9

(* A lost reply takes the id off the queue, and the call is remembered.    *)
LEMMA RemovalUnansweredKeeps ==
    ASSUME QueueInvariant, NEW r \in Request, RemovalUnanswered(r)
    PROVE  QueueInvariant'
<1> USE DEF QueueInvariant, RemovalUnanswered, Goto, metricVars
<1>1. TypeOK'
  BY DEF TypeOK, Place
<1>2. IsFiniteSet(pending)'
  BY FS_RemoveElement
<1>3. OnlyPushedIdsAreKnown'
  BY DEF OnlyPushedIdsAreKnown, Updating
<1>4. CallsKnowTheirGoal'
  BY DEF CallsKnowTheirGoal, Updating
<1>5. WritesPrecedeRemovals'
  BY DEF WritesPrecedeRemovals, Started
<1>6. SweepsKnowTheirTaskIsOverdue'
  BY DEF SweepsKnowTheirTaskIsOverdue, Updating
<1>7. OnlyUntouchedRecordsLapse'
  BY DEF OnlyUntouchedRecordsLapse, WritesPrecedeRemovals, Started
<1>8. FinishedLeavesQueue'
  BY DEF FinishedLeavesQueue, Dequeuing
<1>9. UnstartedStaysQueued'
  BY DEF UnstartedStaysQueued
<1>10. CompletionIsCounted'
  BY DEF CompletionIsCounted, Dequeuing
<1>11. (CancelledOnlyOverdue /\ OrphansAreOverdue /\ AnnouncedIsStarted)'
  BY DEF CancelledOnlyOverdue, OrphansAreOverdue, AnnouncedIsStarted
<1> QED
  BY <1>1, <1>2, <1>3, <1>4, <1>5, <1>6, <1>7, <1>8, <1>9, <1>10, <1>11

(* Every step, failures included, keeps the invariant.                     *)
LEMMA StepKeepsInvariant ==
    QueueInvariant /\ [Next \/ \E r \in Request : Fault(r)]_vars => QueueInvariant'
<1> SUFFICES ASSUME QueueInvariant, [Next \/ \E r \in Request : Fault(r)]_vars
             PROVE  QueueInvariant'
  OBVIOUS
<1>1. CASE UNCHANGED vars
  BY <1>1, StutterKeeps
<1>2. ASSUME NEW t \in Task, Push(t) \/ Clock(t)
      PROVE  QueueInvariant'
  BY <1>2, PushKeeps, MarkerLapseKeeps, DataLapseKeeps DEF Clock
<1>3. ASSUME NEW r \in Request, NEW t \in Task, Acknowledge(r, t) \/ Complete(r, t)
      PROVE  QueueInvariant'
  <2>1. {"IN_PROGRESS", "COMPLETED"} \subseteq Target \ {"CANCELLED"}
    BY DEF Target
  <2> QED
    BY <1>3, <2>1, CallRouteKeeps DEF Acknowledge, Complete
<1>4. ASSUME NEW r \in Request, Step(r)
      PROVE  QueueInvariant'
  BY <1>4, LookupKeeps, BroadcastKeeps, ScanKeeps, CheckKeeps, ScanEndKeeps,
     GetKeeps, SetKeeps, ZremKeeps, ZcardKeeps DEF Step
<1>5. ASSUME NEW r \in Request, Expire(r) \/ Fault(r)
      PROVE  QueueInvariant'
  BY <1>5, ExpireKeeps, AbortKeeps, RemovalUnansweredKeeps DEF Fault
<1> QED
  BY <1>1, <1>2, <1>3, <1>4, <1>5 DEF Next

(* The queue's invariant holds whatever calls overlap and fail.            *)
THEOREM Invariance == FaultySpec => []QueueInvariant
  BY InitInvariant, StepKeepsInvariant, PTL DEF FaultySpec

(* Without failures the same holds: Spec only takes fewer steps.           *)
THEOREM FaultFree == Spec => FaultySpec
<1>1. [Next]_vars => [Next \/ \E r \in Request : Fault(r)]_vars
  OBVIOUS
<1> QED
  BY <1>1, PTL DEF Spec, FaultySpec

(* Every variable keeps its type.                                          *)
THEOREM TypeCorrect == FaultySpec => []TypeOK
  BY Invariance, PTL DEF QueueInvariant

(* A finished task is off the queue, or the call that finished it is about *)
(* to take it off or was cut short.                                        *)
THEOREM FinishedTasksLeave == FaultySpec => []FinishedLeavesQueue
  BY Invariance, PTL DEF QueueInvariant

(* No interleaving loses an unstarted task from the queue.                 *)
THEOREM UnstartedTasksStay == FaultySpec => []UnstartedStaysQueued
  BY Invariance, PTL DEF QueueInvariant

(* No task is cancelled inside its start window.                           *)
THEOREM CancellationsAreLate == FaultySpec => []CancelledOnlyOverdue
  BY Invariance, PTL DEF QueueInvariant

(* No completion on record goes uncounted.                                 *)
THEOREM CompletionsAreCounted == FaultySpec => []CompletionIsCounted
  BY Invariance, PTL DEF QueueInvariant

(* An id without a record in the queue outlived its window unstarted.      *)
THEOREM OrphansAreLate == FaultySpec => []OrphansAreOverdue
  BY Invariance, PTL DEF QueueInvariant

(* No event runs ahead of the record.                                      *)
THEOREM EventsFollowRecords == FaultySpec => []AnnouncedIsStarted
  BY Invariance, PTL DEF QueueInvariant

(* A started task is never forgotten and never PENDING again: only a PENDING *)
(* record has a time to live, and only a fresh id is written PENDING.        *)
THEOREM StartedTasksRemembered == FaultySpec => StartedIsRemembered
<1> DEFINE Remembered == \A t \in Task : data[t] \in Started => data'[t] \in Started
<1>1. ASSUME QueueInvariant, [Next \/ \E r \in Request : Fault(r)]_vars
      PROVE  [Remembered]_vars
  <2> SUFFICES ASSUME data' # data PROVE Remembered
    BY <1>1 DEF Started
  <2>1. ASSUME NEW t \in Task, Push(t)
        PROVE  Remembered
    BY <1>1, <2>1 DEF QueueInvariant, OnlyPushedIdsAreKnown, Push, TypeOK, Started
  <2>2. ASSUME NEW t \in Task, DataLapse(t)
        PROVE  Remembered
    BY <1>1, <2>2 DEF QueueInvariant, OnlyUntouchedRecordsLapse, DataLapse, Lapsable,
        TypeOK, Started
  <2>3. ASSUME NEW r \in Request, Set(r)
        PROVE  Remembered
    BY <1>1, <2>3 DEF QueueInvariant, CallsKnowTheirGoal, Updating, Set, TypeOK,
        Started, Target
  <2> QED
    BY <1>1, <2>1, <2>2, <2>3 DEF Next, Clock, MarkerLapse, Acknowledge, Complete,
        CallRoute, Expire, Fault, Abort, RemovalUnanswered, Step, Lookup, Broadcast,
        Scan, ScanEnd, Check, Get, Zrem, Zcard, redisVars, vars
<1> QED
  BY <1>1, Invariance, PTL DEF FaultySpec, StartedIsRemembered
-----------------------------------------------------------------------------
(* Callers that take turns.                                                *)
SerialNext == Next /\ Alone'

(* Taking turns only removes steps.                                        *)
THEOREM SerialIsSpec == SerialSpec => Spec
<1>1. [Next /\ Alone']_vars => [Next]_vars
  OBVIOUS
<1> QED
  BY <1>1, PTL DEF SerialSpec, Spec

LEMMA InitTurns == Init => Turns
BY DEF Init, Turns, Alone, InFlight, Updating

(* The call whose turn it is keeps what it relies on: no other call is     *)
(* there to change it, and the clock only makes records lapse.             *)
LEMMA TurnsStep ==
    ASSUME QueueInvariant, Turns, [Next /\ Alone']_vars
    PROVE  Turns'
<1> USE DEF Turns, QueueInvariant
<1>1. CASE UNCHANGED vars
  BY <1>1 DEF vars, redisVars, callVars, Alone, InFlight
<1> SUFFICES ASSUME Next, Alone' PROVE Turns'
  BY <1>1
<1>2. ASSUME NEW t \in Task, Push(t)
      PROVE  Turns'
  BY <1>2 DEF Push, callVars, OnlyPushedIdsAreKnown, TypeOK, Finished, Updating
<1>3. ASSUME NEW t \in Task, Clock(t)
      PROVE  Turns'
  <2>1. CASE MarkerLapse(t)
    BY <2>1 DEF MarkerLapse, callVars, Alone, InFlight
  <2>2. CASE DataLapse(t)
    BY <2>2 DEF DataLapse, callVars, Alone, InFlight, TypeOK, Finished
  <2> QED
    BY <1>3, <2>1, <2>2 DEF Clock
<1>4. ASSUME NEW r \in Request, NEW t \in Task, Acknowledge(r, t) \/ Complete(r, t)
      PROVE  Turns'
  BY <1>4 DEF Acknowledge, Complete, CallRoute, Goto, redisVars, TypeOK, Updating
<1>5. ASSUME NEW r \in Request, Expire(r)
      PROVE  Turns'
  BY <1>5 DEF Expire, Goto, redisVars, TypeOK, Updating
<1>6. ASSUME NEW r \in Request, Step(r)
      PROVE  Turns'
  <2>1. CASE Lookup(r)
    BY <2>1 DEF Lookup, Goto, redisVars, TypeOK, Updating, Accepted, Finished,
        CallsKnowTheirGoal, Target
  <2>2. CASE Broadcast(r)
    BY <2>2 DEF Broadcast, Goto, redisVars, TypeOK, Updating
  <2>3. CASE Scan(r)
    <3>1. \A t \in pending : data[t] \notin Finished
      BY <2>3 DEF Scan, Alone, InFlight, FinishedLeavesQueue, Dequeuing
    <3> QED
      BY <2>3, <3>1 DEF Scan, Goto, redisVars, TypeOK, Updating
  <2>4. CASE ScanEnd(r)
    BY <2>4 DEF ScanEnd, Goto, redisVars, TypeOK, Updating
  <2>5. ASSUME NEW t \in Task, Check(r, t)
        PROVE  Turns'
    BY <2>5 DEF Check, Goto, Visited, Overdue, redisVars, TypeOK, Updating, Status,
        Finished, CallsKnowTheirGoal
  <2>6. CASE Get(r)
    BY <2>6 DEF Get, Goto, AfterUpdate, redisVars, TypeOK, Updating
  <2>7. CASE Set(r)
    BY <2>7 DEF Set, Goto, Alone, InFlight, TypeOK, Updating, OnlyPushedIdsAreKnown
  <2>8. CASE Zrem(r)
    BY <2>8 DEF Zrem, Goto, TypeOK, Updating
  <2>9. CASE Zcard(r)
    BY <2>9 DEF Zcard, Goto, AfterUpdate, redisVars, TypeOK, Updating
  <2> QED
    BY <1>6, <2>1, <2>2, <2>3, <2>4, <2>5, <2>6, <2>7, <2>8, <2>9 DEF Step
<1> QED
  BY <1>2, <1>3, <1>4, <1>5, <1>6 DEF Next

(* The inductive invariant of callers that take turns.                     *)
THEOREM TurnsInvariance == SerialSpec => [](QueueInvariant /\ Turns)
<1>1. SerialSpec => []QueueInvariant
  BY SerialIsSpec, FaultFree, Invariance, PTL
<1>2. Init => Turns
  BY InitTurns
<1>3. QueueInvariant /\ Turns /\ [Next /\ Alone']_vars => Turns'
  BY TurnsStep
<1> QED
  BY <1>1, <1>2, <1>3, PTL DEF SerialSpec

LEMMA BooksStep ==
    ASSUME QueueInvariant, Turns, BooksAreKept, [Next /\ Alone']_vars
    PROVE  BooksAreKept'
<1> USE DEF BooksAreKept, QueueInvariant, TypeOK, Finished
<1>1. CASE UNCHANGED vars
  BY <1>1 DEF vars, redisVars, metricVars, callVars
<1> SUFFICES ASSUME Next, Alone' PROVE BooksAreKept'
  BY <1>1
<1>2. ASSUME NEW t \in Task, Push(t)
      PROVE  BooksAreKept'
  BY <1>2 DEF Push, metricVars, callVars, OnlyPushedIdsAreKnown, Updating
<1>3. ASSUME NEW t \in Task, Clock(t)
      PROVE  BooksAreKept'
  <2>1. CASE MarkerLapse(t)
    BY <2>1 DEF MarkerLapse, metricVars, callVars
  <2>2. CASE DataLapse(t)
    <3>1. data[t] = "PENDING" /\ t \in pending
      BY <2>2 DEF DataLapse, Lapsable, OnlyUntouchedRecordsLapse, UnstartedStaysQueued
    <3> QED
      BY <2>2, <3>1 DEF DataLapse, metricVars, callVars, Target, CallsKnowTheirGoal
  <2> QED
    BY <1>3, <2>1, <2>2 DEF Clock
<1>4. ASSUME NEW r \in Request, NEW t \in Task, Acknowledge(r, t) \/ Complete(r, t)
      PROVE  BooksAreKept'
  BY <1>4 DEF Acknowledge, Complete, CallRoute, Goto, redisVars, metricVars
<1>5. ASSUME NEW r \in Request, Expire(r)
      PROVE  BooksAreKept'
  BY <1>5 DEF Expire, Goto, redisVars, metricVars
<1>6. ASSUME NEW r \in Request, Step(r)
      PROVE  BooksAreKept'
  <2>1. \A s \in Request \ {r} : pc[s] # "zrem"
    BY <1>6 DEF Turns, Alone, InFlight, Step, Lookup, Broadcast, Scan, ScanEnd, Check, Get, Set,
       Zrem, Zcard
  <2>2. CASE Lookup(r)
    BY <2>2 DEF Lookup, Goto, redisVars, metricVars
  <2>3. CASE Broadcast(r)
    BY <2>3 DEF Broadcast, Goto, redisVars
  <2>4. CASE Scan(r) \/ ScanEnd(r) \/ \E t \in Task : Check(r, t)
    BY <2>4, <2>1 DEF Scan, ScanEnd, Check, Goto, redisVars, metricVars
  <2>5. CASE Get(r)
    BY <2>5, <2>1 DEF Get, Goto, AfterUpdate, redisVars, metricVars
  <2>6. CASE Set(r)
    <3>1. /\ task[r] \in pushed /\ task[r] \in Task /\ target[r] \in Target
          /\ data[task[r]] \in {"NONE", "PENDING", "IN_PROGRESS"}
      BY <2>6 DEF Set, Turns, OnlyPushedIdsAreKnown, CallsKnowTheirGoal, Updating
    <3> QED
      BY <2>1, <2>6, <3>1 DEF Set, Goto, metricVars, Terminal, Target
  <2>7. CASE Zrem(r)
    <3>1. /\ task[r] \in Task /\ data[task[r]] \in Finished
          /\ completions[task[r]] = 0
      BY <2>7 DEF Zrem, OnlyPushedIdsAreKnown, CallsKnowTheirGoal, Updating
    <3> QED
      BY <2>1, <2>7, <3>1 DEF Zrem, Goto, Counted
  <2>8. CASE Zcard(r)
    BY <2>8, <2>1 DEF Zcard, Goto, AfterUpdate, redisVars
  <2> QED
    BY <1>6, <2>2, <2>3, <2>4, <2>5, <2>6, <2>7, <2>8 DEF Step
<1> QED
  BY <1>2, <1>3, <1>4, <1>5, <1>6 DEF Next

LEMMA BooksInvariance == SerialSpec => []BooksAreKept
<1>1. Init => BooksAreKept
  BY DEF Init, BooksAreKept
<1>2. QueueInvariant /\ Turns /\ BooksAreKept /\ [Next /\ Alone']_vars => BooksAreKept'
  BY BooksStep
<1> QED
  BY <1>1, <1>2, TurnsInvariance, PTL DEF SerialSpec

(* With callers that take turns no task is counted twice.                  *)
THEOREM CompletionsCountOnce == SerialSpec => []CountedOnce
<1>1. BooksAreKept => CountedOnce
  BY DEF BooksAreKept, CountedOnce
<1> QED
  BY <1>1, BooksInvariance, PTL

(* Between the calls of callers that take turns, the queue holds exactly   *)
(* the live tasks, for any number of tasks and callers.                    *)
THEOREM QueueHoldsLiveTasks == SerialSpec => []QueueIsTheLiveTasks
<1>1. ASSUME QueueInvariant, Turns, BooksAreKept, Quiet
      PROVE  pending = {t \in pushed : data[t] \in {"NONE", "PENDING", "IN_PROGRESS"}}
  <2>1. pending \subseteq pushed /\ pushed \subseteq Task /\ data \in [Task -> Status \cup {"NONE"}]
    BY <1>1 DEF QueueInvariant, TypeOK, OnlyPushedIdsAreKnown
  <2>2. \A t \in pending : data[t] \notin Finished
    <3>1. \A r \in Request : pc[r] \notin {"zrem", "failed"}
      BY <1>1 DEF Quiet, InFlight, Turns
    <3> QED
      BY <1>1, <3>1 DEF QueueInvariant, FinishedLeavesQueue, Dequeuing
  <2>3. \A t \in pushed : data[t] \notin Finished => t \in pending
    BY <1>1 DEF BooksAreKept
  <2> QED
    BY <2>1, <2>2, <2>3 DEF Finished, Status
<1>2. QueueInvariant /\ Turns /\ BooksAreKept => QueueIsTheLiveTasks
  BY <1>1 DEF QueueIsTheLiveTasks
<1> QED
  BY <1>2, BooksInvariance, TurnsInvariance, PTL

-----------------------------------------------------------------------------
(* A call that changes only itself, and neither comes to hold nor drops a  *)
(* lapsed record, leaves every status as it was.                           *)
LEMMA SameStatus ==
    ASSUME UNCHANGED <<data, pushed>>,
           \A t \in Task : data[t] = "NONE" => (Held(t)' <=> Held(t))
    PROVE  UNCHANGED statusOf
BY DEF statusOf

LEMMA InitStatus == Init => Lifecycle!Init
BY DEF Init, Lifecycle!Init, statusOf

(* Each step of the queue is one step of a task's life, or none.           *)
LEMMA StatusStep ==
    ASSUME QueueInvariant, Turns, [Next /\ Alone']_vars
    PROVE  [Lifecycle!Next]_statusOf
<1> USE DEF QueueInvariant, Turns
<1>1. CASE UNCHANGED vars
  BY <1>1 DEF vars, redisVars, callVars, statusOf, Held
<1> SUFFICES ASSUME Next PROVE [Lifecycle!Next]_statusOf
  BY <1>1
<1>2. ASSUME NEW t \in Task, Push(t)
      PROVE  Lifecycle!Dispatch(t)
  <2>1. statusOf[t] = "UNBORN"
    BY <1>2 DEF Push, statusOf
  <2>2. statusOf' = [statusOf EXCEPT ![t] = "PENDING"]
    BY <1>2 DEF Push, statusOf, callVars, Held, TypeOK
  <2> QED
    BY <2>1, <2>2 DEF Lifecycle!Dispatch, Lifecycle!Move
<1>3. ASSUME NEW t \in Task, MarkerLapse(t)
      PROVE  UNCHANGED statusOf
  BY <1>3, SameStatus DEF MarkerLapse, callVars, Held
<1>4. ASSUME NEW t \in Task, DataLapse(t)
      PROVE  Lifecycle!Forget(t) \/ UNCHANGED statusOf
  <2>1. statusOf[t] = "PENDING" /\ t \in pushed
    BY <1>4 DEF DataLapse, Lapsable, statusOf, OnlyUntouchedRecordsLapse,
        OnlyPushedIdsAreKnown, TypeOK
  <2>2. CASE Held(t)
    <3>1. UNCHANGED statusOf
      BY <1>4, <2>1, <2>2 DEF DataLapse, statusOf, callVars, Held, TypeOK
    <3> QED
      BY <3>1
  <2>3. CASE ~Held(t)
    <3>1. statusOf' = [statusOf EXCEPT ![t] = "LOST"]
      <4>1. \A u \in Task : Held(u)' <=> Held(u)
        BY <1>4 DEF DataLapse, callVars, Held
      <4>2. data' = [data EXCEPT ![t] = "NONE"] /\ UNCHANGED pushed
        BY <1>4 DEF DataLapse
      <4> QED
        BY <2>1, <2>3, <4>1, <4>2 DEF statusOf, TypeOK
    <3> QED
      BY <2>1, <3>1 DEF Lifecycle!Forget, Lifecycle!Move
  <2> QED
    BY <2>2, <2>3
<1>5. ASSUME NEW r \in Request, NEW t \in Task, Acknowledge(r, t) \/ Complete(r, t)
      PROVE  UNCHANGED statusOf
  BY <1>5, SameStatus DEF Acknowledge, Complete, CallRoute, Goto, redisVars, Held,
      TypeOK
<1>6. ASSUME NEW r \in Request, Expire(r)
      PROVE  UNCHANGED statusOf
  BY <1>6, SameStatus DEF Expire, Goto, redisVars, Held, TypeOK
<1>7. ASSUME NEW r \in Request, Set(r)
      PROVE  [Lifecycle!Next]_statusOf
  <2> DEFINE t == task[r]
  <2>1. t \in pushed /\ t \in Task /\ target[r] \in Target
    BY <1>7 DEF Set, OnlyPushedIdsAreKnown, CallsKnowTheirGoal, Updating, TypeOK
  <2>2. statusOf[t] \in {"PENDING"} \cup
          (IF target[r] = "IN_PROGRESS" THEN {} ELSE {"IN_PROGRESS"})
    BY <1>7, <2>1 DEF Set, statusOf, Held
  <2>3. statusOf' = [statusOf EXCEPT ![t] = target[r]]
    <3>1. ASSUME NEW u \in Task, u # t
          PROVE  Held(u)' <=> Held(u)
      BY <1>7, <3>1 DEF Set, Goto, Held, TypeOK
    <3>2. data' = [data EXCEPT ![t] = target[r]] /\ UNCHANGED pushed
      BY <1>7 DEF Set
    <3> QED
      BY <2>1, <3>1, <3>2 DEF statusOf, TypeOK, Target
  <2>4. Lifecycle!Start(t) \/ Lifecycle!Finish(t) \/ Lifecycle!Cancel(t)
    BY <2>1, <2>2, <2>3 DEF Lifecycle!Start, Lifecycle!Finish, Lifecycle!Cancel,
        Lifecycle!Move, Target
  <2> QED
    BY <2>1, <2>4 DEF Lifecycle!Next
<1>8. ASSUME NEW r \in Request, Step(r), ~Set(r)
      PROVE  UNCHANGED statusOf
  <2>1. UNCHANGED <<data, pushed>>
    BY <1>8 DEF Step, Lookup, Broadcast, Scan, ScanEnd, Check, Get, Zrem, Zcard,
        redisVars
  <2>2. CASE Get(r)
    BY <2>2, SameStatus DEF Get, Goto, AfterUpdate, redisVars, Held, TypeOK
  <2>3. CASE ~Get(r)
    <3>1. pc[r] # "set" /\ pc'[r] # "set"
      BY <1>8, <2>3 DEF Step, Lookup, Broadcast, Scan, ScanEnd, Check, Zrem,
          Zcard, Goto, AfterUpdate, TypeOK
    <3>2. \A s \in Request \ {r} : pc'[s] = pc[s] /\ task'[s] = task[s]
      BY <1>8, <2>3 DEF Step, Lookup, Broadcast, Scan, ScanEnd, Check, Zrem,
          Zcard, Goto, TypeOK
    <3> QED
      BY <2>1, <3>1, <3>2, SameStatus DEF Held
  <2> QED
    BY <2>2, <2>3
<1> QED
  BY <1>2, <1>3, <1>4, <1>5, <1>6, <1>7, <1>8 DEF Next, Clock, Lifecycle!Next

(* Callers that take turns see every task dispatched, started, finished or *)
(* lost in the order TaskLifecycle allows: acknowledge, complete and the   *)
(* sweep implement it, the lapse of a record in mid-call included.         *)
THEOREM LifecycleImplemented == SerialSpec => ImplementsLifecycle
<1>1. SerialSpec => [](QueueInvariant /\ Turns)
  BY TurnsInvariance
<1>2. Init => Lifecycle!Init
  BY InitStatus
<1>3. QueueInvariant /\ Turns /\ [Next /\ Alone']_vars => [Lifecycle!Next]_statusOf
  BY StatusStep
<1> QED
  BY <1>1, <1>2, <1>3, PTL DEF SerialSpec, ImplementsLifecycle, Lifecycle!Spec

-----------------------------------------------------------------------------
(* Readers beside any calls.                                               *)
ListingInvariant == QueueInvariant /\ ListingTypeOK /\ ListingCovers /\ StayedIsListed

LEMMA ListingInitially == ListingInit => ListingInvariant
BY InitInvariant DEF ListingInit, ListingInvariant, ListingTypeOK, ListingCovers,
    StayedIsListed, Listed, Init, QueueInvariant

(* What the reader is not given lies below all that it is given.           *)
LEMMA RangeIsTop ==
    ASSUME QueueInvariant, ListingTypeOK, NEW t \in pending \ Zrevrange, NEW u \in Zrevrange
    PROVE  t < u
<1> DEFINE Above(v) == {w \in pending : w > v}
<1>1. t \in Nat /\ u \in Nat /\ pending \subseteq Nat
  BY ListingAssumption DEF QueueInvariant, TypeOK, Zrevrange
<1>2. SUFFICES ASSUME u < t PROVE FALSE
  BY <1>1, <1>2
<1>3. Above(t) \subseteq Above(u)
  <2> SUFFICES ASSUME NEW w \in pending, w > t PROVE w > u
    OBVIOUS
  <2> QED
    BY <1>1, <1>2
<1>4. IsFiniteSet(Above(u))
  BY FS_Subset DEF QueueInvariant
<1>5. /\ Cardinality(Above(t)) <= Cardinality(Above(u))
      /\ Cardinality(Above(t)) \in Nat /\ Cardinality(Above(u)) \in Nat
  BY <1>3, <1>4, FS_Subset, FS_CardinalityType
<1>6. last \in Int /\ Cardinality(Above(u)) <= last /\ ~ (Cardinality(Above(t)) <= last)
  BY DEF Zrevrange, ListingTypeOK
<1> QED
  BY <1>5, <1>6

LEMMA ListingStep ==
    ListingInvariant /\ [ListingNext]_<<vars, listingVars>> => ListingInvariant'
<1> SUFFICES ASSUME ListingInvariant, [ListingNext]_<<vars, listingVars>>
             PROVE  ListingInvariant'
  OBVIOUS
<1> USE DEF ListingInvariant
<1>1. [Next \/ \E r \in Request : Fault(r)]_vars
  BY DEF ListingNext, Other, Pop, GetActive, Reader, ReadIds, ReadRecord, Return
<1>2. QueueInvariant'
  BY <1>1, StepKeepsInvariant
<1>3. pending \subseteq Task /\ Task \subseteq Nat /\ data \in [Task -> Status \cup {"NONE"}]
  BY ListingAssumption DEF QueueInvariant, TypeOK
<1>4. CASE UNCHANGED <<vars, listingVars>>
  BY <1>2, <1>4 DEF vars, redisVars, listingVars, ListingTypeOK, TypeOK, ListingCovers,
     StayedIsListed, Listed, QueueInvariant
<1>5. CASE Other(Next \/ \E r \in Request : Fault(r))
  BY <1>2, <1>5 DEF Other, ListingTypeOK, ListingCovers, StayedIsListed, Listed, QueueInvariant
<1>6. ASSUME (\E n \in Limits : Pop(n)) \/ GetActive
      PROVE  ListingInvariant'
  <2>1. /\ place = "idle" /\ place' = "scan"
        /\ UNCHANGED <<vars, unread, listed, stayed>>
        /\ last' \in Nat \cup {-1} /\ asked' \in Limits \cup {-1}
        /\ asked' = -1 => last' = -1
    <3>1. CASE GetActive
      BY <3>1 DEF GetActive, ListingTypeOK, ListingCovers
    <3>2. ASSUME NEW n \in Limits, Pop(n)
          PROVE  /\ last' \in Nat \cup {-1} /\ asked' \in Limits \cup {-1}
                 /\ asked' # -1
      BY <3>2, ListingAssumption DEF Pop
    <3> QED
      BY <1>6, <3>1, <3>2 DEF Pop
  <2> QED
    BY <1>2, <2>1 DEF vars, redisVars, ListingTypeOK, ListingCovers, StayedIsListed,
       Listed, QueueInvariant
<1>7. CASE ReadIds
  <2>1. Zrevrange \subseteq Task /\ unread' = Zrevrange
    BY <1>3, <1>7 DEF Zrevrange, ReadIds
  <2>2. asked = -1 => Zrevrange = pending
    BY <1>7 DEF ReadIds, ListingCovers, Zrevrange
  <2>3. \A t \in stayed' : t \in Zrevrange \/ (asked # -1 /\ \A u \in Zrevrange : t < u)
    <3> SUFFICES ASSUME NEW t \in pending, t \notin Zrevrange
                 PROVE  asked # -1 /\ \A u \in Zrevrange : t < u
      BY <1>7 DEF ReadIds
    <3> QED
      BY <2>2, RangeIsTop
  <2>4. Listed' = {}
    BY <1>7 DEF ReadIds, ListingCovers, Listed
  <2>5. ListingCovers'
    BY <1>7, <2>1, <2>3, <2>4 DEF ReadIds, ListingCovers, vars, redisVars
  <2> QED
    BY <1>2, <1>3, <1>7, <2>1, <2>5 DEF ReadIds, ListingTypeOK, StayedIsListed, QueueInvariant
<1>8. ASSUME NEW t \in Task, ReadRecord(t)
      PROVE  ListingInvariant'
  <2>1. ListingTypeOK'
    BY <1>2, <1>3, <1>8 DEF ReadRecord, UnreadAfter, ListingTypeOK, QueueInvariant
  <2>2. /\ Listed' \subseteq Listed \cup {t}
        /\ \A u \in Listed : u = t \/ u \in Listed'
        /\ data[t] # "NONE" => t \in Listed'
        /\ Listed' \cup unread' \subseteq Listed \cup unread
    BY <1>8 DEF ReadRecord, UnreadAfter, Listed, ListingTypeOK
  <2>3. ListingCovers'
    BY <1>8, <2>2 DEF ReadRecord, UnreadAfter, ListingCovers, vars, redisVars
  <2> QED
    BY <1>2, <1>8, <2>1, <2>3 DEF ReadRecord, StayedIsListed
<1>9. CASE Return
  <2>1. StayedIsListed'
    BY <1>3, <1>9 DEF Return, ListingCovers, ListingTypeOK, StayedIsListed, Listed
  <2> QED
    BY <1>2, <1>9, <2>1 DEF Return, ListingTypeOK, ListingCovers, Listed, QueueInvariant, vars, redisVars
<1> QED
  BY <1>4, <1>5, <1>6, <1>7, <1>8, <1>9 DEF ListingNext, Reader

(* A listing has every task that stays queued with its record, for any     *)
(* tasks, limits and calls beside it, failing or not.                      *)
THEOREM StayedTasksListed == ListingSpec => []StayedIsListed
<1>1. ListingInvariant => StayedIsListed
  BY DEF ListingInvariant
<1> QED
  BY <1>1, ListingInitially, ListingStep, PTL DEF ListingSpec

(* The reader's data keep their types.                                     *)
THEOREM ListingTypeCorrect == ListingSpec => []ListingTypeOK
<1>1. ListingInvariant => ListingTypeOK
  BY DEF ListingInvariant
<1> QED
  BY <1>1, ListingInitially, ListingStep, PTL DEF ListingSpec
=============================================================================
