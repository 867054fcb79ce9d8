----------------------------- MODULE TaskListing -----------------------------
(***************************************************************************)
(* The readers of the queue, pop and get_active_tasks                      *)
(* (src/dispatch/task_queue.py): one read of the sorted set, then one read *)
(* of a record per id, with every other call of TaskQueue in between.      *)
(***************************************************************************)
EXTENDS TaskQueue, Integers

CONSTANT Limits  \* the values of n pop is called with

(* An id stands for its place in the sorted set: the larger, the earlier.  *)
ASSUME ListingAssumption ==
    /\ Task \subseteq Nat
    /\ Limits \subseteq Nat

VARIABLES
    place,   \* where the reader stands
    last,    \* the last index it asks the sorted set for, -1 for its end
    asked,   \* the limit it was called with, -1 for none
    unread,  \* the ids still to be looked up
    listed,  \* the status each task was listed with, "NONE" if it is not
    stayed   \* tasks queued with a record when the ids were read, and since

listingVars == <<place, last, asked, unread, listed, stayed>>

Listed == {t \in Task : listed[t] # "NONE"}

ListingTypeOK ==
    /\ TypeOK
    /\ place \in {"idle", "scan", "read", "done"}
    /\ last \in Nat \cup {-1}
    /\ asked \in Limits \cup {-1}
    /\ unread \subseteq Task
    /\ listed \in [Task -> Status \cup {"NONE"}]
    /\ stayed \subseteq Task

ListingInit ==
    /\ Init
    /\ place = "idle"
    /\ last = -1
    /\ asked = -1
    /\ unread = {}
    /\ listed = [t \in Task |-> "NONE"]
    /\ stayed = {}

Pop(n) ==
    /\ place = "idle"
    /\ place' = "scan"
    /\ last' = n - 1
    /\ asked' = n
    /\ UNCHANGED <<vars, unread, listed, stayed>>

GetActive ==
    /\ place = "idle"
    /\ place' = "scan"
    /\ UNCHANGED <<vars, last, asked, unread, listed, stayed>>

(* ZREVRANGE 0 last.                                                       *)
Zrevrange ==
    {t \in pending : last = -1 \/ Cardinality({u \in pending : u > t}) <= last}

ReadIds ==
    /\ place = "scan"
    /\ unread' = Zrevrange
    /\ stayed' = {t \in pending : data[t] # "NONE"}
    /\ place' = "read"
    /\ UNCHANGED <<vars, last, asked, listed>>

UnreadAfterStops(t) == IF data[t] = "NONE" THEN {} ELSE unread \ {t}

(* The rest of the snapshot, whatever the record of t.                     *)
UnreadAfter(t) == unread \ {t}

(* The next record; an id without one is passed over.                      *)
ReadRecord(t) ==
    /\ place = "read"
    /\ t \in unread
    /\ \A u \in unread : u <= t
    /\ unread' = UnreadAfter(t)
    /\ listed' = [listed EXCEPT ![t] = data[t]]
    /\ UNCHANGED <<vars, place, last, asked, stayed>>

Return ==
    /\ place = "read"
    /\ unread = {}
    /\ place' = "done"
    /\ UNCHANGED <<vars, last, asked, unread, listed, stayed>>

Reader == ReadIds \/ (\E t \in Task : ReadRecord(t)) \/ Return

(* A step of another call or of the clock.                                 *)
Other(step) ==
    /\ step
    /\ stayed' = {t \in stayed : t \in pending' /\ data'[t] # "NONE"}
    /\ UNCHANGED <<place, last, asked, unread, listed>>

ListingNext ==
    \/ Other(Next \/ \E r \in Request : Fault(r))
    \/ (\E n \in Limits : Pop(n)) \/ GetActive
    \/ Reader

ListingSpec == ListingInit /\ [][ListingNext]_<<vars, listingVars>>

(* Tasks are pushed and lapse, and no other call is made.                  *)
AloneNext ==
    \/ Other(\E t \in Task : Push(t) \/ Clock(t))
    \/ (\E n \in Limits : Pop(n)) \/ GetActive
    \/ Reader

AloneSpec == ListingInit /\ [][AloneNext]_<<vars, listingVars>>

-----------------------------------------------------------------------------
(* A listing of everything has every task that stays queued with a record  *)
(* while it runs, and a listing of the top has none below such a task      *)
(* without that task, whatever is pushed, dequeued or lapses beside it and *)
(* whichever ids have no record.                                           *)
StayedIsListed ==
    place = "done" =>
        \A t \in stayed : (asked = -1 \/ \E u \in Listed : u < t) => t \in Listed

(* What makes StayedIsListed inductive: until it is read, every task that  *)
(* stays is still to be read or below all that are.                        *)
ListingCovers ==
    /\ \A t \in stayed : data[t] # "NONE"
    /\ place \in {"idle", "scan"} => Listed = {} /\ stayed = {}
    /\ place \in {"idle", "scan"} /\ asked = -1 => last = -1
    /\ place = "read" =>
          \A t \in stayed :
              \/ t \in unread \cup Listed
              \/ asked # -1 /\ \A u \in unread \cup Listed : t < u

-----------------------------------------------------------------------------
(* get_active_tasks returns tasks "with PENDING or IN_PROGRESS status".    *)
ActiveIsActive ==
    place = "done" /\ asked = -1 =>
        \A t \in Listed : listed[t] \in {"PENDING", "IN_PROGRESS"}

(* "Get the top N tasks": as many as asked for, if the queue has them.     *)
PopFillsUp ==
    place = "done" /\ asked > 0 =>
        Cardinality(Listed) >= (IF asked < Cardinality(stayed) THEN asked
                                                              ELSE Cardinality(stayed))

(* "n: Number of tasks to retrieve": never more.                           *)
PopIsBounded ==
    place = "done" /\ asked >= 0 => Cardinality(Listed) <= asked
=============================================================================
