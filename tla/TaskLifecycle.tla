---------------------------- MODULE TaskLifecycle ----------------------------
(***************************************************************************)
(* What the queue promises about one movement task: the statuses of        *)
(* MovementStatus and the changes the queue's callers may make to them,    *)
(* each in one step.  LOST is a task nobody touched before its record      *)
(* lapsed.                                                                 *)
(***************************************************************************)
CONSTANT Task

VARIABLE status

Init == status = [t \in Task |-> "UNBORN"]

Move(t, from, to) ==
    /\ status[t] \in from
    /\ status' = [status EXCEPT ![t] = to]

Dispatch(t) == Move(t, {"UNBORN"}, "PENDING")
Start(t)    == Move(t, {"PENDING"}, "IN_PROGRESS")
Finish(t)   == Move(t, {"PENDING", "IN_PROGRESS"}, "COMPLETED")
Cancel(t)   == Move(t, {"PENDING", "IN_PROGRESS"}, "CANCELLED")
Forget(t)   == Move(t, {"PENDING"}, "LOST")

Next ==
    \E t \in Task : Dispatch(t) \/ Start(t) \/ Finish(t) \/ Cancel(t) \/ Forget(t)

Spec == Init /\ [][Next]_status
=============================================================================
