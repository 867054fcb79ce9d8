----------------------------- MODULE MCTaskQueue -----------------------------
(* The queue and a reader of it for TLC: which calls are alike.            *)
EXTENDS TaskListing, TLC

AlikeCalls == Permutations(Request)
=============================================================================
