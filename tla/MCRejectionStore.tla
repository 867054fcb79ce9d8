-------------------------- MODULE MCRejectionStore --------------------------
(* RejectionStore for TLC: two movements of one SKU and one of another.    *)
EXTENDS RejectionStore, TLC

CONSTANTS m1, m2, m3, a, b

SkuOfMove == [m \in Move |-> IF m = m3 THEN b ELSE a]
=============================================================================
