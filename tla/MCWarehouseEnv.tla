---------------------------- MODULE MCWarehouseEnv ---------------------------
(* Small shifts for TLC: movements of which one undoes another, two trucks  *)
(* that come together or apart, and one that has nothing to load; a SKU     *)
(* without a position among movements and lines; lists of candidates that   *)
(* are stale, too many, or of such a SKU.                                   *)
EXTENDS WarehouseEnv

CONSTANTS a, b, c

Movements ==
    { << [sku |-> a, to |-> 1, time |-> 3], [sku |-> b, to |-> 2, time |-> 2],
         [sku |-> a, to |-> 2, time |-> 2] >>,
      << [sku |-> b, to |-> 1, time |-> 1], [sku |-> c, to |-> 2, time |-> 1] >> }

MCPlans ==
    { [movements |-> m,
       trucks |-> [k \in 11..13 |->
           CASE k = 11 -> [arrival |-> 1, departure |-> 6, door |-> 1, lines |-> l]
             [] k = 12 -> [arrival |-> t, departure |-> 9, door |-> 2, lines |-> n]
             [] k = 13 -> [arrival |-> 3, departure |-> d, door |-> 1, lines |-> <<>>]]] :
      m \in Movements, l \in {<<a, b>>, <<b, c>>}, n \in {<<a>>, <<b, a>>},
      t \in {0, 1, 4}, d \in {2, 5} }

MCFar == [p \in Door \cup {Bulk} |-> CASE p = Bulk -> 5 [] p = 1 -> 0 [] p = 2 -> 2]

MCCandidateLists ==
    { << [sku |-> a, from |-> Bulk, to |-> 1], [sku |-> b, from |-> 2, to |-> Bulk] >>,
      << [sku |-> b, from |-> Bulk, to |-> 2], [sku |-> a, from |-> 1, to |-> 2],
         [sku |-> a, from |-> 2, to |-> 1] >>,
      << [sku |-> c, from |-> Bulk, to |-> 1] >> }
=============================================================================
