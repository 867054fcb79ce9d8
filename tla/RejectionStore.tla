---------------------------- MODULE RejectionStore ----------------------------
(***************************************************************************)
(* Operator rejections (src/dispatch/rejection_store.py): a key per        *)
(* rejected movement and one per suppressed SKU, both with a time to live, *)
(* and a capped history.  record is one pipeline, hence one step; clear    *)
(* reads the record, and deletes after an await.  Times to live are        *)
(* counted in Ticks of the Redis clock.  Every caller in src/ uses the     *)
(* default window, so there is one Window.                                 *)
(***************************************************************************)
EXTENDS Integers, Sequences

CONSTANTS
    Move,       \* ids of rejected movements
    Sku,        \* SKUs
    NoSku,      \* the empty string the reject route records for an id it cannot resolve
    SkuOf,      \* the SKU each movement is about
    Window,     \* the suppression window, in ticks
    MaxHistory, \* _MAX_HISTORY
    Clearer     \* concurrent calls of clear

ASSUME RejectionAssumption ==
    /\ NoSku \notin Sku
    /\ SkuOf \in [Move -> Sku]
    /\ Window \in Nat \ {0}
    /\ MaxHistory \in Nat \ {0}

VARIABLES
    left,     \* rejection:<movement>: ticks it has left, 0 when absent
    noted,    \* the sku_id in that key's payload
    skuLeft,  \* rejection:sku:<sku>: ticks it has left
    history,  \* rejection:history, newest first, of <<movement, sku>>
    pc,       \* where each clear stands
    about,    \* the movement it clears
    seen,     \* the sku_id it has read
    lifted    \* the SKUs whose key a clear has deleted since it was last set

storeVars == <<left, noted, skuLeft, history, lifted>>
clearVars == <<pc, about, seen>>
vars == <<storeVars, clearVars>>

Key == Sku \cup {NoSku}

TypeOK ==
    /\ left \in [Move -> 0..Window]
    /\ noted \in [Move -> Key]
    /\ skuLeft \in [Key -> 0..Window]
    /\ history \in Seq(Move \X Key)
    /\ Len(history) <= MaxHistory
    /\ pc \in [Clearer -> {"idle", "get", "delete"}]
    /\ about \in [Clearer -> Move]
    /\ seen \in [Clearer -> Key]
    /\ lifted \subseteq Sku

Init ==
    /\ left = [m \in Move |-> 0]
    /\ noted = [m \in Move |-> NoSku]
    /\ skuLeft = [k \in Key |-> 0]
    /\ history = <<>>
    /\ pc = [c \in Clearer |-> "idle"]
    /\ about \in [Clearer -> Move]
    /\ seen = [c \in Clearer |-> NoSku]
    /\ lifted = {}

-----------------------------------------------------------------------------
(* LPUSH, then LTRIM to the first MaxHistory entries.                      *)
Pushed(entry) ==
    SubSeq(<<entry>> \o history, 1,
           IF Len(history) < MaxHistory THEN Len(history) + 1 ELSE MaxHistory)

SkuKeySetOnce(k) == IF skuLeft[k] > 0 THEN skuLeft ELSE [skuLeft EXCEPT ![k] = Window]

(* SET with EX restarts the window of the SKU's key.                       *)
SkuKeySet(k) == [skuLeft EXCEPT ![k] = Window]

(* record: the route passes the movement's SKU, or "" when it cannot tell. *)
Record(m, k) ==
    /\ k \in {SkuOf[m], NoSku}
    /\ left' = [left EXCEPT ![m] = Window]
    /\ noted' = [noted EXCEPT ![m] = k]
    /\ skuLeft' = SkuKeySet(k)
    /\ history' = Pushed(<<m, k>>)
    /\ lifted' = lifted \ {k}
    /\ UNCHANGED clearVars

Clear(c, m) ==
    /\ pc[c] = "idle"
    /\ pc' = [pc EXCEPT ![c] = "get"]
    /\ about' = [about EXCEPT ![c] = m]
    /\ UNCHANGED <<storeVars, seen>>

(* No record: return False.                                                *)
ClearGet(c) ==
    /\ pc[c] = "get"
    /\ \/ /\ left[about[c]] = 0
          /\ pc' = [pc EXCEPT ![c] = "idle"]
          /\ UNCHANGED seen
       \/ /\ left[about[c]] > 0
          /\ pc' = [pc EXCEPT ![c] = "delete"]
          /\ seen' = [seen EXCEPT ![c] = noted[about[c]]]
    /\ UNCHANGED <<storeVars, about>>

(* The keys of the movement and of the SKU it was read with, in one        *)
(* pipeline; the SKU's only if it was known.                               *)
ClearDelete(c) ==
    /\ pc[c] = "delete"
    /\ pc' = [pc EXCEPT ![c] = "idle"]
    /\ left' = [left EXCEPT ![about[c]] = 0]
    /\ \/ /\ seen[c] = NoSku
          /\ UNCHANGED <<skuLeft, lifted>>
       \/ /\ seen[c] # NoSku
          /\ skuLeft' = [skuLeft EXCEPT ![seen[c]] = 0]
          /\ lifted' = lifted \cup {seen[c]}
    /\ UNCHANGED <<noted, history, about, seen>>

LessOneTick(n) == IF n > 0 THEN n - 1 ELSE 0

SkuKeysAgedForever == skuLeft

(* What a tick leaves of the SKU keys.                                     *)
SkuKeysAged == [k \in Key |-> LessOneTick(skuLeft[k])]

(* The clock of the Redis server.                                          *)
Tick ==
    /\ (\E m \in Move : left[m] > 0) \/ (\E k \in Key : skuLeft[k] > 0)
    /\ left' = [m \in Move |-> LessOneTick(left[m])]
    /\ skuLeft' = SkuKeysAged
    /\ UNCHANGED <<noted, history, clearVars, lifted>>

Next ==
    \/ \E m \in Move, k \in Key : Record(m, k)
    \/ \E c \in Clearer :
          (\E m \in Move : Clear(c, m)) \/ ClearGet(c) \/ ClearDelete(c)
    \/ Tick

Spec == Init /\ [][Next]_vars

(* The clock ticks; nobody has to reject or to clear.                      *)
FairSpec == Spec /\ WF_vars(Tick)

-----------------------------------------------------------------------------
(* is_rejected, is_sku_suppressed, get_history.                            *)
IsRejected(m) == left[m] > 0
IsSkuSuppressed(k) == skuLeft[k] > 0

(* LRANGE with an inclusive last index, counted from the end if negative.  *)
Lrange(list, last) ==
    SubSeq(list, 1, IF last < 0 THEN Len(list) + last + 1
                    ELSE IF last < Len(list) THEN last + 1 ELSE Len(list))

Capped(limit) == IF limit < MaxHistory THEN limit ELSE MaxHistory

GetHistory(limit) == Lrange(history, Capped(limit) - 1)

-----------------------------------------------------------------------------
(* While a rejection lives its SKU is suppressed for at least as long,     *)
(* unless some clear has deleted the SKU's key since: later rejections of  *)
(* the same SKU, and clears that race with them, only ever extend it.      *)
SuppressedUnlessLifted ==
    \A m \in Move : left[m] > 0 =>
        skuLeft[noted[m]] >= left[m] \/ noted[m] \in lifted

(* A positive limit gets at most that many entries, the newest ones.       *)
HistoryWithinLimit ==
    \A limit \in 1..(MaxHistory + 1) :
        /\ Len(GetHistory(limit)) <= limit
        /\ \A i \in DOMAIN GetHistory(limit) : GetHistory(limit)[i] = history[i]

(* "Rejections expire automatically via Redis key TTL so the scheduler can *)
(* re-propose the movement": a SKU that is not rejected any more is        *)
(* suppressed no more.                                                     *)
SuppressionEnds ==
    \A k \in Sku :
        (<>[][~\E m \in Move : Record(m, k)]_vars) => []<>(~IsSkuSuppressed(k))

-----------------------------------------------------------------------------
(* Statements of the documentation that the code does not keep.            *)

(* "ttl_seconds: How long this rejection suppresses the SKU."              *)
RejectedIsSuppressed ==
    \A m \in Move : IsRejected(m) => IsSkuSuppressed(noted[m])

(* "Lift an active rejection so the SKU can re-appear in scoring."         *)
ClearLiftsSuppression ==
    [][\A c \in Clearer : ClearDelete(c) => skuLeft'[SkuOf[about[c]]] = 0]_vars

(* "limit: Maximum number of records to return."                           *)
LimitIsMaximum == \A limit \in 0..MaxHistory : Len(GetHistory(limit)) <= limit
=============================================================================
