------------------------------ MODULE RedisProofs -----------------------------
(***************************************************************************)
(* What is kept in Redis for a time.  Of rejections (RejectionStore), for  *)
(* every number of movements, SKUs and concurrent clears, and every        *)
(* window: a SKU stays suppressed as long as a rejection of it, unless a   *)
(* clear has deleted its key.  Of the pieces of a snapshot (WmsCache), for *)
(* any number of pieces, readers and versions, any time to live and any    *)
(* lag of a query: how old what Redis offers can be.                       *)
(***************************************************************************)
EXTENDS RejectionStore, WmsCache, SequenceTheorems, TLAPS

-----------------------------------------------------------------------------
(* The rejection store.                                                    *)

(* The history is a list of at most MaxHistory entries after every push.   *)
LEMMA PushedHistory ==
    ASSUME TypeOK, NEW entry \in Move \X Key
    PROVE  /\ Pushed(entry) \in Seq(Move \X Key)
           /\ Len(Pushed(entry)) <= MaxHistory
<1> DEFINE all == <<entry>> \o history
           n == IF Len(history) < MaxHistory THEN Len(history) + 1 ELSE MaxHistory
<1>1. history \in Seq(Move \X Key) /\ Len(history) \in Nat
  BY DEF TypeOK
<1>2. all \in Seq(Move \X Key) /\ Len(all) = Len(history) + 1
  BY <1>1
<1>3. n \in 0..Len(all) /\ n <= MaxHistory
  BY <1>1, <1>2, RejectionAssumption DEF TypeOK
<1>4. SubSeq(all, 1, n) \in Seq(Move \X Key) /\ Len(SubSeq(all, 1, n)) = n
  BY <1>2, <1>3
<1> QED
  BY <1>3, <1>4 DEF Pushed

(* Types are kept by every step.                                           *)
LEMMA TypeStep ==
    ASSUME TypeOK, [Next]_vars
    PROVE  TypeOK'
<1> USE RejectionAssumption DEF TypeOK
<1>1. CASE UNCHANGED vars
  BY <1>1 DEF vars, storeVars, clearVars
<1>2. ASSUME NEW m \in Move, NEW k \in Key, Record(m, k)
      PROVE  TypeOK'
  <2>1. <<m, k>> \in Move \X Key
    OBVIOUS
  <2>2. history' \in Seq(Move \X Key) /\ Len(history') <= MaxHistory
    BY <1>2, <2>1, PushedHistory DEF Record
  <2>3. left' \in [Move -> 0..Window] /\ skuLeft' \in [Key -> 0..Window]
    BY <1>2 DEF Record, SkuKeySet
  <2>4. noted' \in [Move -> Key] /\ lifted' \subseteq Sku /\ UNCHANGED clearVars
    BY <1>2 DEF Record
  <2> QED
    BY <2>2, <2>3, <2>4 DEF clearVars
<1>3. ASSUME NEW c \in Clearer, NEW m \in Move, Clear(c, m)
      PROVE  TypeOK'
  BY <1>3 DEF Clear, storeVars
<1>4. ASSUME NEW c \in Clearer, ClearGet(c)
      PROVE  TypeOK'
  BY <1>4 DEF ClearGet, storeVars
<1>5. ASSUME NEW c \in Clearer, ClearDelete(c)
      PROVE  TypeOK'
  <2>1. left' \in [Move -> 0..Window] /\ pc' \in [Clearer -> {"idle", "get", "delete"}]
    BY <1>5 DEF ClearDelete
  <2>2. skuLeft' \in [Key -> 0..Window] /\ lifted' \subseteq Sku
    <3>1. CASE seen[c] = NoSku
      BY <1>5, <3>1 DEF ClearDelete
    <3>2. CASE seen[c] # NoSku
      <4>1. seen[c] \in Sku
        BY <3>2 DEF Key
      <4>2. skuLeft' = [skuLeft EXCEPT ![seen[c]] = 0] /\ lifted' = lifted \cup {seen[c]}
        BY <1>5, <3>2 DEF ClearDelete
      <4>3. skuLeft' \in [Key -> 0..Window]
        BY <4>2
      <4>4. lifted' \subseteq Sku
        BY <4>1, <4>2
      <4> QED
        BY <4>3, <4>4
    <3> QED
      BY <3>1, <3>2
  <2> QED
    BY <1>5, <2>1, <2>2 DEF ClearDelete
<1>6. CASE Tick
  <2>1. \A n \in 0..Window : LessOneTick(n) \in 0..Window
    BY DEF LessOneTick
  <2>2. left' \in [Move -> 0..Window] /\ skuLeft' \in [Key -> 0..Window]
    BY <1>6, <2>1 DEF Tick, SkuKeysAged
  <2> QED
    BY <1>6, <2>2 DEF Tick, clearVars
<1> QED
  BY <1>1, <1>2, <1>3, <1>4, <1>5, <1>6 DEF Next

(* Every variable keeps its type and the history its cap.                  *)
THEOREM StoreTypeCorrect == Spec => []TypeOK
<1>1. Init => TypeOK
  BY RejectionAssumption DEF Init, TypeOK, Key
<1> QED
  BY <1>1, TypeStep, PTL DEF Spec

(* A rejection written, cleared or aged keeps the SKU's key ahead of it.   *)
LEMMA SuppressionStep ==
    ASSUME TypeOK, SuppressedUnlessLifted, [Next]_vars
    PROVE  SuppressedUnlessLifted'
<1> USE RejectionAssumption DEF SuppressedUnlessLifted, TypeOK
<1>1. CASE UNCHANGED vars
  BY <1>1 DEF vars, storeVars
<1>2. ASSUME NEW m \in Move, NEW k \in Key, Record(m, k)
      PROVE  SuppressedUnlessLifted'
  BY <1>2 DEF Record, SkuKeySet
<1>3. ASSUME NEW c \in Clearer, (\E m \in Move : Clear(c, m)) \/ ClearGet(c)
      PROVE  SuppressedUnlessLifted'
  BY <1>3 DEF Clear, ClearGet, storeVars
<1>4. ASSUME NEW c \in Clearer, ClearDelete(c)
      PROVE  SuppressedUnlessLifted'
  BY <1>4 DEF ClearDelete
<1>5. CASE Tick
  BY <1>5 DEF Tick, SkuKeysAged, LessOneTick
<1> QED
  BY <1>1, <1>2, <1>3, <1>4, <1>5 DEF Next

(* A SKU stays suppressed at least as long as any live rejection of it,    *)
(* unless a clear has deleted its key since.                               *)
THEOREM SuppressionHolds == Spec => []SuppressedUnlessLifted
<1>1. Init => SuppressedUnlessLifted
  BY DEF Init, SuppressedUnlessLifted
<1> QED
  BY <1>1, SuppressionStep, StoreTypeCorrect, PTL DEF Spec

-----------------------------------------------------------------------------
(* The cache of snapshots.                                                 *)

(* Nothing is cached or read.                                              *)
LEMMA InitInvariant == CacheInit => CacheInvariant
BY WmsCacheAssumption
   DEF CacheInit, CacheInvariant, CacheTypeOK, OnlyThePastIsKnown, AnswersAreRecent,
       CacheIsRecent, Piece, Version, MaxOld

(* The next piece is a piece.                                              *)
LEMMA TakeKeepsTypes ==
    ASSUME CacheTypeOK, NEW r \in Reader, NEW v \in Version, Take(r, v)
    PROVE  /\ stage' \in [Reader -> {"idle", "get", "query", "store", "done"}]
           /\ at' \in [Reader -> Piece]
           /\ held' \in [Reader -> Version]
           /\ lag' \in [Reader -> 0..Lag]
           /\ got' \in [Reader -> [Piece -> Version]]
           /\ \A s \in Reader : stage'[s] = "store" =>
                 stage[s] = "store" /\ held'[s] = held[s] /\ lag'[s] = lag[s]
           /\ \A s \in Reader : held'[s] \in {held[s], 0}
<1> USE DEF CacheTypeOK
<1>1. stage' \in [Reader -> {"idle", "get", "query", "store", "done"}]
  BY DEF Take
<1>2. at' \in [Reader -> Piece]
  <2>1. at[r] \in 1..Pieces
    BY DEF Piece
  <2>2. CASE at[r] = Pieces
    BY <2>2 DEF Take
  <2>3. CASE at[r] # Pieces
    <3>1. Pieces \in Nat
      BY WmsCacheAssumption
    <3>2. at[r] + 1 \in Piece
      <4> HIDE DEF CacheTypeOK
      <4> QED
        BY <2>1, <2>3, <3>1 DEF Piece
    <3> QED
      BY <2>3, <3>2 DEF Take
  <2> QED
    BY <2>2, <2>3
<1>3. held' \in [Reader -> Version]
  BY WmsCacheAssumption DEF Take, Version
<1>4. lag' \in [Reader -> 0..Lag]
  BY WmsCacheAssumption DEF Take
<1>5. got' \in [Reader -> [Piece -> Version]]
  BY DEF Take
<1>6. ASSUME NEW s \in Reader
      PROVE  /\ stage'[s] = "store" => stage[s] = "store" /\ held'[s] = held[s] /\ lag'[s] = lag[s]
             /\ held'[s] \in {held[s], 0}
  BY DEF Take
<1> QED
  BY <1>1, <1>2, <1>3, <1>4, <1>5, <1>6

(* The arithmetic of versions and bounds.                                  *)
LEMMA Bounds ==
    /\ 0 \in Version
    /\ Version \subseteq Nat
    /\ Ttl \in 0..Ttl
    /\ 0..Ttl \subseteq Nat
    /\ 1 \in Piece
    /\ 0 \in 0..Lag
    /\ 0..Lag \subseteq Nat
    /\ 0..MaxOld \subseteq Nat
BY WmsCacheAssumption DEF Version, Piece, MaxOld

(* An answer, or none, is of the past.                                     *)
LEMMA HeldOrNothing ==
    ASSUME CacheTypeOK, OnlyThePastIsKnown, NEW s \in Reader, NEW v \in {held[s], 0}
    PROVE  v <= db
<1>1. db \in Nat /\ held[s] <= db
  BY Bounds DEF CacheTypeOK, OnlyThePastIsKnown
<1> QED
  BY <1>1

(* A reader that takes a piece, from Redis or its own query, and leaves    *)
(* Redis as it is.                                                         *)
LEMMA TakeKeepsInvariant ==
    ASSUME CacheInvariant, NEW r \in Reader, NEW v \in Version, Take(r, v),
           UNCHANGED <<db, old, value, lives>>
    PROVE  CacheInvariant'
<1> USE DEF CacheInvariant
<1>1. CacheTypeOK'
  BY TakeKeepsTypes DEF CacheTypeOK
<1>2. OnlyThePastIsKnown'
  <2>1. \A s \in Reader : held'[s] <= db
    BY TakeKeepsTypes, HeldOrNothing
  <2> QED
    BY <2>1 DEF OnlyThePastIsKnown
<1>3. AnswersAreRecent'
  BY TakeKeepsTypes DEF AnswersAreRecent
<1>4. CacheIsRecent'
  BY DEF CacheIsRecent
<1> QED
  BY <1>1, <1>2, <1>3, <1>4

(* A reader that does not touch Redis nor its last query.                  *)
LEMMA MoveKeepsInvariant ==
    ASSUME CacheInvariant, CacheTypeOK', UNCHANGED <<db, old, value, lives, held, lag>>,
           \A r \in Reader : stage'[r] = "store" => stage[r] = "store"
    PROVE  CacheInvariant'
BY DEF CacheInvariant, OnlyThePastIsKnown, AnswersAreRecent, CacheIsRecent

(* No step makes an old answer available for longer than its query allowed.*)
LEMMA NextInvariant == CacheInvariant /\ [CacheNext]_cacheVars => CacheInvariant'
<1> SUFFICES ASSUME CacheInvariant, [CacheNext]_cacheVars
             PROVE  CacheInvariant'
  OBVIOUS
<1> CacheTypeOK /\ OnlyThePastIsKnown /\ AnswersAreRecent /\ CacheIsRecent
  BY DEF CacheInvariant
<1>1. CASE UNCHANGED cacheVars
  BY <1>1 DEF cacheVars, readerVars, CacheInvariant, CacheTypeOK, OnlyThePastIsKnown,
              AnswersAreRecent,
              CacheIsRecent
<1>2. ASSUME NEW r \in Reader, Begin(r)
      PROVE  CacheInvariant'
  <2>1. CacheTypeOK'
    BY <1>2, Bounds DEF Begin, CacheTypeOK
  <2> QED
    BY <1>2, <2>1, MoveKeepsInvariant DEF Begin, CacheTypeOK
<1>3. ASSUME NEW r \in Reader, Hit(r)
      PROVE  CacheInvariant'
  <2>1. value[at[r]] \in Version
    BY DEF CacheTypeOK
  <2> QED
    BY <1>3, <2>1, TakeKeepsInvariant DEF Hit, AfterHit
<1>4. ASSUME NEW r \in Reader, Miss(r) \/ QueryFails(r)
      PROVE  CacheInvariant'
  <2>1. CacheTypeOK'
    BY <1>4 DEF Miss, QueryFails, CacheTypeOK
  <2> QED
    BY <1>4, <2>1, MoveKeepsInvariant DEF Miss, QueryFails, CacheTypeOK
<1>5. ASSUME NEW r \in Reader, Query(r)
      PROVE  CacheInvariant'
  <2>1. CacheTypeOK'
    BY <1>5 DEF Query, CacheTypeOK
  <2>2. OnlyThePastIsKnown'
    BY <1>5, Bounds DEF Query, CacheTypeOK, OnlyThePastIsKnown
  <2>3. AnswersAreRecent'
    <3>1. old[db] = 0
      BY Bounds DEF OnlyThePastIsKnown, CacheTypeOK
    <3> QED
      BY <1>5, <3>1, Bounds DEF Query, CacheTypeOK, AnswersAreRecent
  <2>4. CacheIsRecent'
    BY <1>5 DEF Query, CacheIsRecent
  <2> QED
    BY <2>1, <2>2, <2>3, <2>4 DEF CacheInvariant
<1>6. ASSUME NEW r \in Reader, Store(r)
      PROVE  CacheInvariant'
  <2>1. at[r] \in Piece /\ held[r] \in Version /\ lag[r] \in 0..Lag /\ Take(r, held[r])
    BY <1>6 DEF Store, CacheTypeOK
  <2>2. /\ UNCHANGED <<db, old>>
        /\ value' = [value EXCEPT ![at[r]] = held[r]]
        /\ lives' = [lives EXCEPT ![at[r]] = Ttl]
        /\ old[held[r]] <= lag[r]
        /\ held[r] <= db
    BY <1>6 DEF Store, TtlSet, AnswersAreRecent, OnlyThePastIsKnown
  <2>3. CacheTypeOK'
    BY <2>1, <2>2, TakeKeepsTypes, Bounds DEF CacheTypeOK
  <2>4. OnlyThePastIsKnown'
    <3>1. \A s \in Reader : held'[s] <= db
      BY <2>1, TakeKeepsTypes, HeldOrNothing
    <3>2. \A p \in Piece : value'[p] <= db
      BY <2>2 DEF CacheTypeOK, OnlyThePastIsKnown
    <3> QED
      BY <2>2, <3>1, <3>2 DEF OnlyThePastIsKnown
  <2>5. AnswersAreRecent'
    BY <2>1, <2>2, TakeKeepsTypes DEF AnswersAreRecent
  <2>6. CacheIsRecent'
    <3>1. old[held[r]] + Ttl <= Ttl + Lag
      <4>1. old[held[r]] \in Nat
        BY <2>1, Bounds DEF CacheTypeOK
      <4> QED
        BY <4>1, <2>1, <2>2, WmsCacheAssumption
    <3>2. ASSUME NEW p \in Piece, lives'[p] > 0
          PROVE  old'[value'[p]] + lives'[p] <= Ttl + Lag
      <4>1. CASE p = at[r]
        BY <4>1, <3>1, <2>2 DEF CacheTypeOK
      <4>2. CASE p # at[r]
        BY <4>2, <3>2, <2>2 DEF CacheTypeOK, CacheIsRecent
      <4> QED
        BY <4>1, <4>2
    <3> QED
      BY <3>2 DEF CacheIsRecent
  <2> QED
    BY <2>3, <2>4, <2>5, <2>6 DEF CacheInvariant
<1>7. ASSUME NEW r \in Reader, StoreFails(r)
      PROVE  CacheInvariant'
  <2>1. held[r] \in Version
    BY DEF CacheTypeOK
  <2> QED
    BY <1>7, <2>1, TakeKeepsInvariant DEF StoreFails
<1>8. CASE ChangeDb
  <2>1. CacheTypeOK'
    BY <1>8, WmsCacheAssumption DEF ChangeDb, readerVars, CacheTypeOK, Version
  <2>2. OnlyThePastIsKnown'
    <3>1. db \in Nat /\ db' = db + 1 /\ UNCHANGED <<old, value, held>>
      BY <1>8, Bounds DEF ChangeDb, readerVars, CacheTypeOK
    <3>2. \A v \in Version : v >= db' => v >= db
      BY <3>1, Bounds
    <3>3. \A v \in Version : v <= db => v <= db'
      BY <3>1, Bounds
    <3>4. /\ \A p \in Piece : value[p] \in Version
          /\ \A r \in Reader : held[r] \in Version
      BY DEF CacheTypeOK
    <3> QED
      BY <3>1, <3>2, <3>3, <3>4 DEF OnlyThePastIsKnown
  <2> QED
    BY <1>8, <2>1, <2>2 DEF ChangeDb, readerVars, AnswersAreRecent, CacheIsRecent, CacheInvariant
<1>9. CASE Elapse
  <2>1. \A v \in Version : /\ old'[v] \in 0..MaxOld
                           /\ old'[v] <= old[v] + 1
                           /\ v >= db => old'[v] = old[v]
    BY <1>9, Bounds, WmsCacheAssumption DEF Elapse, CacheTypeOK, MaxOld
  <2>2. \A p \in Piece : /\ lives'[p] \in 0..Ttl
                         /\ lives'[p] > 0 => lives[p] = lives'[p] + 1
    BY <1>9, WmsCacheAssumption DEF Elapse, Aged, CacheTypeOK
  <2>3. \A r \in Reader : /\ lag'[r] \in 0..Lag
                          /\ stage[r] = "store" => lag'[r] = lag[r] + 1
    BY <1>9, WmsCacheAssumption DEF Elapse, CacheTypeOK
  <2>4. CacheTypeOK'
    BY <1>9, <2>1, <2>2, <2>3 DEF Elapse, CacheTypeOK
  <2>5. OnlyThePastIsKnown'
    BY <1>9, <2>1 DEF Elapse, OnlyThePastIsKnown
  <2>6. AnswersAreRecent'
    <3> SUFFICES ASSUME NEW r \in Reader, stage'[r] = "store"
                 PROVE  old'[held'[r]] <= lag'[r]
      BY DEF AnswersAreRecent
    <3>1. /\ stage[r] = "store" /\ held'[r] = held[r] /\ held[r] \in Version
          /\ old[held[r]] <= lag[r] /\ old[held[r]] \in Nat /\ lag[r] \in Nat
      BY <1>9, Bounds DEF Elapse, CacheTypeOK, AnswersAreRecent
    <3>2. old'[held[r]] <= old[held[r]] + 1 /\ old'[held[r]] \in Nat
      BY <2>1, <3>1, Bounds
    <3> QED
      BY <3>1, <3>2, <2>3
  <2>7. CacheIsRecent'
    <3> SUFFICES ASSUME NEW p \in Piece, lives'[p] > 0
                 PROVE  old'[value'[p]] + lives'[p] <= Ttl + Lag
      BY DEF CacheIsRecent
    <3>1. lives[p] = lives'[p] + 1 /\ lives'[p] \in Nat /\ lives[p] > 0
      <4>1. lives[p] = lives'[p] + 1 /\ lives'[p] \in Nat
        BY <2>2, Bounds
      <4> QED
        BY <4>1
    <3>2. /\ value'[p] = value[p] /\ value[p] \in Version
          /\ old[value[p]] + lives[p] <= Ttl + Lag /\ old[value[p]] \in Nat
      <4>1. value'[p] = value[p] /\ value[p] \in Version
        BY <1>9 DEF Elapse, CacheTypeOK
      <4>2. old[value[p]] + lives[p] <= Ttl + Lag
        BY <3>1 DEF CacheIsRecent
      <4>3. old[value[p]] \in Nat
        BY <4>1, Bounds DEF CacheTypeOK
      <4> QED
        BY <4>1, <4>2, <4>3
    <3>3. old'[value[p]] <= old[value[p]] + 1 /\ old'[value[p]] \in Nat
      BY <2>1, <3>2, Bounds
    <3> QED
      BY <3>1, <3>2, <3>3, WmsCacheAssumption
  <2> QED
    BY <2>4, <2>5, <2>6, <2>7 DEF CacheInvariant
<1> QED
  BY <1>1, <1>2, <1>3, <1>4, <1>5, <1>6, <1>7, <1>8, <1>9 DEF CacheNext, ReaderStep

(* The invariant, from the two lemmas.                                     *)
LEMMA Invariance == CacheSpec => []CacheInvariant
BY InitInvariant, NextInvariant, PTL DEF CacheSpec

(* Types of the cache and of every reader's data.                          *)
THEOREM CacheTypeCorrect == CacheSpec => []CacheTypeOK
BY Invariance, PTL DEF CacheInvariant

(* Redis offers nothing that was overtaken longer ago than the time to     *)
(* live and one query, however many readers overlap.                       *)
THEOREM CacheRecency == CacheSpec => []CacheIsRecent
BY Invariance, PTL DEF CacheInvariant
=============================================================================
