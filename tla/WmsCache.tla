------------------------------ MODULE WmsCache ------------------------------
(***************************************************************************)
(* Warehouse snapshots (get_warehouse_state, src/ingestion/wms_adapter.py) *)
(* and the reads they are made of (src/ingestion/adapters/generic_db.py):  *)
(* each piece comes from its key in Redis, or is queried and written back  *)
(* to it, with an await at every step and cycles and routes overlapping.   *)
(*                                                                         *)
(* A value is the version of the database it was queried from; every       *)
(* change of the database makes a new one.  (Zones, doors and horizons are *)
(* the defaults everywhere in src/, so a piece has one key.)  Time goes in *)
(* ticks, of which a query's answer takes at most Lag until it is in Redis.*)
(***************************************************************************)
EXTENDS Naturals

CONSTANTS
    Pieces,    \* the number of reads get_warehouse_state makes, in order
    Reader,    \* overlapping callers of it
    Ttl,       \* cache_ttl_seconds
    Lag,       \* bound: ticks from a query to the end of its SETEX
    MaxVersion \* bound: changes of the database

ASSUME WmsCacheAssumption ==
    /\ Pieces \in Nat \ {0}
    /\ Ttl \in Nat \ {0}
    /\ Lag \in Nat
    /\ MaxVersion \in Nat

VARIABLES
    db,    \* the version the database is at
    old,   \* ticks since a version was overtaken, up to Ttl + Lag + 1
    value, \* what the key of each piece holds
    lives, \* the ticks it has left, 0 when absent
    stage, \* where each reader stands
    at,    \* the piece it is at
    held,  \* the answer of its query, until it is in Redis
    lag,   \* ticks since that query, until then
    got    \* the pieces of its snapshot

readerVars == <<stage, at, held, lag, got>>
cacheVars == <<db, old, value, lives, readerVars>>

Piece == 1..Pieces
Version == 0..MaxVersion
MaxOld == Ttl + Lag + 1

CacheTypeOK ==
    /\ db \in Version
    /\ old \in [Version -> 0..MaxOld]
    /\ value \in [Piece -> Version]
    /\ lives \in [Piece -> 0..Ttl]
    /\ stage \in [Reader -> {"idle", "get", "query", "store", "done"}]
    /\ at \in [Reader -> Piece]
    /\ held \in [Reader -> Version]
    /\ lag \in [Reader -> 0..Lag]
    /\ got \in [Reader -> [Piece -> Version]]

CacheInit ==
    /\ db = 0
    /\ old = [v \in Version |-> 0]
    /\ value = [p \in Piece |-> 0]
    /\ lives = [p \in Piece |-> 0]
    /\ stage = [r \in Reader |-> "idle"]
    /\ at = [r \in Reader |-> 1]
    /\ held = [r \in Reader |-> 0]
    /\ lag = [r \in Reader |-> 0]
    /\ got = [r \in Reader |-> [p \in Piece |-> 0]]

-----------------------------------------------------------------------------
(* get_warehouse_state is called.                                          *)
Begin(r) ==
    /\ stage[r] \in {"idle", "done"}
    /\ stage' = [stage EXCEPT ![r] = "get"]
    /\ at' = [at EXCEPT ![r] = 1]
    /\ got' = [got EXCEPT ![r] = [p \in Piece |-> 0]]
    /\ UNCHANGED <<db, old, value, lives, held, lag>>

(* The piece r is at is v; on to the next one, or return.                  *)
Take(r, v) ==
    /\ got' = [got EXCEPT ![r][at[r]] = v]
    /\ held' = [held EXCEPT ![r] = 0]
    /\ lag' = [lag EXCEPT ![r] = 0]
    /\ IF at[r] = Pieces
       THEN stage' = [stage EXCEPT ![r] = "done"] /\ UNCHANGED at
       ELSE stage' = [stage EXCEPT ![r] = "get"] /\ at' = [at EXCEPT ![r] = @ + 1]

RenewedOnHit(p) == [lives EXCEPT ![p] = Ttl]

(* What a hit leaves of the times to live.                                 *)
AfterHit(p) == lives

(* _get_cached finds the key.                                              *)
Hit(r) ==
    /\ stage[r] = "get"
    /\ lives[at[r]] > 0
    /\ Take(r, value[at[r]])
    /\ lives' = AfterHit(at[r])
    /\ UNCHANGED <<db, old, value>>

(* It is absent, Redis raises, or there is no Redis.                       *)
Miss(r) ==
    /\ stage[r] = "get"
    /\ stage' = [stage EXCEPT ![r] = "query"]
    /\ UNCHANGED <<db, old, value, lives, at, held, lag, got>>

Query(r) ==
    /\ stage[r] = "query"
    /\ stage' = [stage EXCEPT ![r] = "store"]
    /\ held' = [held EXCEPT ![r] = db]
    /\ UNCHANGED <<db, old, value, lives, at, lag, got>>

(* The database raises, and so does get_warehouse_state.                   *)
QueryFails(r) ==
    /\ stage[r] = "query"
    /\ stage' = [stage EXCEPT ![r] = "idle"]
    /\ UNCHANGED <<db, old, value, lives, at, held, lag, got>>

(* The time to live SETEX leaves.                                          *)
TtlSet(p) == Ttl

(* _set_cached: SETEX, whatever another reader has put there meanwhile.    *)
Store(r) ==
    /\ stage[r] = "store"
    /\ value' = [value EXCEPT ![at[r]] = held[r]]
    /\ lives' = [lives EXCEPT ![at[r]] = TtlSet(at[r])]
    /\ Take(r, held[r])
    /\ UNCHANGED <<db, old>>

(* Redis raises; the answer is used all the same.                          *)
StoreFails(r) ==
    /\ stage[r] = "store"
    /\ Take(r, held[r])
    /\ UNCHANGED <<db, old, value, lives>>

ReaderStep(r) ==
    Hit(r) \/ Miss(r) \/ Query(r) \/ QueryFails(r) \/ Store(r) \/ StoreFails(r)

-----------------------------------------------------------------------------
(* The warehouse changes.                                                  *)
ChangeDb ==
    /\ db < MaxVersion
    /\ db' = db + 1
    /\ UNCHANGED <<old, value, lives, readerVars>>

AgedForever(p) == lives[p]

Aged(p) == IF lives[p] > 0 THEN lives[p] - 1 ELSE 0

Elapse ==
    /\ \A r \in Reader : stage[r] = "store" => lag[r] < Lag
    /\ old' = [v \in Version |->
                  IF v < db /\ old[v] < MaxOld THEN old[v] + 1 ELSE old[v]]
    /\ lives' = [p \in Piece |-> Aged(p)]
    /\ lag' = [r \in Reader |-> IF stage[r] = "store" THEN lag[r] + 1 ELSE lag[r]]
    /\ UNCHANGED <<db, value, stage, at, held, got>>

CacheNext ==
    \/ \E r \in Reader : Begin(r) \/ ReaderStep(r)
    \/ ChangeDb
    \/ Elapse

CacheSpec == CacheInit /\ [][CacheNext]_cacheVars

(* The clock runs, Redis and the database answer or raise, and the         *)
(* scheduler goes on to take snapshots.                                    *)
FairCacheSpec ==
    /\ CacheSpec
    /\ WF_cacheVars(Elapse)
    /\ \A r \in Reader : WF_cacheVars(Begin(r)) /\ WF_cacheVars(ReaderStep(r))

-----------------------------------------------------------------------------
(* What Redis offers was the database's content no longer ago than the     *)
(* time to live and one query: overlapping readers may put an old answer   *)
(* over a newer one, but neither that nor hits keep it alive for longer.   *)
CacheIsRecent ==
    \A p \in Piece : lives[p] > 0 => old[value[p]] + lives[p] <= Ttl + Lag

(* A reader's answer is no older than its query.                           *)
AnswersAreRecent ==
    \A r \in Reader : stage[r] = "store" => old[held[r]] <= lag[r]

OnlyThePastIsKnown ==
    /\ \A v \in Version : v >= db => old[v] = 0
    /\ \A p \in Piece : value[p] <= db
    /\ \A r \in Reader : held[r] <= db

(* Why CacheIsRecent holds.                                                *)
CacheInvariant ==
    /\ CacheTypeOK
    /\ OnlyThePastIsKnown
    /\ AnswersAreRecent
    /\ CacheIsRecent

(* Once the warehouse rests, snapshots are of its last state from some     *)
(* point on, however Redis fails and readers overtake each other.          *)
RestIsNoticed ==
    <>[][db' = db]_cacheVars =>
        <>[](\A r \in Reader, p \in Piece : stage[r] = "done" => got[r][p] = db)

-----------------------------------------------------------------------------
(* Statements of the documentation that the code does not keep.            *)

(* "Fetch and bundle all warehouse state into a single snapshot."          *)
SnapshotIsOfOneState ==
    \A r \in Reader : stage[r] = "done" => \A p, q \in Piece : got[r][p] = got[r][q]

(* cache_ttl_seconds, "How long to cache results in Redis": no result from *)
(* Redis was overtaken longer ago than that.                               *)
NothingOutlivesTtl == \A p \in Piece : lives[p] > 0 => old[value[p]] <= Ttl
=============================================================================
