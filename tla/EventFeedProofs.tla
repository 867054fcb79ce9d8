-------------------------- MODULE EventFeedProofs --------------------------
(***************************************************************************)
(* For any sockets and any overlapping broadcasts: what is registered is   *)
(* served, and who stays throughout a broadcast gets its message once.     *)
(***************************************************************************)
EXTENDS EventFeed, FiniteSetTheorems, TLAPS

NoRepeats(q) == \A i, j \in DOMAIN q : i # j => q[i] # q[j]

(* Where a broadcast stands: what it has passed, and what it owes to those *)
(* that stay.                                                              *)
Delivering(b) ==
    /\ NoRepeats(round[b])
    /\ \A s \in Socket : got[b][s] \in {0, 1}
    /\ pc[b] = "send" =>
          /\ at[b] <= Len(round[b])
          /\ \A s \in Socket : got[b][s] = 1 => \E i \in 1..at[b] - 1 : round[b][i] = s
          /\ \A s \in steady[b] :
                \E i \in DOMAIN round[b] : round[b][i] = s /\ (i < at[b] => got[b][s] = 1)
    /\ pc[b] = "done" => \A s \in steady[b] : got[b][s] = 1

FeedInvariant == TypeOK /\ RegisteredIsServed /\ \A b \in Broadcast : Delivering(b)

-----------------------------------------------------------------------------
(* Closing ranks: every place that is left gets one number.                *)
LEMMA NthIsOnto ==
    ASSUME NEW S \in SUBSET Nat, IsFiniteSet(S)
    PROVE  /\ Cardinality(S) \in Nat
           /\ \A n \in 1..Cardinality(S) : Nth(S, n) \in S
           /\ \A m, n \in 1..Cardinality(S) : m # n => Nth(S, m) # Nth(S, n)
<1> DEFINE upTo(i) == {j \in S : j <= i}
           rank == [i \in S |-> Cardinality(upTo(i))]
           N == Cardinality(S)
<1>1. N \in Nat
  BY FS_CardinalityType
<1>2. \A i \in S : IsFiniteSet(upTo(i)) /\ rank[i] \in 1..N
  <2> SUFFICES ASSUME NEW i \in S
               PROVE  IsFiniteSet(upTo(i)) /\ Cardinality(upTo(i)) \in 1..N
    OBVIOUS
  <2>1. upTo(i) \in SUBSET S /\ upTo(i) # {}
    OBVIOUS
  <2>2. IsFiniteSet(upTo(i)) /\ Cardinality(upTo(i)) <= N
    BY <2>1, FS_Subset
  <2>3. Cardinality(upTo(i)) \in Nat /\ Cardinality(upTo(i)) # 0
    BY <2>1, <2>2, FS_CardinalityType, FS_EmptySet
  <2> QED
    BY <1>1, <2>2, <2>3
<1>3. ASSUME NEW i \in S, NEW j \in S, i < j
      PROVE  rank[i] # rank[j]
  <2>1. /\ \A k \in S : k \in Nat
        /\ \A k \in S : k <= i => k <= j
    BY <1>3
  <2>2. j \in upTo(j) /\ j \notin upTo(i) /\ upTo(i) \in SUBSET upTo(j)
    <3>1. j <= j /\ ~ (j <= i)
      BY <1>3, <2>1
    <3>2. j \in upTo(j) /\ j \notin upTo(i)
      BY <3>1
    <3>3. upTo(i) \in SUBSET upTo(j)
      BY <2>1
    <3> QED
      BY <3>2, <3>3
  <2>3. IsFiniteSet(upTo(j)) /\ upTo(i) # upTo(j)
    BY <1>2, <2>2
  <2>4. Cardinality(upTo(i)) # Cardinality(upTo(j))
    <3> HIDE DEF upTo
    <3> QED
      BY <2>2, <2>3, FS_Subset
  <2> QED
    BY <2>4
<1>4. \A i, j \in S : i # j => rank[i] # rank[j]
  <2> SUFFICES ASSUME NEW i \in S, NEW j \in S, i # j
               PROVE  rank[i] # rank[j]
    OBVIOUS
  <2>1. i < j \/ j < i
    OBVIOUS
  <2> QED
    BY <1>3, <2>1
<1>5. IsFiniteSet(1..N) /\ Cardinality(1..N) = N
  BY <1>1, FS_Interval
<1>6. rank \in Surjection(S, 1..N)
  <2>1. rank \in Injection(S, 1..N)
    BY <1>2, <1>4 DEF Injection, IsInjective
  <2> QED
    BY <1>5, <2>1, FS_Injection
<1>7. ASSUME NEW n \in 1..N
      PROVE  Nth(S, n) \in S /\ Cardinality(upTo(Nth(S, n))) = n
  <2>1. \E i \in S : rank[i] = n
    BY <1>6 DEF Surjection
  <2>2. \E i \in S : Cardinality({j \in S : j <= i}) = n
    BY <2>1
  <2> QED
    BY <2>2 DEF Nth
<1> QED
  BY <1>1, <1>7

(* What is left of a registry without repeats.                             *)
LEMMA PickedKeeps ==
    ASSUME TypeOK, NoRepeats(active), NEW places \in SUBSET DOMAIN active
    PROVE  /\ Picked(places) \in Seq(Socket)
           /\ NoRepeats(Picked(places))
           /\ \A k \in DOMAIN Picked(places) : \E i \in places : Picked(places)[k] = active[i]
<1>1. /\ DOMAIN active = 1..Len(active) /\ Len(active) \in Nat
      /\ \A i \in DOMAIN active : active[i] \in Socket
  BY DEF TypeOK
<1>2. IsFiniteSet(places) /\ places \in SUBSET Nat
  <2>1. IsFiniteSet(1..Len(active)) /\ places \in SUBSET (1..Len(active))
    BY <1>1, FS_Interval
  <2>2. places \in SUBSET Nat
    BY <2>1
  <2> QED
    BY <2>1, <2>2, FS_Subset
<1> DEFINE n == Cardinality(places)
<1>3. /\ n \in Nat
      /\ \A k \in 1..n : Nth(places, k) \in places
      /\ \A k, m \in 1..n : k # m => Nth(places, k) # Nth(places, m)
  BY <1>2, NthIsOnto
<1>4. /\ DOMAIN Picked(places) = 1..n
      /\ \A k \in 1..n : Picked(places)[k] = active[Nth(places, k)]
  BY DEF Picked
<1>5. Picked(places) \in [1..n -> Socket]
  BY <1>1, <1>3 DEF Picked
<1> HIDE DEF n
<1>6. Picked(places) \in Seq(Socket)
  BY <1>3, <1>5
<1>7. NoRepeats(Picked(places))
  <2> SUFFICES ASSUME NEW k \in 1..n, NEW m \in 1..n, k # m
               PROVE  Picked(places)[k] # Picked(places)[m]
    BY <1>4 DEF NoRepeats
  <2>1. /\ Nth(places, k) \in DOMAIN active /\ Nth(places, m) \in DOMAIN active
        /\ Nth(places, k) # Nth(places, m)
    BY <1>3
  <2> QED
    BY <1>4, <2>1 DEF NoRepeats
<1>8. \A k \in DOMAIN Picked(places) : \E i \in places : Picked(places)[k] = active[i]
  BY <1>3, <1>4
<1> QED
  BY <1>6, <1>7, <1>8

(* Without some sockets.                                                   *)
LEMMA DisconnectRemoves ==
    ASSUME TypeOK, NoRepeats(active), NEW sockets,
           NEW left, left = Picked(DOMAIN active \ Places(sockets))
    PROVE  /\ left \in Seq(Socket)
           /\ NoRepeats(left)
           /\ \A k \in DOMAIN left : left[k] \in Registered \ sockets
<1>1. \A i \in DOMAIN active : active[i] \in sockets => i \in Places(sockets)
  <2>1. \A i \in DOMAIN active : \A j \in 1..i - 1 : j \in DOMAIN active /\ j # i
    BY DEF TypeOK
  <2> QED
    BY <2>1 DEF Places, NoRepeats
<1>2. DOMAIN active \ Places(sockets) \in SUBSET DOMAIN active
  OBVIOUS
<1> QED
  BY <1>1, <1>2, PickedKeeps DEF Registered

-----------------------------------------------------------------------------
LEMMA FeedInitially == Init => FeedInvariant
<1> SUFFICES ASSUME Init
             PROVE  FeedInvariant
  OBVIOUS
<1>1. TypeOK
  BY DEF Init, TypeOK
<1>2. RegisteredIsServed
  BY DEF Init, RegisteredIsServed, Registered
<1>3. \A b \in Broadcast : Delivering(b)
  BY DEF Init, Delivering, NoRepeats
<1> QED
  BY <1>1, <1>2, <1>3 DEF FeedInvariant

(* What every step does to the registry, to handlers and to those who are  *)
(* counted on.                                                             *)
LEMMA RegistryStep ==
    ASSUME FeedInvariant, [Next]_vars
    PROVE  TypeOK' /\ RegisteredIsServed'
<1> USE DEF FeedInvariant
<1>1. NoRepeats(active) /\ \A i \in DOMAIN active : handler[active[i]] = "receive"
  BY DEF RegisteredIsServed, Registered, NoRepeats
<1>2. CASE UNCHANGED vars
  BY <1>2 DEF vars, handlerVars, broadcastVars, TypeOK, RegisteredIsServed, Registered
<1>3. ASSUME NEW s \in Socket, Connect(s) \/ Refuse(s) \/ AcceptFails(s)
      PROVE  TypeOK' /\ RegisteredIsServed'
  <2>1. \A t \in Registered : t # s
    BY <1>3 DEF Connect, Refuse, AcceptFails, RegisteredIsServed
  <2>2. /\ UNCHANGED <<active, gone, pc, round, at, dead, got, steady>>
        /\ \E place \in {"accept", "returned"} : handler' = [handler EXCEPT ![s] = place]
    BY <1>3 DEF Connect, Refuse, AcceptFails, Handle, broadcastVars
  <2>3. TypeOK'
    BY <2>2 DEF TypeOK
  <2>4. Registered' = Registered /\ \A t \in Registered : handler'[t] = handler[t]
    BY <2>1, <2>2 DEF TypeOK, Registered
  <2> QED
    BY <2>2, <2>3, <2>4 DEF RegisteredIsServed
<1>4. ASSUME NEW s \in Socket, Accept(s)
      PROVE  TypeOK' /\ RegisteredIsServed'
  <2>1. /\ active' = Append(active, s) /\ handler' = [handler EXCEPT ![s] = "receive"]
        /\ UNCHANGED <<gone, pc, round, at, dead, got, steady>>
        /\ handler[s] = "accept"
    BY <1>4 DEF Accept, Handle, broadcastVars
  <2>2. TypeOK'
    BY <2>1 DEF TypeOK
  <2>3. s \notin Registered
    BY <2>1 DEF RegisteredIsServed
  <2>4. /\ DOMAIN active' = DOMAIN active \cup {Len(active) + 1} /\ Len(active) + 1 \notin DOMAIN active
        /\ \A i \in DOMAIN active : active'[i] = active[i]
        /\ active'[Len(active) + 1] = s
    BY <2>1 DEF TypeOK
  <2>5. NoRepeats(active')
    BY <1>1, <2>3, <2>4 DEF NoRepeats, Registered
  <2>6. \A i \in DOMAIN active' : handler'[active'[i]] = "receive"
    BY <1>1, <2>1, <2>4 DEF TypeOK
  <2> QED
    BY <2>2, <2>5, <2>6 DEF RegisteredIsServed, Registered, NoRepeats
<1>5. ASSUME NEW s \in Socket, Receive(s)
      PROVE  TypeOK' /\ RegisteredIsServed'
  <2>1. /\ active' = Picked(DOMAIN active \ Places({s}))
        /\ handler' = [handler EXCEPT ![s] = "returned"] /\ gone' = gone \cup {s}
        /\ steady' = Steady({s}) /\ UNCHANGED <<pc, round, at, dead, got>>
    BY <1>5 DEF Receive, AfterDisconnect, Handle, broadcastVars
  <2>2. /\ active' \in Seq(Socket) /\ NoRepeats(active')
        /\ \A k \in DOMAIN active' : active'[k] \in Registered \ {s}
    BY <1>1, <2>1, DisconnectRemoves
  <2>3. TypeOK'
    BY <2>1, <2>2 DEF TypeOK, Steady
  <2>4. \A k \in DOMAIN active' : handler'[active'[k]] = "receive"
    <3> SUFFICES ASSUME NEW k \in DOMAIN active'
                 PROVE  handler'[active'[k]] = "receive"
      OBVIOUS
    <3>1. active'[k] \in Registered /\ active'[k] # s /\ active'[k] \in Socket
      BY <2>2
    <3>2. handler[active'[k]] = "receive"
      BY <3>1 DEF RegisteredIsServed
    <3> QED
      BY <2>1, <3>1, <3>2 DEF TypeOK
  <2> QED
    BY <2>2, <2>3, <2>4 DEF RegisteredIsServed, NoRepeats, Registered
<1>6. ASSUME NEW s \in Socket, Leave(s)
      PROVE  TypeOK' /\ RegisteredIsServed'
  BY <1>6 DEF Leave, broadcastVars, TypeOK, RegisteredIsServed, Registered
<1>7. ASSUME NEW b \in Broadcast, Start(b) \/ Return(b)
      PROVE  TypeOK' /\ RegisteredIsServed'
  <2>1. RegisteredIsServed'
    BY <1>7 DEF Start, Return, handlerVars, RegisteredIsServed, Registered
  <2>2. Registered \in SUBSET Socket
    BY DEF Registered, TypeOK
  <2>3. CASE Start(b)
    <3>1. round' \in [Broadcast -> Seq(Socket)] /\ at' \in [Broadcast -> Nat \ {0}]
      BY <2>3 DEF Start, TypeOK
    <3>2. dead' \in [Broadcast -> SUBSET Socket] /\ steady' \in [Broadcast -> SUBSET Socket]
      BY <2>2, <2>3 DEF Start, TypeOK
    <3>3. got' \in [Broadcast -> [Socket -> Nat]]
      <4>1. [s \in Socket |-> 0] \in [Socket -> Nat]
        OBVIOUS
      <4> QED
        BY <2>3, <4>1 DEF Start, TypeOK
    <3>4. pc' \in [Broadcast -> {"idle", "send", "done"}] /\ UNCHANGED <<active, handler, gone>>
      BY <2>3 DEF Start, TypeOK, handlerVars
    <3> QED
      BY <2>1, <3>1, <3>2, <3>3, <3>4 DEF TypeOK
  <2>4. CASE Return(b)
    BY <2>1, <2>4 DEF Return, handlerVars, TypeOK
  <2> QED
    BY <1>7, <2>3, <2>4
<1>8. ASSUME NEW b \in Broadcast, Send(b)
      PROVE  TypeOK' /\ RegisteredIsServed'
  <2>1. round[b][at[b]] \in Socket
    BY <1>8 DEF Send, TypeOK
  <2>2. /\ got' \in [Broadcast -> [Socket -> Nat]] /\ dead' \in [Broadcast -> SUBSET Socket]
        /\ steady' \in [Broadcast -> SUBSET Socket]
    <3> DEFINE s == round[b][at[b]]
    <3>1. CASE got' = [got EXCEPT ![b][s] = @ + 1] /\ dead' = dead /\ UNCHANGED steady
      <4>1. [got[b] EXCEPT ![s] = @ + 1] \in [Socket -> Nat]
        BY <2>1 DEF TypeOK
      <4> HIDE DEF s
      <4> QED
        BY <3>1, <4>1 DEF TypeOK
    <3>2. CASE got' = got /\ dead' = [dead EXCEPT ![b] = @ \cup {s}] /\ steady' = Steady({s})
      BY <2>1, <3>2 DEF TypeOK, Steady
    <3> QED
      BY <1>8, <3>1, <3>2 DEF Send
  <2>3. CASE Onward(b) > Len(round[b])
    <3>1. active' = Picked(DOMAIN active \ Places(dead'[b]))
      BY <1>8, <2>3 DEF Send, Prune
    <3>2. /\ active' \in Seq(Socket) /\ NoRepeats(active')
          /\ \A k \in DOMAIN active' : active'[k] \in Registered
      BY <1>1, <3>1, DisconnectRemoves
    <3>3. UNCHANGED <<handler, gone, round, at>> /\ pc' = [pc EXCEPT ![b] = "done"]
      BY <1>8, <2>3 DEF Send, handlerVars
    <3> QED
      BY <2>2, <3>2, <3>3 DEF TypeOK, RegisteredIsServed, Registered, NoRepeats
  <2>4. CASE ~ (Onward(b) > Len(round[b]))
    <3>1. /\ UNCHANGED <<active, pc, handler, gone, round>>
          /\ at' = [at EXCEPT ![b] = at[b] + 1]
      BY <1>8, <2>4 DEF Send, handlerVars, Onward
    <3> QED
      BY <2>2, <3>1 DEF TypeOK, RegisteredIsServed, Registered
  <2> QED
    BY <2>3, <2>4
<1> QED
  BY <1>2, <1>3, <1>4, <1>5, <1>6, <1>7, <1>8 DEF Next

-----------------------------------------------------------------------------
(* Steps that touch no broadcast, though they may count on fewer.          *)
LEMMA OthersDeliver ==
    ASSUME TypeOK, NEW b \in Broadcast, Delivering(b), pc'[b] = pc[b], round'[b] = round[b],
           at'[b] = at[b], got'[b] = got[b], steady'[b] \in SUBSET steady[b]
    PROVE  Delivering(b)'
BY DEF Delivering, NoRepeats, TypeOK

(* A send: the socket it was for has the message, or is not counted on.    *)
LEMMA SendDelivers ==
    ASSUME TypeOK, NEW b \in Broadcast, Delivering(b), Send(b)
    PROVE  Delivering(b)'
<1> DEFINE s == round[b][at[b]]
           q == round[b]
           n == at[b]
<1>1. /\ s \in Socket /\ n \in 1..Len(q) /\ DOMAIN q = 1..Len(q) /\ Len(q) \in Nat
      /\ n \in Nat
  BY DEF Send, TypeOK
<1>2. round' = round /\ pc[b] = "send"
  BY DEF Send
<1>3. got[b][s] = 0
  <2>1. \A i \in 1..n - 1 : i \in DOMAIN q /\ i # n
    BY <1>1
  <2>2. \A i \in 1..n - 1 : q[i] # s
    BY <1>1, <2>1 DEF Delivering, NoRepeats
  <2> QED
    BY <1>1, <1>2, <2>2 DEF Delivering
<1>4. \/ /\ got'[b] = [got[b] EXCEPT ![s] = 1]
         /\ steady'[b] = steady[b]
      \/ got'[b] = got[b] /\ steady'[b] = steady[b] \ {s}
  <2>1. CASE got' = [got EXCEPT ![b][s] = @ + 1] /\ UNCHANGED steady
    <3>1. got'[b] = [got[b] EXCEPT ![s] = got[b][s] + 1]
      BY <2>1 DEF TypeOK
    <3> QED
      BY <1>3, <2>1, <3>1
  <2>2. CASE got' = got /\ steady' = Steady({s})
    BY <2>2 DEF Steady
  <2> QED
    BY <2>1, <2>2 DEF Send
<1>5. \A t \in Socket : got'[b][t] \in {0, 1} /\ (got'[b][t] = 1 => got[b][t] = 1 \/ t = s)
  BY <1>1, <1>4 DEF Delivering, TypeOK
<1>6. \A t \in steady'[b] : t \in steady[b] /\ t \in Socket /\ (t = s => got'[b][t] = 1)
                            /\ (got[b][t] = 1 => got'[b][t] = 1)
  BY <1>1, <1>4 DEF TypeOK
<1>7. \A t \in steady'[b] : \E i \in DOMAIN q : q[i] = t /\ (i <= n => got'[b][t] = 1)
  <2> SUFFICES ASSUME NEW t \in steady'[b]
               PROVE  \E i \in DOMAIN q : q[i] = t /\ (i <= n => got'[b][t] = 1)
    OBVIOUS
  <2>1. PICK i \in DOMAIN q : q[i] = t /\ (i < n => got[b][t] = 1)
    BY <1>2, <1>6 DEF Delivering
  <2>2. i = n => t = s
    BY <2>1
  <2>3. i <= n => i < n \/ i = n
    BY <1>1
  <2> QED
    BY <1>6, <2>1, <2>2, <2>3
<1>8. NoRepeats(round'[b]) /\ \A t \in Socket : got'[b][t] \in {0, 1}
  BY <1>2, <1>5 DEF Delivering
<1>9. CASE n + 1 > Len(q)
  <2>1. pc'[b] = "done"
    BY <1>9 DEF Send, Onward, TypeOK
  <2>2. \A t \in steady'[b] : got'[b][t] = 1
    BY <1>1, <1>7, <1>9
  <2> QED
    BY <1>8, <2>1, <2>2 DEF Delivering, NoRepeats
<1>10. CASE ~ (n + 1 > Len(q))
  <2>1. pc'[b] = "send" /\ at'[b] = n + 1
    BY <1>2, <1>10 DEF Send, Onward, TypeOK
  <2>2. \A t \in Socket : got'[b][t] = 1 => \E i \in 1..at'[b] - 1 : round'[b][i] = t
    <3> SUFFICES ASSUME NEW t \in Socket, got'[b][t] = 1
                 PROVE  \E i \in 1..n : q[i] = t
      <4>1. at'[b] - 1 = n /\ round'[b] = q
        BY <1>1, <1>2, <2>1
      <4> QED
        BY <4>1
    <3>1. CASE t = s
      BY <1>1, <3>1
    <3>2. CASE got[b][t] = 1
      <4>1. PICK i \in 1..n - 1 : q[i] = t
        BY <1>2, <3>2 DEF Delivering
      <4>2. i \in 1..n
        BY <1>1
      <4> QED
        BY <4>1, <4>2
    <3> QED
      BY <1>5, <3>1, <3>2
  <2>3. \A t \in steady'[b] : \E i \in DOMAIN round'[b] :
            round'[b][i] = t /\ (i < at'[b] => got'[b][t] = 1)
    <3> SUFFICES ASSUME NEW t \in steady'[b]
                 PROVE  \E i \in DOMAIN q : q[i] = t /\ (i < n + 1 => got'[b][t] = 1)
      BY <1>2, <2>1
    <3>1. PICK i \in DOMAIN q : q[i] = t /\ (i <= n => got'[b][t] = 1)
      BY <1>7
    <3>2. i < n + 1 => i <= n
      BY <1>1
    <3> QED
      BY <3>1, <3>2
  <2>4. at'[b] <= Len(round'[b])
    BY <1>1, <1>2, <1>10, <2>1
  <2> QED
    BY <1>8, <2>1, <2>2, <2>3, <2>4 DEF Delivering, NoRepeats
<1> QED
  BY <1>9, <1>10

LEMMA DeliveryStep ==
    ASSUME FeedInvariant, [Next]_vars
    PROVE  \A b \in Broadcast : Delivering(b)'
<1> SUFFICES ASSUME NEW b \in Broadcast
             PROVE  Delivering(b)'
  OBVIOUS
<1> USE DEF FeedInvariant
<1>1. CASE UNCHANGED vars
  BY <1>1, OthersDeliver DEF vars, broadcastVars
<1>2. ASSUME NEW s \in Socket,
             Connect(s) \/ Refuse(s) \/ Accept(s) \/ AcceptFails(s) \/ Receive(s) \/ Leave(s)
      PROVE  Delivering(b)'
  <2>1. UNCHANGED <<pc, round, at, got>> /\ steady'[b] \in SUBSET steady[b]
    BY <1>2 DEF Connect, Refuse, Accept, AcceptFails, Receive, Leave, broadcastVars, Steady
  <2> QED
    BY <2>1, OthersDeliver
<1>3. CASE Start(b)
  <2>1. /\ pc'[b] = "send" /\ round'[b] = active /\ at'[b] = 1 /\ steady'[b] = Registered
        /\ got'[b] = [s \in Socket |-> 0] /\ active # <<>>
    BY <1>3 DEF Start, TypeOK
  <2>2. NoRepeats(active) /\ 1 <= Len(active)
    BY <2>1 DEF RegisteredIsServed, NoRepeats, TypeOK
  <2>3. \A s \in Registered : \E i \in DOMAIN active : active[i] = s /\ ~ (i < 1)
    BY DEF Registered, TypeOK
  <2> QED
    BY <2>1, <2>2, <2>3 DEF Delivering, NoRepeats
<1>4. CASE Return(b)
  <2>1. pc'[b] = "idle" /\ round' = round /\ got' = got
    BY <1>4 DEF Return, TypeOK
  <2> QED
    BY <2>1 DEF Delivering, NoRepeats
<1>5. CASE Send(b)
  BY <1>5, SendDelivers
<1>6. ASSUME NEW c \in Broadcast, c # b, Start(c) \/ Send(c) \/ Return(c)
      PROVE  Delivering(b)'
  <2>1. /\ pc'[b] = pc[b] /\ round'[b] = round[b] /\ at'[b] = at[b] /\ got'[b] = got[b]
        /\ steady'[b] \in SUBSET steady[b]
    BY <1>6 DEF Start, Send, Return, TypeOK, Steady
  <2> QED
    BY <2>1, OthersDeliver
<1> QED
  BY <1>1, <1>2, <1>3, <1>4, <1>5, <1>6 DEF Next

LEMMA FeedInvariantHolds == Spec => []FeedInvariant
<1>1. FeedInvariant /\ [Next]_vars => FeedInvariant'
  BY RegistryStep, DeliveryStep DEF FeedInvariant
<1> QED
  BY <1>1, FeedInitially, PTL DEF Spec

(* Types, for any number of sockets and broadcasts.                        *)
THEOREM FeedTypeCorrect == Spec => []TypeOK
<1>1. FeedInvariant => TypeOK
  BY DEF FeedInvariant
<1> QED
  BY <1>1, FeedInvariantHolds, PTL

(* The registry holds each socket once, and only those that are served.    *)
THEOREM RegistryIsServed == Spec => []RegisteredIsServed
<1>1. FeedInvariant => RegisteredIsServed
  BY DEF FeedInvariant
<1> QED
  BY <1>1, FeedInvariantHolds, PTL

(* Who stays throughout a broadcast gets its message, and nobody twice.    *)
THEOREM MessagesArriveOnce == Spec => []DeliveredOnce
<1>1. FeedInvariant => DeliveredOnce
  <2> SUFFICES ASSUME FeedInvariant, NEW b \in Broadcast
               PROVE  /\ \A s \in Socket : got[b][s] <= 1
                      /\ pc[b] = "done" => \A s \in steady[b] : got[b][s] = 1
    BY DEF DeliveredOnce
  <2>1. \A s \in Socket : got[b][s] \in {0, 1}
    BY DEF FeedInvariant, Delivering
  <2>2. pc[b] = "done" => \A s \in steady[b] : got[b][s] = 1
    BY DEF FeedInvariant, Delivering
  <2> QED
    BY <2>1, <2>2
<1> QED
  BY <1>1, FeedInvariantHolds, PTL
=============================================================================
