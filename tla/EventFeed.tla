------------------------------ MODULE EventFeed ------------------------------
(***************************************************************************)
(* The WebSocket registry (src/api/websocket.py): handlers that register   *)
(* and unregister their socket, and broadcasts that walk over a copy of    *)
(* the registry with one awaited send per socket, all of them overlapping. *)
(* A send raises when it likes to, and may when its client is gone.        *)
(***************************************************************************)
EXTENDS Naturals, Sequences, FiniteSets

CONSTANTS
    Socket,    \* each connects once
    Broadcast  \* concurrent callers of broadcast, each again and again

VARIABLES
    active,  \* _active
    handler, \* where websocket_movements stands for a socket
    gone,    \* sockets whose client has left
    pc,      \* where a broadcast stands
    round,   \* the copy of the registry it walks over
    at,      \* the place in it of the next send
    dead,    \* sockets whose send raised
    got,     \* how often its message reached a socket
    steady   \* sockets registered from its start on, with no send raising

handlerVars == <<handler, gone>>
broadcastVars == <<pc, round, at, dead, got>>
vars == <<active, handlerVars, broadcastVars, steady>>

Registered == {active[i] : i \in DOMAIN active}

TypeOK ==
    /\ active \in Seq(Socket)
    /\ handler \in [Socket -> {"none", "accept", "receive", "returned"}]
    /\ gone \subseteq Socket
    /\ pc \in [Broadcast -> {"idle", "send", "done"}]
    /\ round \in [Broadcast -> Seq(Socket)]
    /\ at \in [Broadcast -> Nat \ {0}]
    /\ dead \in [Broadcast -> SUBSET Socket]
    /\ got \in [Broadcast -> [Socket -> Nat]]
    /\ steady \in [Broadcast -> SUBSET Socket]

Init ==
    /\ active = <<>>
    /\ handler = [s \in Socket |-> "none"]
    /\ gone = {}
    /\ pc = [b \in Broadcast |-> "idle"]
    /\ round = [b \in Broadcast |-> <<>>]
    /\ at = [b \in Broadcast |-> 1]
    /\ dead = [b \in Broadcast |-> {}]
    /\ got = [b \in Broadcast |-> [s \in Socket |-> 0]]
    /\ steady = [b \in Broadcast |-> {}]

Handle(s, place) == handler' = [handler EXCEPT ![s] = place]

(* What broadcasts under way may still count on.                           *)
Steady(left) == [b \in Broadcast |-> steady[b] \ left]

-----------------------------------------------------------------------------
(* The handler of a socket.                                                *)

(* The api key is right, and connect waits for accept.                     *)
Connect(s) ==
    /\ handler[s] = "none"
    /\ Handle(s, "accept")
    /\ UNCHANGED <<active, gone, broadcastVars, steady>>

(* The api key is wrong.                                                   *)
Refuse(s) ==
    /\ handler[s] = "none"
    /\ Handle(s, "returned")
    /\ UNCHANGED <<active, gone, broadcastVars, steady>>

(* accept returns, perhaps after the client has left.                      *)
Accept(s) ==
    /\ handler[s] = "accept"
    /\ active' = Append(active, s)
    /\ Handle(s, "receive")
    /\ UNCHANGED <<gone, broadcastVars, steady>>

(* accept raises.                                                          *)
AcceptFails(s) ==
    /\ handler[s] = "accept"
    /\ s \in gone
    /\ Handle(s, "returned")
    /\ UNCHANGED <<active, gone, broadcastVars, steady>>

(* list.remove takes the first place of a socket; the others close ranks.  *)
Places(sockets) ==
    {i \in DOMAIN active : active[i] \in sockets /\ \A j \in 1..i - 1 : active[j] # active[i]}

Nth(S, n) == CHOOSE i \in S : Cardinality({j \in S : j <= i}) = n

Picked(places) == [n \in 1..Cardinality(places) |-> active[Nth(places, n)]]

AfterDisconnectLast(s) ==
    IF s \in Registered THEN Picked(1..Len(active) - 1) ELSE active

AfterDisconnectOnlyOpen(s) ==
    IF s \in gone THEN active ELSE Picked(DOMAIN active \ Places({s}))

(* disconnect, of a socket that a broadcast may have removed already.      *)
AfterDisconnect(s) == Picked(DOMAIN active \ Places({s}))

(* receive_text raises: the client left, or the connection broke.  (Pings  *)
(* and pongs change nothing.)                                              *)
Receive(s) ==
    /\ handler[s] = "receive"
    /\ active' = AfterDisconnect(s)
    /\ gone' = gone \cup {s}
    /\ steady' = Steady({s})
    /\ Handle(s, "returned")
    /\ UNCHANGED broadcastVars

Leave(s) ==
    /\ handler[s] \in {"accept", "receive"}
    /\ s \notin gone
    /\ gone' = gone \cup {s}
    /\ UNCHANGED <<active, handler, broadcastVars, steady>>

-----------------------------------------------------------------------------
(* A broadcast.                                                            *)

(* With nobody connected it returns at once and changes nothing.           *)
Start(b) ==
    /\ pc[b] = "idle"
    /\ active # <<>>
    /\ pc' = [pc EXCEPT ![b] = "send"]
    /\ round' = [round EXCEPT ![b] = active]
    /\ at' = [at EXCEPT ![b] = 1]
    /\ dead' = [dead EXCEPT ![b] = {}]
    /\ got' = [got EXCEPT ![b] = [s \in Socket |-> 0]]
    /\ steady' = [steady EXCEPT ![b] = Registered]
    /\ UNCHANGED <<active, handlerVars>>

(* The dead ones leave the registry.                                       *)
Prune(sockets) == Picked(DOMAIN active \ Places(sockets))

OnwardUnlessRaised(b) ==
    IF round[b][at[b]] \in dead'[b] THEN Len(round[b]) + 1 ELSE at[b] + 1

(* The loop moves on whether or not the send raised.                       *)
Onward(b) == at[b] + 1

(* One send.  The last one's return also ends the loop, prunes the         *)
(* registry and returns, with no await left.                               *)
Send(b) ==
    /\ pc[b] = "send"
    /\ at[b] <= Len(round[b])
    /\ LET s == round[b][at[b]] IN
       \/ /\ handler[s] = "receive"
          /\ got' = [got EXCEPT ![b][s] = @ + 1]
          /\ dead' = dead
          /\ UNCHANGED steady
       \/ /\ got' = got
          /\ dead' = [dead EXCEPT ![b] = @ \cup {s}]
          /\ steady' = Steady({s})
    /\ IF Onward(b) > Len(round[b])
       THEN /\ active' = Prune(dead'[b])
            /\ pc' = [pc EXCEPT ![b] = "done"]
            /\ UNCHANGED at
       ELSE /\ at' = [at EXCEPT ![b] = Onward(b)]
            /\ UNCHANGED <<active, pc>>
    /\ UNCHANGED <<handlerVars, round>>

Return(b) ==
    /\ pc[b] = "done"
    /\ pc' = [pc EXCEPT ![b] = "idle"]
    /\ UNCHANGED <<active, handlerVars, round, at, dead, got, steady>>

Next ==
    \/ \E s \in Socket :
          Connect(s) \/ Refuse(s) \/ Accept(s) \/ AcceptFails(s) \/ Receive(s) \/ Leave(s)
    \/ \E b \in Broadcast : Start(b) \/ Send(b) \/ Return(b)

Spec == Init /\ [][Next]_vars

(* Sends and accepts end, and receive notices a client that has left.      *)
FairSpec ==
    /\ Spec
    /\ \A b \in Broadcast : WF_vars(Send(b))
    /\ \A s \in Socket : WF_vars(Accept(s)) /\ WF_vars(s \in gone /\ Receive(s))

-----------------------------------------------------------------------------
(* A client that is connected throughout a broadcast gets its message      *)
(* once, although sockets come, go and are pruned by other broadcasts      *)
(* while it is under way; nobody gets it twice.                            *)
DeliveredOnce ==
    \A b \in Broadcast :
        /\ \A s \in Socket : got[b][s] <= 1
        /\ pc[b] = "done" => \A s \in steady[b] : got[b][s] = 1

(* A registered socket is served by a handler, and registered once: none   *)
(* stays behind when handler and broadcasts remove the same socket, and    *)
(* none comes back.                                                        *)
RegisteredIsServed ==
    /\ \A s \in Registered : handler[s] = "receive"
    /\ \A i, j \in DOMAIN active : i # j => active[i] # active[j]

(* A client that has left is unregistered, for good.                       *)
LeaversAreDropped == \A s \in Socket : s \in gone ~> [](s \notin Registered)
=============================================================================
