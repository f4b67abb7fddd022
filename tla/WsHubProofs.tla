----------------------------- MODULE WsHubProofs -----------------------------
(***************************************************************************)
(* Proofs about WsHub, for any number of connections, users and rooms and  *)
(* any limits: the invariants of the hub, by one that counts what the wait *)
(* group counts.                                                           *)
(***************************************************************************)
EXTENDS WsHub, FiniteSetTheorems, TLAPS

\* The types, but for wg: that it is a natural number takes the count below.
Types ==
    /\ clients \subseteq Client /\ done \subseteq Client /\ writers \subseteq Client
    /\ rooms \in [Room -> SUBSET Client]
    /\ closed \in BOOLEAN /\ waited \in BOOLEAN
    /\ queue \in [Client -> 0..QueueSize]
    /\ pump \in [Client -> Stage]
    /\ own \in [Client -> SUBSET Room] /\ agenda \in [Client -> SUBSET Room]
    /\ todo \in [Client \cup Handler -> SUBSET Client]
    /\ userOf \in [Client -> User]

\* The readPumps that the hub's wait group counts.
Counted == {c \in Client : pump[c] \in {"read", "failed", "unregistered"}}

WaitGroupCounts == IsFiniteSet(Counted) /\ wg = Cardinality(Counted)

\* The hub knows exactly the connections whose readPump has not unregistered,
\* until it is closed; one that has not come yet remembers no room.
HubKnows ==
    /\ \A c \in clients : pump[c] \in {"read", "failed"}
    /\ ~closed => \A c \in Client : pump[c] \in {"read", "failed"} => c \in clients
    /\ \A c \in Client : pump[c] = "new" => own[c] = {}

\* Once Wait has returned the hub is closed and nothing is counted any more.
NothingCounted == waited => closed /\ Counted = {}

HubInv ==
    /\ Types /\ WaitGroupCounts /\ HubKnows /\ NothingCounted
    /\ RoomsHoldClients /\ FarewellIsComplete

LEMMA InitInv == Init => HubInv
<1> SUFFICES ASSUME Init PROVE HubInv
  OBVIOUS
<1>1. Counted = {}
  BY DEF Init, Counted
<1>2. WaitGroupCounts
  BY <1>1, FS_EmptySet DEF Init, WaitGroupCounts
<1>3. Types
  <2>1. queue \in [Client -> 0..QueueSize]
    BY LimitsAssumption DEF Init
  <2>2. todo \in [Client \cup Handler -> SUBSET Client]
    BY DEF Init
  <2>3. pump \in [Client -> Stage]
    BY DEF Init, Stage
  <2> QED
    BY <2>1, <2>2, <2>3 DEF Init, Types
<1>4. HubKnows /\ NothingCounted /\ RoomsHoldClients /\ FarewellIsComplete
  BY <1>1 DEF Init, HubKnows, NothingCounted, RoomsHoldClients, FarewellIsComplete
<1> QED
  BY <1>2, <1>3, <1>4 DEF HubInv

-----------------------------------------------------------------------------
\* Send, whatever it decides, keeps the queue within its channel.
LEMMA SendTypes ==
    ASSUME Types, NEW c \in Client, Send(c)
    PROVE  queue' \in [Client -> 0..QueueSize] /\ done' \subseteq Client
  BY LimitsAssumption DEF Types, Send

\* What the hub and the readPumps do not touch keeps everything but the types.
LEMMA Elsewhere ==
    ASSUME HubInv, Types', UNCHANGED <<hub, wg, waited, pump, own>>
    PROVE  HubInv'
  BY DEF HubInv, Types, hub, WaitGroupCounts, Counted, HubKnows, NothingCounted,
         RoomsHoldClients, FarewellIsComplete

\* A readPump that starts is counted, by one more.
LEMMA CountsStart ==
    ASSUME Types, WaitGroupCounts, NEW c \in Client, pump[c] = "new",
           Goto(c, "read"), wg' = wg + 1
    PROVE  WaitGroupCounts'
<1>1. Counted' = Counted \cup {c} /\ c \notin Counted
  BY DEF Types, Counted, Goto
<1> QED
  BY <1>1, FS_AddElement DEF WaitGroupCounts

\* One that ends is counted no more.
LEMMA CountsEnd ==
    ASSUME Types, WaitGroupCounts, NEW c \in Client, pump[c] = "unregistered",
           Goto(c, "farewell"), wg' = wg - 1
    PROVE  WaitGroupCounts'
<1>1. Counted' = Counted \ {c} /\ c \in Counted
  BY DEF Types, Counted, Goto
<1> QED
  BY <1>1, FS_RemoveElement DEF WaitGroupCounts

-----------------------------------------------------------------------------
\* Every step keeps the invariant: one case per action.
LEMMA InvStep == HubInv /\ [Next]_vars => HubInv'
<1> SUFFICES ASSUME HubInv, [Next]_vars PROVE HubInv'
  OBVIOUS
<1>1. ASSUME NEW c \in Client, Refuse(c) PROVE HubInv'
  <2>1. Types' /\ Counted' = Counted
    BY <1>1 DEF HubInv, Types, Refuse, Goto, Stage, hub, Counted
  <2> QED
    BY <1>1, <2>1 DEF HubInv, Types, Refuse, Goto, hub, WaitGroupCounts, HubKnows, NothingCounted,
                      RoomsHoldClients, FarewellIsComplete
<1>2. ASSUME NEW c \in Client, Accept(c) PROVE HubInv'
  <2>1. Types'
    BY <1>2 DEF HubInv, Types, Accept, Goto, Stage
  <2>2. WaitGroupCounts'
    BY <1>2, CountsStart DEF HubInv, Accept
  <2>3. c \notin clients /\ own[c] = {} /\ ~waited
    BY <1>2 DEF HubInv, HubKnows, NothingCounted, Accept
  <2> QED
    BY <1>2, <2>1, <2>2, <2>3 DEF HubInv, Types, Accept, Goto, HubKnows, NothingCounted,
                                  RoomsHoldClients, FarewellIsComplete
<1>3. ASSUME NEW c \in Client, Join(c) PROVE HubInv'
  <2>1. PICK r \in Room :
           /\ JoinRoom(c, r) /\ AddRoom(c, r)
           /\ agenda' = [agenda EXCEPT ![c] = {r}]
    BY <1>3 DEF Join
  <2>2. Types'
    BY <1>3, <2>1 DEF HubInv, Types, Join, JoinRoom, AddRoom
  <2>3. Counted' = Counted
    BY <1>3 DEF Join, Counted
  <2>4. ~closed => c \in clients
    BY <1>3 DEF Join, HubInv, HubKnows
  <2>5. RoomsHoldClients'
    BY <1>3, <2>1, <2>4 DEF HubInv, Types, RoomsHoldClients, Join, JoinRoom
  <2>6. FarewellIsComplete'
    BY <1>3, <2>1, <2>4 DEF HubInv, Types, RoomsHoldClients, FarewellIsComplete, Join, JoinRoom, AddRoom
  <2> QED
    BY <1>3, <2>1, <2>2, <2>3, <2>5, <2>6
       DEF HubInv, Types, Join, AddRoom, WaitGroupCounts, HubKnows, NothingCounted
<1>4. ASSUME NEW c \in Client, JoinDenied(c) PROVE HubInv'
  <2>1. Types'
    BY <1>4, SendTypes DEF HubInv, Types, JoinDenied, hub
  <2> QED
    BY <1>4, <2>1, Elsewhere DEF JoinDenied, hub
<1>5. ASSUME NEW c \in Client, Leave(c) PROVE HubInv'
  <2>1. PICK r \in Room :
           /\ LeaveRoom(c, r) /\ RemoveRoom(c, r)
           /\ agenda' = [agenda EXCEPT ![c] = {r}]
    BY <1>5 DEF Leave
  <2>2. Types'
    BY <1>5, <2>1 DEF HubInv, Types, Leave, LeaveRoom, RemoveRoom
  <2>3. Counted' = Counted
    BY <1>5 DEF Leave, Counted
  <2>4. RoomsHoldClients'
    BY <1>5, <2>1 DEF HubInv, Types, RoomsHoldClients, Leave, LeaveRoom
  <2>5. FarewellIsComplete'
    BY <1>5, <2>1 DEF HubInv, Types, FarewellIsComplete, Leave, LeaveRoom, RemoveRoom
  <2> QED
    BY <1>5, <2>1, <2>2, <2>3, <2>4, <2>5
       DEF HubInv, Types, Leave, RemoveRoom, WaitGroupCounts, HubKnows, NothingCounted
<1>6. ASSUME NEW c \in Client, ReadFails(c) PROVE HubInv'
  <2>1. Types' /\ Counted' = Counted
    BY <1>6 DEF HubInv, Types, ReadFails, Goto, Stage, hub, Counted
  <2> QED
    BY <1>6, <2>1 DEF HubInv, Types, ReadFails, Goto, hub, WaitGroupCounts, HubKnows, NothingCounted,
                      RoomsHoldClients, FarewellIsComplete
<1>7. ASSUME NEW c \in Client, Unregister(c) PROVE HubInv'
  <2>1. Types' /\ Counted' = Counted
    BY <1>7 DEF HubInv, Types, Unregister, Goto, Stage, Counted
  <2>2. rooms' = [r \in Room |-> rooms[r] \ {c}] /\ clients' = clients \ {c}
    BY <1>7 DEF Unregister, HubInv, Types, RoomsHoldClients
  <2> QED
    BY <1>7, <2>1, <2>2 DEF HubInv, Types, Unregister, Goto, WaitGroupCounts, HubKnows, NothingCounted,
                            RoomsHoldClients, FarewellIsComplete
<1>8. ASSUME NEW c \in Client, Release(c) PROVE HubInv'
  <2>1. Types'
    BY <1>8 DEF HubInv, Types, Release, Goto, Stage, hub
  <2>2. WaitGroupCounts'
    BY <1>8, CountsEnd DEF HubInv, Release
  <2>3. ~waited
    BY <1>8 DEF HubInv, NothingCounted, Release, Counted
  <2> QED
    BY <1>8, <2>1, <2>2, <2>3 DEF HubInv, Types, Release, Goto, hub, HubKnows, NothingCounted,
                                  RoomsHoldClients, FarewellIsComplete
<1>9. ASSUME NEW c \in Client, End(c) PROVE HubInv'
  <2>1. Types' /\ Counted' = Counted
    BY <1>9 DEF HubInv, Types, End, Goto, Stage, hub, Counted
  <2> QED
    BY <1>9, <2>1 DEF HubInv, Types, End, Goto, hub, WaitGroupCounts, HubKnows, NothingCounted,
                      RoomsHoldClients, FarewellIsComplete
<1>10. ASSUME NEW c \in Client, Announce(c) PROVE HubInv'
  <2>1. Types'
    BY <1>10 DEF HubInv, Types, Announce, Snapshot, hub
  <2> QED
    BY <1>10, <2>1, Elsewhere DEF Announce, hub
<1>11. ASSUME NEW p \in Client \cup Handler, Deliver(p) PROVE HubInv'
  <2>1. PICK c \in todo[p] : Send(c) /\ todo' = [todo EXCEPT ![p] = todo[p] \ {c}]
    BY <1>11 DEF Deliver
  <2>2. c \in Client /\ todo' \in [Client \cup Handler -> SUBSET Client]
    BY <2>1 DEF HubInv, Types
  <2>3. Types'
    BY <1>11, <2>1, <2>2, SendTypes DEF HubInv, Types, Deliver, hub
  <2> QED
    BY <1>11, <2>3, Elsewhere DEF Deliver, hub
<1>12. ASSUME NEW c \in Client, Write(c) PROVE HubInv'
  <2>1. queue' \in [Client -> 0..QueueSize]
    BY <1>12, LimitsAssumption DEF HubInv, Types, Write
  <2>2. Types'
    BY <1>12, <2>1 DEF HubInv, Types, Write, hub
  <2> QED
    BY <1>12, <2>2, Elsewhere DEF Write, hub
<1>13. ASSUME NEW c \in Client, WriterStops(c) PROVE HubInv'
  <2>1. Types'
    BY <1>13 DEF HubInv, Types, WriterStops, hub
  <2> QED
    BY <1>13, <2>1, Elsewhere DEF WriterStops, hub
<1>14. ASSUME NEW h \in Handler, Broadcast(h) PROVE HubInv'
  <2>1. PICK S \in {rooms[r] : r \in Room} \cup {clients}
                   \cup {{c \in clients : userOf[c] = userOf[d]} : d \in Client} :
           todo' = [todo EXCEPT ![h] = Snapshot(S)]
    BY <1>14 DEF Broadcast
  <2>2. Snapshot(S) \subseteq Client
    BY DEF HubInv, Types, Snapshot
  <2>3. Types'
    BY <1>14, <2>1, <2>2 DEF HubInv, Types, Broadcast, hub
  <2> QED
    BY <1>14, <2>3, Elsewhere DEF Broadcast, hub
<1>15. CASE Close
  <2>1. Types' /\ Counted' = Counted
    BY <1>15 DEF HubInv, Types, Close, Counted
  <2> QED
    BY <1>15, <2>1 DEF HubInv, Types, Close, WaitGroupCounts, HubKnows, NothingCounted,
                       RoomsHoldClients, FarewellIsComplete
<1>16. CASE Wait
  <2>1. Types' /\ Counted' = Counted
    BY <1>16 DEF HubInv, Types, Wait, hub, Counted
  <2>2. Counted = {}
    BY <1>16, FS_EmptySet DEF HubInv, WaitGroupCounts, Wait
  <2> QED
    BY <1>16, <2>1, <2>2 DEF HubInv, Wait, hub, WaitGroupCounts, HubKnows, NothingCounted,
                             RoomsHoldClients, FarewellIsComplete
<1>17. CASE UNCHANGED vars
  BY <1>17, Elsewhere DEF vars, hub, HubInv, Types
<1> QED
  BY <1>1, <1>2, <1>3, <1>4, <1>5, <1>6, <1>7, <1>8, <1>9, <1>10, <1>11, <1>12, <1>13,
     <1>14, <1>15, <1>16, <1>17 DEF Next, Runs

\* The invariant holds in every reachable state.
LEMMA Invariant == Spec => []HubInv
  BY InitInv, InvStep, PTL DEF Spec

-----------------------------------------------------------------------------
\* Every variable has its type in every reachable state.  For the wait group this
\* says that Done is never called once too often (sync: negative WaitGroup
\* counter), and for the queues that no send blocks.
THEOREM TypeCorrect == Spec => []TypeOK
<1>1. HubInv => TypeOK
  BY FS_CardinalityType DEF HubInv, Types, TypeOK, WaitGroupCounts
<1> QED
  BY <1>1, Invariant, PTL

\* However connections come, join, fail and are closed by the server, nothing is
\* sent to the room of a connection the hub has forgotten.
THEOREM RoomsOfTheLiving == Spec => []RoomsHoldClients
<1>1. HubInv => RoomsHoldClients
  BY DEF HubInv
<1> QED
  BY <1>1, Invariant, PTL

\* The farewell a connection will broadcast goes to exactly its rooms, although
\* Client.rooms and Hub.rooms are changed under different locks.
THEOREM CompleteFarewell == Spec => []FarewellIsComplete
<1>1. HubInv => FarewellIsComplete
  BY DEF HubInv
<1> QED
  BY <1>1, Invariant, PTL

\* Once App.Close goes on to close the database, no readPump asks it anything,
\* and none ever will: for any number of connections.
THEOREM WaitSuffices == Spec => []WaitIsFinal
<1>1. HubInv => WaitIsFinal
  BY DEF HubInv, NothingCounted, Counted, WaitIsFinal
<1> QED
  BY <1>1, Invariant, PTL
=============================================================================
