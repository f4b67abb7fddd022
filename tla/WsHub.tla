-------------------------------- MODULE WsHub -------------------------------
(***************************************************************************)
(* The WebSocket hub.  Each connection has two goroutines: readPump, which *)
(* handles what the client sends and unregisters it when reading fails, and*)
(* writePump, which empties the connection's queue.  Handlers of the HTTP  *)
(* API broadcast into the queues; a connection whose queue is full is      *)
(* closed.  At shutdown App.Close closes the hub, waits for the readPumps  *)
(* and then closes Redis and the database, which readPump uses.            *)
(*                                                                         *)
(* What a method of Hub does under its mutex is one step.  A broadcast is a*)
(* step that takes a snapshot of the receivers and then a step per receiver.*)
(* Messages are counted and not told apart.  JoinRoom with AddRoom, and     *)
(* LeaveRoom with RemoveRoom, are one step: nobody else reads Client.rooms.*)
(*                                                                         *)
(* The definitions commented as bugs are no part of the specification: they*)
(* are variants of the definition after them that break a property below.  *)
(***************************************************************************)
EXTENDS Naturals, FiniteSets

CONSTANTS Client,  \* the connections ever made
          User, Room, Handler,
          MaxConns, QueueSize \* maxConnsPerUser, sendQueueSize

ASSUME LimitsAssumption == MaxConns \in Nat \ {0} /\ QueueSize \in Nat \ {0}
ASSUME ActorsAssumption == Client \cap Handler = {}

VARIABLES
    clients, \* Hub.clients
    rooms,   \* Hub.rooms
    closed,  \* Hub.closed
    wg,      \* Hub.wg
    waited,  \* Wait has returned
    done,    \* the connections that are closed
    queue,   \* queue[c]: how many messages wait in c's send channel
    writers, \* the connections whose writePump runs
    pump,    \* pump[c]: where c's readPump is
    own,     \* own[c]: Client.rooms
    agenda,  \* agenda[c]: the rooms whose presence c's readPump will announce
    todo,    \* todo[p]: those a broadcast by p has still to send to
    userOf   \* userOf[c]: the user who makes the connection, chosen at the start

hub == <<clients, rooms, closed, userOf>>
vars == <<hub, wg, waited, done, queue, writers, pump, own, agenda, todo>>

Stage == {"new", "refused", "read", "failed", "unregistered", "farewell", "ended"}

\* Every variable stays in its type; no queue is longer than its channel.
TypeOK ==
    /\ clients \subseteq Client /\ done \subseteq Client /\ writers \subseteq Client
    /\ rooms \in [Room -> SUBSET Client]
    /\ closed \in BOOLEAN /\ waited \in BOOLEAN
    /\ wg \in Nat
    /\ queue \in [Client -> 0..QueueSize]
    /\ pump \in [Client -> Stage]
    /\ own \in [Client -> SUBSET Room] /\ agenda \in [Client -> SUBSET Room]
    /\ todo \in [Client \cup Handler -> SUBSET Client]
    /\ userOf \in [Client -> User]

Init ==
    /\ clients = {} /\ done = {} /\ writers = {}
    /\ rooms = [r \in Room |-> {}]
    /\ closed = FALSE /\ waited = FALSE
    /\ wg = 0
    /\ queue = [c \in Client |-> 0]
    /\ pump = [c \in Client |-> "new"]
    /\ own = [c \in Client |-> {}] /\ agenda = [c \in Client |-> {}]
    /\ todo = [p \in Client \cup Handler |-> {}]
    /\ userOf \in [Client -> User]

Goto(c, stage) == pump' = [pump EXCEPT ![c] = stage]

-----------------------------------------------------------------------------
\* Sending.

\* A bug: the queue is checked one message too late.
SendOneMore(c) ==
    \/ /\ queue[c] <= QueueSize
       /\ queue' = [queue EXCEPT ![c] = queue[c] + 1]
       /\ UNCHANGED done
    \/ c \in done /\ UNCHANGED <<queue, done>>

\* A bug: the sender waits for room in the queue.
SendBlocks(c) ==
    \/ /\ queue[c] < QueueSize
       /\ queue' = [queue EXCEPT ![c] = queue[c] + 1]
       /\ UNCHANGED done
    \/ c \in done /\ UNCHANGED <<queue, done>>

\* Client.Send: a closed connection may still take a message, a full queue
\* closes the connection.
Send(c) ==
    \/ /\ queue[c] < QueueSize
       /\ queue' = [queue EXCEPT ![c] = queue[c] + 1]
       /\ UNCHANGED done
    \/ c \in done /\ UNCHANGED <<queue, done>>
    \/ /\ queue[c] = QueueSize /\ c \notin done
       /\ done' = done \cup {c}
       /\ UNCHANGED queue

Snapshot(S) == IF closed THEN {} ELSE S

\* A request broadcasts: to a room, to a user, or to everyone.
Broadcast(h) ==
    /\ todo[h] = {}
    /\ \E S \in {rooms[r] : r \in Room} \cup {clients}
                \cup {{c \in clients : userOf[c] = userOf[d]} : d \in Client} :
          todo' = [todo EXCEPT ![h] = Snapshot(S)]
    /\ UNCHANGED <<hub, wg, waited, done, queue, writers, pump, own, agenda>>

Deliver(p) ==
    /\ \E c \in todo[p] :
          /\ Send(c)
          /\ todo' = [todo EXCEPT ![p] = todo[p] \ {c}]
    /\ UNCHANGED <<hub, wg, waited, writers, pump, own, agenda>>

\* broadcastPresence, for the next room.
Announce(c) ==
    /\ todo[c] = {}
    /\ \E r \in agenda[c] :
          /\ todo' = [todo EXCEPT ![c] = Snapshot(rooms[r])]
          /\ agenda' = [agenda EXCEPT ![c] = agenda[c] \ {r}]
    /\ UNCHANGED <<hub, wg, waited, done, queue, writers, pump, own>>

Idle(c) == agenda[c] = {} /\ todo[c] = {}

-----------------------------------------------------------------------------
\* Connections come.

Connections(c) == {d \in clients : userOf[d] = userOf[c]}

Refuse(c) ==
    /\ pump[c] = "new"
    /\ closed \/ Cardinality(Connections(c)) >= MaxConns
    /\ done' = done \cup {c}
    /\ Goto(c, "refused")
    /\ UNCHANGED <<hub, wg, waited, queue, writers, own, agenda, todo>>

\* A bug: connections are taken while the hub is closing.
AcceptAnyTime(c) ==
    /\ pump[c] = "new"
    /\ Cardinality(Connections(c)) < MaxConns
    /\ clients' = clients \cup {c} /\ writers' = writers \cup {c}
    /\ wg' = wg + 1
    /\ Goto(c, "read")
    /\ UNCHANGED <<userOf, rooms, closed, waited, done, queue, own, agenda, todo>>

Accept(c) ==
    /\ pump[c] = "new"
    /\ ~closed /\ Cardinality(Connections(c)) < MaxConns
    /\ clients' = clients \cup {c} /\ writers' = writers \cup {c}
    /\ wg' = wg + 1
    /\ Goto(c, "read")
    /\ UNCHANGED <<userOf, rooms, closed, waited, done, queue, own, agenda, todo>>

-----------------------------------------------------------------------------
\* readPump.  What was received before the connection closed may still be read.

\* A bug: a client may join after the hub is closed.
JoinRoomAnyTime(c, r) == rooms' = [rooms EXCEPT ![r] = rooms[r] \cup {c}]

JoinRoom(c, r) == rooms' = IF closed THEN rooms ELSE [rooms EXCEPT ![r] = rooms[r] \cup {c}]
AddRoom(c, r) == own' = [own EXCEPT ![c] = own[c] \cup {r}]

\* JoinRoom does nothing once the hub is closed, AddRoom does.
Join(c) ==
    /\ pump[c] = "read" /\ Idle(c)
    /\ \E r \in Room :
          /\ JoinRoom(c, r) /\ AddRoom(c, r)
          /\ agenda' = [agenda EXCEPT ![c] = {r}]
    /\ UNCHANGED <<userOf, clients, closed, wg, waited, done, queue, writers, pump, todo>>

\* canJoin says no: the user is no member of the workspace, or the database does
\* not answer in five seconds.
JoinDenied(c) ==
    /\ pump[c] = "read" /\ Idle(c)
    /\ Send(c)
    /\ UNCHANGED <<hub, wg, waited, writers, pump, own, agenda, todo>>

LeaveRoom(c, r) == rooms' = [rooms EXCEPT ![r] = rooms[r] \ {c}]

\* A bug: the connection does not remember that it left.
RemoveNoRoom(c, r) == UNCHANGED own

RemoveRoom(c, r) == own' = [own EXCEPT ![c] = own[c] \ {r}]

Leave(c) ==
    /\ pump[c] = "read" /\ Idle(c)
    /\ \E r \in Room :
          /\ LeaveRoom(c, r) /\ RemoveRoom(c, r)
          /\ agenda' = [agenda EXCEPT ![c] = {r}]
    /\ UNCHANGED <<userOf, clients, closed, wg, waited, done, queue, writers, pump, todo>>

\* The client goes away, is silent for too long or sends too much; or the server
\* has closed the connection.
ReadFails(c) ==
    /\ pump[c] = "read" /\ Idle(c)
    /\ Goto(c, "failed")
    /\ UNCHANGED <<hub, wg, waited, done, queue, writers, own, agenda, todo>>

\* A bug: the connection stays in its rooms.
UnregisterOnly(c) ==
    /\ pump[c] = "failed"
    /\ clients' = clients \ {c}
    /\ done' = IF c \in clients THEN done \cup {c} ELSE done
    /\ Goto(c, "unregistered")
    /\ UNCHANGED <<userOf, rooms, closed, wg, waited, queue, writers, own, agenda, todo>>

Unregister(c) ==
    /\ pump[c] = "failed"
    /\ IF c \in clients
       THEN /\ clients' = clients \ {c}
            /\ rooms' = [r \in Room |-> rooms[r] \ {c}]
            /\ done' = done \cup {c}
       ELSE UNCHANGED <<clients, rooms, done>>
    /\ Goto(c, "unregistered")
    /\ UNCHANGED <<userOf, closed, wg, waited, queue, writers, own, agenda, todo>>

\* wg.Done, and OnDisconnect begins.
Release(c) ==
    /\ pump[c] = "unregistered"
    /\ wg' = wg - 1
    /\ agenda' = [agenda EXCEPT ![c] = own[c]]
    /\ Goto(c, "farewell")
    /\ UNCHANGED <<hub, waited, done, queue, writers, own, todo>>

End(c) ==
    /\ pump[c] = "farewell" /\ Idle(c)
    /\ done' = done \cup {c}
    /\ Goto(c, "ended")
    /\ UNCHANGED <<hub, wg, waited, queue, writers, own, agenda, todo>>

-----------------------------------------------------------------------------
\* writePump.

Write(c) ==
    /\ c \in writers /\ queue[c] > 0
    /\ queue' = [queue EXCEPT ![c] = queue[c] - 1]
    /\ UNCHANGED <<hub, wg, waited, done, writers, pump, own, agenda, todo>>

\* A write or a ping fails, or the connection is closed.
WriterStops(c) ==
    /\ c \in writers
    /\ writers' = writers \ {c}
    /\ done' = done \cup {c}
    /\ UNCHANGED <<hub, wg, waited, queue, pump, own, agenda, todo>>

-----------------------------------------------------------------------------
\* Shutdown.

\* A bug: the connections are forgotten and not closed.
CloseForgets ==
    /\ ~closed
    /\ closed' = TRUE
    /\ clients' = {} /\ rooms' = [r \in Room |-> {}]
    /\ UNCHANGED <<userOf, wg, waited, done, queue, writers, pump, own, agenda, todo>>

Close ==
    /\ ~closed
    /\ closed' = TRUE
    /\ done' = done \cup clients
    /\ clients' = {} /\ rooms' = [r \in Room |-> {}]
    /\ UNCHANGED <<userOf, wg, waited, queue, writers, pump, own, agenda, todo>>

\* Wait returns, and the database is closed next.
Wait ==
    /\ closed /\ wg = 0 /\ ~waited
    /\ waited' = TRUE
    /\ UNCHANGED <<hub, wg, done, queue, writers, pump, own, agenda, todo>>

-----------------------------------------------------------------------------
\* The steps a goroutine takes by itself.
Runs(c) == Announce(c) \/ Deliver(c) \/ Unregister(c) \/ Release(c) \/ End(c)

Next ==
    \/ \E c \in Client :
          \/ Refuse(c) \/ Accept(c)
          \/ Join(c) \/ JoinDenied(c) \/ Leave(c) \/ ReadFails(c) \/ Runs(c)
          \/ Write(c) \/ WriterStops(c)
    \/ \E h \in Handler : Broadcast(h) \/ Deliver(h)
    \/ Close \/ Wait

Spec == Init /\ [][Next]_vars

\* Goroutines run.  Reading a closed connection fails, after the messages it had
\* received, which are finitely many; writing to it fails at once or by deadline.
Fairness ==
    /\ \A c \in Client :
          /\ WF_vars(Runs(c))
          /\ SF_vars(c \in done /\ ReadFails(c))
          /\ WF_vars(c \in done /\ WriterStops(c))
    /\ WF_vars(Wait)

FairSpec == Spec /\ Fairness

-----------------------------------------------------------------------------
\* A room holds connections the hub still knows, so that nothing is sent to one
\* whose readPump is gone, and a closed hub holds none.
RoomsHoldClients ==
    /\ \A r \in Room : rooms[r] \subseteq clients
    /\ closed => clients = {}

\* While a connection lasts, the rooms it will say farewell to when it breaks are
\* those the hub has it in.
FarewellIsComplete ==
    \A c \in clients : pump[c] \in {"read", "failed"} /\ own[c] = {r \in Room : c \in rooms[r]}

\* Once Wait has returned no readPump handles a message, now or later: the
\* database it would ask is closed.
WaitIsFinal == waited => \A c \in Client : pump[c] \notin {"read", "failed"}

\* A connection that was accepted and is closed, by either side, leaves no
\* goroutine behind.
GoroutinesEnd ==
    \A c \in Client : (c \in done /\ pump[c] # "refused") ~> (pump[c] = "ended" /\ c \notin writers)

\* Shutdown is not held up by any connection.
ShutdownEnds == closed ~> waited
=============================================================================
