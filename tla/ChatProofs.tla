----------------------------- MODULE ChatProofs -----------------------------
(***************************************************************************)
(* The safety of the chat over System V queues, for any users, any room in *)
(* the queues and any interleaving of signals: the messages lead to whom   *)
(* they are meant for.                                                     *)
(*                                                                         *)
(* The inductive invariant is Core: it follows the id of a client from its *)
(* INIT in the server's queue (Knocks), through the numbering (Owners),    *)
(* the handler's send (Outgoing) and the client's queue (Mailed), into the *)
(* client and every message it sends (Letters), and into the list of       *)
(* clients (Listed, Presented).  On it rest Members (who is in the list),  *)
(* NodesLeft (how many are) and Accounts (no answer without a request).    *)
(***************************************************************************)
EXTENDS Chat, Counting

(* What a handler has still to send.                                        *)
Entry == [to : Clients \cup {Nobody}, msg : Reply]

Typed ==
  /\ server_pc \in ServerPC
  /\ clients \in Seq(Node)
  /\ owner \in Seq(Clients) /\ clients_id_autoincrement = Len(owner) + 1
  /\ outbox \in Seq(Entry)
  /\ s_queue \in Seq(Request) /\ Len(s_queue) <= Capacity
  /\ s_open \in BOOLEAN
  /\ c_queue \in [Clients -> Seq(Reply)]
  /\ \A c \in Clients : Len(c_queue[c]) <= Capacity
  /\ c_open \in [Clients -> BOOLEAN]
  /\ c_id \in [Clients -> Nat]
  /\ parent_pc \in [Clients -> ParentPC]
  /\ child_pc \in [Clients -> ChildPC]
  /\ pending \in [Clients -> BOOLEAN]
  /\ masked \in [Clients -> SUBSET {"SIGINT", "SIGUSR1"}]
  /\ typed \in 0 .. MaxCommands
  /\ asked \in [Clients -> Nat] /\ answered \in [Clients -> Nat]

(* Where the server and the clients are.                                    *)
Control ==
  /\ server_pc = "send" <=> outbox # <<>>
  /\ server_pc = "await" => clients # <<>>
  /\ \A c \in Clients :
       /\ parent_pc[c] = "init" => ~c_open[c]
       /\ parent_pc[c] \in {"knock", "await"} => c_open[c]
       /\ parent_pc[c] \in {"init", "knock", "await"} => c_id[c] = 0
       /\ parent_pc[c] \in {"register", "idle", "kill", "remove", "bye", "gone"} => c_id[c] # 0
       /\ child_pc[c] \in {"listening", "told"} => c_id[c] # 0
       /\ ~c_open[c] => c_queue[c] = <<>>

(* Is it an INIT?                                                           *)
Knocking(i) == s_queue[i].type = "INIT"

(* Every id belongs to one client, which has knocked; a client that has an  *)
(* id has its own, and one whose queue is gone has had its id.              *)
Owners ==
  /\ \A k, m \in DOMAIN owner : owner[k] = owner[m] => k = m
  /\ \A k \in DOMAIN owner :
       /\ parent_pc[owner[k]] \notin {"init", "knock"}
       /\ c_open[owner[k]] \/ c_id[owner[k]] # 0
  /\ \A c \in Clients : c_id[c] # 0 => c_id[c] \in DOMAIN owner /\ owner[c_id[c]] = c

(* An INIT on its way is the only one of a client that waits for its id.    *)
Knocks ==
  \A i \in DOMAIN s_queue : Knocking(i) =>
    /\ s_queue[i].queue \in Clients
    /\ c_open[s_queue[i].queue]
    /\ parent_pc[s_queue[i].queue] \notin {"init", "knock"}
    /\ \A k \in DOMAIN owner : owner[k] # s_queue[i].queue
    /\ \A j \in DOMAIN s_queue : Knocking(j) /\ s_queue[j].queue = s_queue[i].queue => j = i

(* Any other message bears the id its sender has.                           *)
Letters ==
  \A i \in DOMAIN s_queue : ~Knocking(i) =>
    /\ s_queue[i].id \in DOMAIN owner
    /\ c_id[owner[s_queue[i].id]] = s_queue[i].id

(* A node leads to the owner of its id, unless it has been freed.           *)
Listed ==
  \A i \in DOMAIN clients :
    \/ clients[i] = Freed
    \/ clients[i].id \in DOMAIN owner /\ clients[i].queue = owner[clients[i].id]

(* The clients that have their id, or the message with it.                  *)
Known ==
  {c \in Clients : \/ c_id[c] # 0
                   \/ \E i \in DOMAIN c_queue[c] : c_queue[c][i].type = "ID"}

(* Those the id of which is still to be sent, and those that have no mail.  *)
Expected ==
  {c \in Clients :
     \E i \in DOMAIN outbox : outbox[i].to = c /\ outbox[i].msg.type = "ID"}

Waiting == {c \in Clients : c_id[c] = 0 /\ Mail(c) = {}}

(* A send goes to a client that has an id, and the id is sent before        *)
(* anything else, alone.                                                    *)
Outgoing ==
  \A i \in DOMAIN outbox : LET e == outbox[i] IN
    /\ e.msg.type # "STOP"
    /\ e.to = Nobody => e.msg.type = "2MANY"
    /\ e.to # Nobody => \E k \in DOMAIN owner : owner[k] = e.to
    /\ e.msg.type = "ID" =>
         /\ Len(outbox) = 1
         /\ e.msg.id \in DOMAIN owner /\ owner[e.msg.id] = e.to
         /\ e.to \in Waiting
    /\ e.msg.type # "ID" /\ e.to # Nobody => e.to \in Known

(* The first mail of a client but a STOP is its id, and an id is its own.   *)
Mailed ==
  \A c \in Clients : \A i \in Mail(c) :
    /\ c_queue[c][i].type = "ID" =>
         c_queue[c][i].id \in DOMAIN owner /\ owner[c_queue[c][i].id] = c
    /\ c_id[c] = 0 => \E j \in Mail(c) : j <= i /\ c_queue[c][j].type = "ID"

(* As long as the server serves, whoever is in the list has its id, or is   *)
(* about to be sent it.                                                     *)
Presented ==
  server_pc \in {"receive", "send"} =>
    \A i \in DOMAIN clients :
      clients[i].id # 0 => clients[i].queue \in Known \/ clients[i].queue \in Expected

Core ==
  /\ Typed /\ Control /\ Owners /\ Knocks /\ Letters /\ Listed
  /\ Outgoing /\ Mailed /\ Presented

-----------------------------------------------------------------------------
(* Who writes what                                                         *)

(* The server takes a message in its main loop.                             *)
Taking == \/ ServerInit \/ ServerEcho \/ ServerList \/ ServerFriends
          \/ ServerModify \/ Server2Many \/ Server2One \/ ServerStop

(* The ways of a client's parent; only a step of its own leaves await for   *)
(* the id.                                                                  *)
MovesOn(c) ==
  \/ parent_pc'[c] = parent_pc[c]
  \/ parent_pc[c] = "init" /\ parent_pc'[c] \in {"knock", "dead"} /\ OpenQueues(c)
  \/ parent_pc[c] = "init" /\ parent_pc'[c] = "dead"
  \/ parent_pc[c] = "knock" /\ parent_pc'[c] = "await" /\ SendInit(c)
  \/ parent_pc[c] \in {"knock", "await", "register"} /\ parent_pc'[c] = "dead"
  \/ parent_pc[c] = "await" /\ parent_pc'[c] = "register" /\ AwaitId(c)
  \/ parent_pc[c] = "register" /\ parent_pc'[c] = "idle"
  \/ /\ parent_pc[c] \in {"idle", "kill", "remove", "bye"}
     /\ parent_pc'[c] \in {"kill", "remove", "bye"}
  \/ parent_pc[c] = "remove" /\ parent_pc'[c] = "gone" /\ RemoveQueue(c)
  \/ parent_pc[c] = "bye" /\ parent_pc'[c] = "gone" /\ SendStop(c)

(* Which actions change which variables.                                    *)
Frames ==
  /\ ServerInit \/ UNCHANGED <<owner, clients_id_autoincrement>>
  /\ \/ ServerInit \/ ServerFriends \/ ServerModify \/ ServerStop \/ AwaitStop
     \/ UNCHANGED clients
  /\ \/ Taking \/ AwaitStop
     \/ \E c \in Clients : SendInit(c) \/ SendCommand(c) \/ SendStop(c)
     \/ UNCHANGED s_queue
  /\ Taking \/ ServerSend \/ ServerInterrupt \/ UNCHANGED outbox
  /\ \/ Taking \/ ServerSend \/ ServerInterrupt \/ StopClient \/ AwaitStop
     \/ RemoveServerQueue \/ UNCHANGED server_pc
  /\ \/ ServerSend \/ StopClient
     \/ \E c \in Clients : AwaitId(c) \/ RemoveQueue(c) \/ ChildReceive(c)
     \/ UNCHANGED c_queue
  /\ \/ \E c \in Clients : OpenQueues(c) \/ RemoveQueue(c)
     \/ UNCHANGED c_open
  /\ (\E c \in Clients : AwaitId(c)) \/ UNCHANGED c_id
  /\ \A c \in Clients : MovesOn(c)

LEMMA StepFrames == ASSUME Typed, [Next]_vars PROVE Frames
<1> USE DEF Frames, MovesOn, Taking, client, queues, server, numbering
<1>u. CASE UNCHANGED vars
  BY <1>u DEF vars
<1>1. CASE ServerInit
  BY <1>1 DEF ServerInit, Receive
<1>2. CASE ServerEcho
  BY <1>2 DEF ServerEcho, Receive
<1>3. CASE ServerList
  BY <1>3 DEF ServerList, Receive
<1>4. CASE ServerFriends
  BY <1>4 DEF ServerFriends, Receive
<1>5. CASE ServerModify
  BY <1>5 DEF ServerModify, Receive
<1>6. CASE Server2Many
  BY <1>6 DEF Server2Many, Receive
<1>7. CASE Server2One
  BY <1>7 DEF Server2One, Receive
<1>8. CASE ServerStop
  BY <1>8 DEF ServerStop, Receive
<1>9. CASE ServerSend
  BY <1>9 DEF ServerSend
<1>10. CASE StopClient
  BY <1>10 DEF StopClient
<1>11. CASE AwaitStop
  BY <1>11 DEF AwaitStop
<1>12. CASE RemoveServerQueue
  BY <1>12 DEF RemoveServerQueue
<1>13. CASE ServerInterrupt
  BY <1>13 DEF ServerInterrupt
<1>14. ASSUME NEW c \in Clients, OpenQueues(c) PROVE Frames
  BY <1>14 DEF Typed, OpenQueues, Running, Goto
<1>15. ASSUME NEW c \in Clients, SendInit(c) PROVE Frames
  BY <1>15 DEF Typed, SendInit, Running, Goto
<1>16. ASSUME NEW c \in Clients, AwaitId(c) PROVE Frames
  BY <1>16 DEF Typed, AwaitId, Running, Goto
<1>17. ASSUME NEW c \in Clients, Register(c) PROVE Frames
  BY <1>17 DEF Typed, Register, Running, Goto
<1>18. ASSUME NEW c \in Clients, KillChild(c) PROVE Frames
  BY <1>18 DEF Typed, KillChild, Running, Goto
<1>19. ASSUME NEW c \in Clients, RemoveQueue(c) PROVE Frames
  BY <1>19 DEF Typed, RemoveQueue, Running, Goto
<1>20. ASSUME NEW c \in Clients, SendStop(c) PROVE Frames
  BY <1>20 DEF Typed, SendStop, Running, Goto
<1>21. ASSUME NEW c \in Clients, HandleUSR1(c) PROVE Frames
  BY <1>21 DEF Typed, HandleUSR1, Running, Goto, Deliver, Alive, ParentPC
<1>22. ASSUME NEW c \in Clients, SendCommand(c) PROVE Frames
  BY <1>22 DEF Typed, SendCommand, Running, Goto
<1>23. ASSUME NEW c \in Clients, Leave(c) PROVE Frames
  BY <1>23 DEF Typed, Leave, Running, Goto
<1>24. ASSUME NEW c \in Clients, HandleINT(c) PROVE Frames
  BY <1>24 DEF Typed, HandleINT, Running, Goto, Deliver, Alive, ParentPC
<1>25. ASSUME NEW c \in Clients, ChildReceive(c) PROVE Frames
  BY <1>25 DEF Typed, ChildReceive, Running, Goto
<1>26. ASSUME NEW c \in Clients, ChildSignals(c) PROVE Frames
  BY <1>26 DEF Typed, ChildSignals, Running, Goto
<1> QED BY <1>u, <1>1, <1>2, <1>3, <1>4, <1>5, <1>6, <1>7, <1>8, <1>9, <1>10, <1>11,
    <1>12, <1>13, <1>14, <1>15, <1>16, <1>17, <1>18, <1>19, <1>20, <1>21, <1>22, <1>23,
    <1>24, <1>25, <1>26 DEF Next, ServerStep, ParentStep, ChildStep, UserStep

-----------------------------------------------------------------------------
(* The ids                                                                 *)

(* There are no more ids than clients.                                      *)
LEMMA FewOwners ==
  ASSUME NEW o \in Seq(Clients), \A k, m \in DOMAIN o : o[k] = o[m] => k = m
  PROVE  Len(o) \in Nat /\ Len(o) <= Cardinality(Clients)
<1>1. Len(o) \in Nat /\ DOMAIN o = 1 .. Len(o) /\ o \in [1 .. Len(o) -> Clients]
  OBVIOUS
<1>2. o \in Injection(1 .. Len(o), Clients)
  BY <1>1 DEF Injection, IsInjective
<1>3. Cardinality(1 .. Len(o)) <= Cardinality(Clients)
  BY <1>2, FS_Injection, ArgumentsAssumption
<1>4. Cardinality(1 .. Len(o)) = Len(o)
  BY <1>1, FS_Interval
<1> QED BY <1>1, <1>3, <1>4

(* What a client takes for its id is its id.                                *)
LEMMA FirstMail ==
  ASSUME Core, NEW c \in Clients, AwaitId(c)
  PROVE  /\ c_id[c] = 0
         /\ \E k \in DOMAIN owner :
              k # 0 /\ owner[k] = c /\ c_id' = [c_id EXCEPT ![c] = k]
         /\ UNCHANGED <<owner, c_open, outbox, server_pc, clients>>
<1>1. PICK first \in Mail(c) :
        /\ \A i \in Mail(c) : first <= i
        /\ c_id' = [c_id EXCEPT ![c] = c_queue[c][first].id]
  BY DEF AwaitId
<1>2. c_id[c] = 0
  BY DEF AwaitId, Core, Control
<1>3. PICK j \in Mail(c) : j <= first /\ c_queue[c][j].type = "ID"
  BY <1>2 DEF Core, Mailed
<1>4. j = first
  <2>1. j \in Int /\ first \in Int
    BY DEF Mail, Core, Typed
  <2> QED BY <1>1, <1>3, <2>1
<1>5. /\ c_queue[c][first].id \in DOMAIN owner
      /\ owner[c_queue[c][first].id] = c
  BY <1>3, <1>4 DEF Core, Mailed
<1>6. c_queue[c][first].id # 0
  <2>1. DOMAIN owner = 1 .. Len(owner)
    BY DEF Core, Typed
  <2> QED BY <1>5, <2>1
<1> QED BY <1>1, <1>2, <1>5, <1>6 DEF AwaitId, server, numbering

(* An id, once taken, stays.                                                *)
LEMMA IdsStep ==
  ASSUME Core, [Next]_vars, NEW c \in Clients
  PROVE  \/ c_id'[c] = c_id[c]
         \/ /\ c_id[c] = 0 /\ c_id'[c] # 0 /\ AwaitId(c)
            /\ c_id'[c] \in DOMAIN owner /\ owner[c_id'[c]] = c
            /\ UNCHANGED owner
<1>1. (\E d \in Clients : AwaitId(d)) \/ UNCHANGED c_id
  BY StepFrames DEF Core, Frames
<1>2. ASSUME NEW d \in Clients, AwaitId(d), c # d PROVE c_id'[c] = c_id[c]
  BY <1>2, FirstMail DEF Core, Typed
<1>3. CASE AwaitId(c)
  BY <1>3, FirstMail DEF Core, Typed
<1> QED BY <1>1, <1>2, <1>3

(* The number given away next goes to a client that has none.               *)
LEMMA NewId ==
  ASSUME Core, ServerInit
  PROVE  LET q == Head(s_queue).queue IN
         /\ q \in Clients /\ c_open[q] /\ parent_pc[q] \notin {"init", "knock"}
         /\ \A k \in DOMAIN owner : owner[k] # q
         /\ owner' = Append(owner, q) /\ owner' \in Seq(Clients)
         /\ DOMAIN owner = 1 .. Len(owner) /\ DOMAIN owner' = 1 .. Len(owner) + 1
         /\ Len(owner) \in Nat /\ Len(owner') = Len(owner) + 1
         /\ owner'[Len(owner) + 1] = q /\ \A k \in DOMAIN owner : owner'[k] = owner[k]
         /\ clients_id_autoincrement = Len(owner) + 1
         /\ clients_id_autoincrement' = Len(owner) + 2
         /\ c_id[q] = 0 /\ Mail(q) = {}
         /\ \A k, m \in DOMAIN owner' : owner'[k] = owner'[m] => k = m
         /\ Len(owner) + 1 \in Id
         /\ UNCHANGED <<c_queue, c_open, c_id, parent_pc>>
<1> DEFINE q == Head(s_queue).queue
<1>1. s_queue # <<>> /\ s_queue \in Seq(Request)
  BY DEF ServerInit, Receive, Core, Typed
<1>2. 1 \in DOMAIN s_queue /\ Head(s_queue) = s_queue[1]
  BY <1>1
<1>3. Knocking(1)
  BY <1>2 DEF ServerInit, Receive, Knocking
<1>4. /\ q \in Clients /\ c_open[q] /\ parent_pc[q] \notin {"init", "knock"}
      /\ \A k \in DOMAIN owner : owner[k] # q
  BY <1>2, <1>3 DEF Core, Knocks
<1>5. owner \in Seq(Clients) /\ owner' = Append(owner, q)
  BY DEF ServerInit, Core, Typed
<1> HIDE DEF q
<1>6. /\ owner' \in Seq(Clients)
      /\ DOMAIN owner = 1 .. Len(owner) /\ DOMAIN owner' = 1 .. Len(owner) + 1
      /\ Len(owner) \in Nat /\ Len(owner') = Len(owner) + 1
      /\ owner'[Len(owner) + 1] = q /\ \A k \in 1 .. Len(owner) : owner'[k] = owner[k]
  BY <1>4, <1>5
<1>7. c_id[q] = 0 /\ Mail(q) = {}
  <2>1. c_id[q] = 0
    BY <1>4 DEF Core, Owners
  <2>2. ASSUME NEW i \in Mail(q) PROVE FALSE
    <3>1. PICK j \in Mail(q) : c_queue[q][j].type = "ID"
      BY <1>4, <2>1, <2>2 DEF Core, Mailed
    <3> QED BY <1>4, <3>1 DEF Core, Mailed
  <2> QED BY <2>1, <2>2
<1>8. ASSUME NEW k \in DOMAIN owner', NEW m \in DOMAIN owner', owner'[k] = owner'[m]
      PROVE  k = m
  <2>1. \A x \in DOMAIN owner' : x = Len(owner) + 1 \/ x \in DOMAIN owner
    BY <1>6
  <2>2. \A x, y \in DOMAIN owner : owner[x] = owner[y] => x = y
    BY DEF Core, Owners
  <2> QED BY <1>4, <1>6, <1>8, <2>1, <2>2
<1>9. Len(owner) + 1 \in Id
  <2>1. Len(owner') <= Cardinality(Clients)
    BY <1>6, <1>8, FewOwners
  <2> QED BY <1>6, <2>1, ArgumentsAssumption DEF Id
<1>10. /\ clients_id_autoincrement = Len(owner) + 1
       /\ clients_id_autoincrement' = Len(owner) + 2
  BY <1>6 DEF Core, Typed, ServerInit
<1>11. UNCHANGED <<c_queue, c_open, c_id, parent_pc>>
  BY DEF ServerInit, Receive, client
<1> QED BY <1>4, <1>5, <1>6, <1>7, <1>8, <1>9, <1>10, <1>11 DEF q

LEMMA OwnersStep == ASSUME Core, [Next]_vars PROVE Owners'
<1>1. Frames
  BY StepFrames DEF Core
<1>2. ASSUME NEW c \in Clients
      PROVE  parent_pc[c] \notin {"init", "knock"} => parent_pc'[c] \notin {"init", "knock"}
  BY <1>1, <1>2 DEF Frames, MovesOn
<1>3. ASSUME NEW c \in Clients, c_open[c] \/ c_id[c] # 0, parent_pc[c] # "init"
      PROVE  c_open'[c] \/ c_id'[c] # 0
  <2>1. c_id[c] # 0 => c_id'[c] # 0
    BY IdsStep
  <2>2. ASSUME NEW d \in Clients, OpenQueues(d) PROVE c_open'[c] = c_open[c]
    BY <1>3, <2>2 DEF OpenQueues, Core, Typed
  <2>3. ASSUME NEW d \in Clients, RemoveQueue(d) PROVE c_open'[c] = c_open[c] \/ c_id[c] # 0
    BY <2>3 DEF RemoveQueue, Running, Core, Typed, Control
  <2> QED BY <1>1, <1>3, <2>1, <2>2, <2>3 DEF Frames
<1>4. CASE ServerInit
  BY <1>4, NewId DEF Owners, Core
<1>5. CASE ~ServerInit
  <2>1. owner' = owner
    BY <1>1, <1>5 DEF Frames
  <2>2. \A k \in DOMAIN owner : owner[k] \in Clients
    BY DEF Core, Typed
  <2>3. \A c \in Clients : c_id'[c] # 0 => c_id'[c] \in DOMAIN owner /\ owner[c_id'[c]] = c
    BY IdsStep DEF Core, Owners
  <2>4. ASSUME NEW k \in DOMAIN owner'
        PROVE  /\ parent_pc'[owner'[k]] \notin {"init", "knock"}
               /\ c_open'[owner'[k]] \/ c_id'[owner'[k]] # 0
    BY <1>2, <1>3, <2>1, <2>2 DEF Core, Owners
  <2> QED BY <2>1, <2>3, <2>4 DEF Core, Owners
<1> QED BY <1>4, <1>5

-----------------------------------------------------------------------------
(* The server's queue                                                      *)

LEMMA IdRange ==
  ASSUME Core
  PROVE  /\ DOMAIN owner = 1 .. Len(owner) /\ Len(owner) \in Nat
         /\ \A k \in DOMAIN owner : owner[k] \in Clients
         /\ DOMAIN owner \subseteq Id
         /\ \A c \in Clients : c_id[c] \in Id \cup {0}
<1>1. owner \in Seq(Clients) /\ \A k, m \in DOMAIN owner : owner[k] = owner[m] => k = m
  BY DEF Core, Typed, Owners
<1>2. /\ DOMAIN owner = 1 .. Len(owner) /\ Len(owner) \in Nat
      /\ \A k \in DOMAIN owner : owner[k] \in Clients
  BY <1>1
<1>3. DOMAIN owner \subseteq Id
  <2>1. Len(owner) <= Cardinality(Clients)
    BY <1>1, FewOwners
  <2> QED BY <1>2, <2>1, ArgumentsAssumption DEF Id
<1>4. \A c \in Clients : c_id[c] # 0 => c_id[c] \in DOMAIN owner
  BY DEF Core, Owners
<1> QED BY <1>2, <1>3, <1>4

(* A message is taken: the first one by the main loop, a STOP by cleanup.   *)
Taken(i) ==
  /\ s_queue' = RemoveAt(s_queue, i)
  /\ \/ Taking /\ i = 1 /\ s_queue # <<>> /\ s_queue[1] = Head(s_queue)
     \/ AwaitStop /\ s_queue[i].type = "STOP"

(* A client sends the server a message.                                     *)
Added(c, m) ==
  /\ s_queue' = Append(s_queue, m) /\ Len(s_queue) < Capacity
  /\ UNCHANGED <<c_queue, c_open, c_id, owner>>
  /\ \/ /\ SendInit(c) /\ m.type = "INIT" /\ m.queue = c /\ m.id = 0
        /\ parent_pc[c] = "knock" /\ parent_pc' = [parent_pc EXCEPT ![c] = "await"]
     \/ /\ SendCommand(c) /\ parent_pc[c] = "idle" /\ UNCHANGED parent_pc
        /\ m.type \in Requests \cup Broadcasts /\ m.id = c_id[c] /\ c_id[c] # 0
     \/ /\ SendStop(c) /\ parent_pc[c] = "bye" /\ c_id[c] # 0
        /\ parent_pc' = [parent_pc EXCEPT ![c] = "gone"]
        /\ m.type = "STOP" /\ m.id = c_id[c]

LEMMA QueueStep ==
  ASSUME Core, [Next]_vars
  PROVE  \/ UNCHANGED s_queue
         \/ \E i \in DOMAIN s_queue : Taken(i)
         \/ \E c \in Clients, m \in Request : Added(c, m)
<1>1. Frames
  BY StepFrames DEF Core
<1>q. s_queue \in Seq(Request)
  BY DEF Core, Typed
<1>2. ASSUME Taking PROVE \E i \in DOMAIN s_queue : Taken(i)
  <2>1. s_queue # <<>> /\ s_queue' = Tail(s_queue)
    BY <1>2 DEF Taking, Receive, ServerInit, ServerEcho, ServerList, ServerFriends,
                ServerModify, Server2Many, Server2One, ServerStop
  <2>2. 1 \in DOMAIN s_queue /\ Tail(s_queue) = RemoveAt(s_queue, 1) /\ Head(s_queue) = s_queue[1]
    BY <1>q, <2>1, TailRemoveAt
  <2> QED BY <1>2, <2>1, <2>2 DEF Taken
<1>3. ASSUME AwaitStop PROVE \E i \in DOMAIN s_queue : Taken(i)
  BY <1>3 DEF AwaitStop, Taken, Stops
<1>4. ASSUME NEW c \in Clients, SendInit(c), s_queue' # s_queue
      PROVE  \E m \in Request : Added(c, m)
  <2> DEFINE m == [type |-> "INIT", id |-> 0, queue |-> c, args |-> {}]
  <2>1. m \in Request
    BY DEF Request
  <2>2. Added(c, m)
    BY <1>4 DEF SendInit, Added, HasRoom, Goto, server, numbering
  <2> QED BY <2>1, <2>2
<1>5. ASSUME NEW c \in Clients, SendCommand(c), s_queue' # s_queue
      PROVE  \E m \in Request : Added(c, m)
  <2>1. PICK type \in Commands, args \in SUBSET Named :
          /\ s_open /\ HasRoom(s_queue) /\ UNCHANGED parent_pc
          /\ s_queue' = Append(s_queue, [type |-> type, id |-> c_id[c],
                                         queue |-> Nobody, args |-> args])
    BY <1>5 DEF SendCommand
  <2> DEFINE m == [type |-> type, id |-> c_id[c], queue |-> Nobody, args |-> args]
  <2>2. m.type \in Requests \cup Broadcasts /\ m.args \in SUBSET Id
    BY ArgumentsAssumption DEF Id
  <2>3. m \in Request
    BY <2>2, IdRange DEF Request
  <2>4. parent_pc[c] = "idle" /\ c_id[c] # 0
    BY <1>5 DEF SendCommand, Running, Core, Control
  <2>5. UNCHANGED <<c_queue, c_open, c_id, owner>>
    BY <1>5 DEF SendCommand, server, numbering
  <2>6. Added(c, m)
    BY <1>5, <2>1, <2>2, <2>4, <2>5 DEF Added, HasRoom
  <2> QED BY <2>3, <2>6
<1>6. ASSUME NEW c \in Clients, SendStop(c), s_queue' # s_queue
      PROVE  \E m \in Request : Added(c, m)
  <2> DEFINE m == [type |-> "STOP", id |-> c_id[c], queue |-> Nobody, args |-> {}]
  <2>1. m \in Request
    BY IdRange DEF Request
  <2>2. c_id[c] # 0
    BY <1>6 DEF SendStop, Running, Core, Control
  <2>3. Added(c, m)
    BY <1>6, <2>2 DEF SendStop, Running, Added, HasRoom, Goto, server, numbering
  <2> QED BY <2>1, <2>3
<1> QED BY <1>1, <1>2, <1>3, <1>4, <1>5, <1>6 DEF Frames

(* Of the message at place j after one has been taken from place i.         *)
Before(i, j) == IF j < i THEN j ELSE j + 1

LEMMA TakenQueue ==
  ASSUME Core, NEW i \in DOMAIN s_queue, Taken(i)
  PROVE  /\ s_queue' \in Seq(Request) /\ Len(s_queue') = Len(s_queue) - 1
         /\ \A j \in DOMAIN s_queue' :
              /\ Before(i, j) \in DOMAIN s_queue /\ Before(i, j) # i
              /\ s_queue'[j] = s_queue[Before(i, j)]
         /\ \A j, k \in DOMAIN s_queue' : Before(i, j) <= Before(i, k) => j <= k
         /\ \A j, k \in DOMAIN s_queue' : Before(i, j) = Before(i, k) => j = k
<1>1. s_queue \in Seq(Request) /\ s_queue' = RemoveAt(s_queue, i)
  BY DEF Core, Typed, Taken
<1>2. /\ s_queue' \in Seq(Request) /\ Len(s_queue') = Len(s_queue) - 1
      /\ DOMAIN s_queue' = 1 .. Len(s_queue) - 1
      /\ i \in 1 .. Len(s_queue) /\ Len(s_queue) \in Nat
      /\ \A j \in 1 .. Len(s_queue) - 1 :
           s_queue'[j] = IF j < i THEN s_queue[j] ELSE s_queue[j + 1]
  BY <1>1, RemoveAtType
<1>3. DOMAIN s_queue = 1 .. Len(s_queue)
  BY <1>1
<1>4. ASSUME NEW j \in 1 .. Len(s_queue) - 1
      PROVE  /\ Before(i, j) \in 1 .. Len(s_queue) /\ Before(i, j) # i
             /\ s_queue'[j] = s_queue[Before(i, j)]
  BY <1>2 DEF Before
<1>5. ASSUME NEW j \in 1 .. Len(s_queue) - 1, NEW k \in 1 .. Len(s_queue) - 1
      PROVE  /\ Before(i, j) <= Before(i, k) => j <= k
             /\ Before(i, j) = Before(i, k) => j = k
  BY <1>2 DEF Before
<1> QED BY <1>2, <1>3, <1>4, <1>5

LEMMA AddedQueue ==
  ASSUME Core, NEW c \in Clients, NEW m \in Request, Added(c, m)
  PROVE  /\ s_queue' \in Seq(Request) /\ Len(s_queue') = Len(s_queue) + 1
         /\ Len(s_queue) \in Nat /\ DOMAIN s_queue = 1 .. Len(s_queue)
         /\ DOMAIN s_queue' = 1 .. Len(s_queue) + 1
         /\ s_queue'[Len(s_queue) + 1] = m
         /\ \A j \in DOMAIN s_queue : s_queue'[j] = s_queue[j]
         /\ \A j \in DOMAIN s_queue' : j = Len(s_queue) + 1 \/ j \in DOMAIN s_queue
<1>1. s_queue \in Seq(Request) /\ s_queue' = Append(s_queue, m)
  BY DEF Core, Typed, Added
<1> QED BY <1>1

LEMMA KnocksStep == ASSUME Core, [Next]_vars PROVE Knocks'
<1>1. Frames
  BY StepFrames DEF Core
(* What is true of a client that knocks stays true.                         *)
<1>2. ASSUME NEW c \in Clients, c_open[c], parent_pc[c] \notin {"init", "knock"},
             \A k \in DOMAIN owner : owner[k] # c
      PROVE  c_open'[c] /\ parent_pc'[c] \notin {"init", "knock"}
  <2>1. c_id[c] = 0
    BY <1>2 DEF Core, Owners
  <2>2. ASSUME NEW d \in Clients, OpenQueues(d) PROVE c_open'[c]
    BY <1>2, <2>2 DEF OpenQueues, Core, Typed
  <2>3. ASSUME NEW d \in Clients, RemoveQueue(d) PROVE c_open'[c]
    BY <1>2, <2>1, <2>3 DEF RemoveQueue, Running, Core, Typed, Control
  <2> QED BY <1>1, <1>2, <2>2, <2>3 DEF Frames, MovesOn
<1>3. \A i \in DOMAIN s_queue : Knocking(i) =>
        /\ s_queue[i].queue \in Clients
        /\ c_open'[s_queue[i].queue]
        /\ parent_pc'[s_queue[i].queue] \notin {"init", "knock"}
  BY <1>2 DEF Core, Knocks
<1>4. CASE UNCHANGED s_queue
  <2>1. ~ServerInit
    <3>1. ASSUME ServerInit PROVE FALSE
      <4>1. s_queue \in Seq(Request) /\ s_queue # <<>> /\ s_queue' = Tail(s_queue)
        BY <3>1 DEF ServerInit, Receive, Core, Typed
      <4> QED BY <1>4, <4>1
    <3> QED BY <3>1
  <2>2. owner' = owner
    BY <1>1, <2>1 DEF Frames
  <2> QED BY <1>3, <1>4, <2>2 DEF Core, Knocks, Knocking
<1>5. ASSUME NEW i \in DOMAIN s_queue, Taken(i) PROVE Knocks'
  <2>1. \A j \in DOMAIN s_queue' :
              /\ Before(i, j) \in DOMAIN s_queue /\ Before(i, j) # i
              /\ s_queue'[j] = s_queue[Before(i, j)]
              /\ Knocking(j)' <=> Knocking(Before(i, j))
    BY <1>5, TakenQueue DEF Knocking
  <2>2. ASSUME NEW j \in DOMAIN s_queue', Knocking(j)', NEW k \in DOMAIN s_queue',
               Knocking(k)', s_queue'[k].queue = s_queue'[j].queue
        PROVE  k = j
    <3>1. Before(i, k) = Before(i, j)
      BY <2>1, <2>2 DEF Core, Knocks
    <3> QED BY <1>5, <3>1, TakenQueue
  <2>3. ASSUME NEW j \in DOMAIN s_queue', Knocking(j)', NEW k \in DOMAIN owner'
        PROVE  owner'[k] # s_queue'[j].queue
    <3>1. CASE ~ServerInit
      <4>1. owner' = owner
        BY <1>1, <3>1 DEF Frames
      <4> QED BY <2>1, <2>3, <4>1 DEF Core, Knocks
    <3>2. CASE ServerInit
      <4>1. s_queue[1] = Head(s_queue) /\ i = 1 /\ Head(s_queue).type = "INIT"
        BY <1>5, <3>2 DEF Taken, ServerInit, Receive, AwaitStop
      <4>2. Knocking(1) /\ 1 \in DOMAIN s_queue
        BY <1>5, <4>1 DEF Knocking
      <4>3. s_queue'[j].queue # Head(s_queue).queue
        BY <2>1, <2>3, <4>1, <4>2 DEF Core, Knocks
      <4>4. \A x \in DOMAIN owner : owner[x] # s_queue'[j].queue
        BY <2>1, <2>3 DEF Core, Knocks
      <4>5. k = Len(owner) + 1 \/ k \in DOMAIN owner
        BY <3>2, NewId
      <4> QED BY <3>2, <4>3, <4>4, <4>5, NewId
    <3> QED BY <3>1, <3>2
  <2> QED BY <1>3, <2>1, <2>2, <2>3 DEF Knocks
<1>6. ASSUME NEW c \in Clients, NEW m \in Request, Added(c, m) PROVE Knocks'
  <2>1. owner' = owner /\ c_open' = c_open
    BY <1>6 DEF Added
  <2>2. ASSUME NEW j \in DOMAIN s_queue', Knocking(j)'
        PROVE  \/ j \in DOMAIN s_queue /\ Knocking(j) /\ s_queue'[j] = s_queue[j]
               \/ /\ j = Len(s_queue) + 1 /\ s_queue'[j] = m /\ m.queue = c
                  /\ parent_pc[c] = "knock" /\ parent_pc'[c] = "await"
    BY <1>6, <2>2, AddedQueue, SMTT(30) DEF Knocking, Added, Requests, Broadcasts, Core, Typed
  <2>3. parent_pc[c] = "knock" => c_open[c] /\ \A k \in DOMAIN owner : owner[k] # c
    BY DEF Core, Control, Owners
  <2> QED BY <1>3, <2>1, <2>2, <2>3 DEF Knocks, Core
<1> QED BY <1>4, <1>5, <1>6, QueueStep

LEMMA LettersStep == ASSUME Core, [Next]_vars PROVE Letters'
<1>1. Frames
  BY StepFrames DEF Core
<1>2. ASSUME NEW k \in DOMAIN owner, c_id[owner[k]] = k
      PROVE  k \in DOMAIN owner' /\ owner'[k] = owner[k] /\ c_id'[owner[k]] = k
  <2>1. k # 0 /\ owner[k] \in Clients
    BY IdRange
  <2>2. c_id'[owner[k]] = k
    BY <1>2, <2>1, IdsStep
  <2>3. CASE ServerInit
    BY <2>2, <2>3, NewId
  <2>4. CASE ~ServerInit
    BY <1>1, <2>2, <2>4 DEF Frames
  <2> QED BY <2>2, <2>3, <2>4
<1>3. \A i \in DOMAIN s_queue : ~Knocking(i) =>
        /\ s_queue[i].id \in DOMAIN owner'
        /\ c_id'[owner'[s_queue[i].id]] = s_queue[i].id
  BY <1>2 DEF Core, Letters
<1>4. CASE UNCHANGED s_queue
  BY <1>3, <1>4 DEF Letters, Knocking
<1>5. ASSUME NEW i \in DOMAIN s_queue, Taken(i) PROVE Letters'
  <2>1. \A j \in DOMAIN s_queue' :
              /\ Before(i, j) \in DOMAIN s_queue
              /\ s_queue'[j] = s_queue[Before(i, j)]
              /\ Knocking(j)' <=> Knocking(Before(i, j))
    BY <1>5, TakenQueue DEF Knocking
  <2> QED BY <1>3, <2>1 DEF Letters
<1>6. ASSUME NEW c \in Clients, NEW m \in Request, Added(c, m) PROVE Letters'
  <2>1. ASSUME NEW j \in DOMAIN s_queue', ~Knocking(j)'
        PROVE  \/ j \in DOMAIN s_queue /\ ~Knocking(j) /\ s_queue'[j] = s_queue[j]
               \/ s_queue'[j] = m /\ m.id = c_id[c] /\ c_id[c] # 0
    BY <1>6, <2>1, AddedQueue DEF Knocking, Added
  <2>2. c_id[c] # 0 => c_id[c] \in DOMAIN owner /\ owner[c_id[c]] = c
    BY DEF Core, Owners
  <2>3. c_id' = c_id /\ owner' = owner
    BY <1>6 DEF Added
  <2> QED BY <1>3, <2>1, <2>2, <2>3 DEF Letters
<1> QED BY <1>4, <1>5, <1>6, QueueStep

-----------------------------------------------------------------------------
(* The list of clients                                                     *)

(* Of the nodes only the friends change.                                    *)
Kept ==
  /\ clients' \in Seq(Node) /\ DOMAIN clients' = DOMAIN clients
  /\ Len(clients') = Len(clients)
  /\ \A i \in DOMAIN clients :
       /\ clients'[i].id = clients[i].id /\ clients'[i].queue = clients[i].queue
       /\ clients'[i] = Freed <=> clients[i] = Freed

(* The node at place i goes, and another may be freed that stays.           *)
Removed(i) ==
  /\ clients' \in Seq(Node) /\ Len(clients') = Len(clients) - 1
  /\ \A j \in DOMAIN clients' :
       /\ Before(i, j) \in DOMAIN clients /\ Before(i, j) # i
       /\ clients'[j] = clients[Before(i, j)] \/ clients'[j] = Freed
  /\ \A j, k \in DOMAIN clients' : Before(i, j) = Before(i, k) => j = k
  /\ \/ /\ ServerStop /\ clients[i].id = Head(s_queue).id
        /\ \/ \E j \in DOMAIN clients' : clients'[j] = Freed
           \/ \A k \in DOMAIN clients : k # i =>
                 \E j \in DOMAIN clients' : clients'[j] = clients[k]
     \/ AwaitStop

LEMMA BefriendKeeps ==
  ASSUME NEW nodes \in Seq(Node), NEW names \in SUBSET Id, NEW friend \in BOOLEAN
  PROVE  LET after == Befriend(nodes, names, friend) IN
         /\ after \in Seq(Node) /\ DOMAIN after = DOMAIN nodes
         /\ Len(after) = Len(nodes)
         /\ \A i \in DOMAIN nodes :
              /\ after[i].id = nodes[i].id /\ after[i].queue = nodes[i].queue
              /\ after[i] = Freed <=> nodes[i] = Freed
<1> DEFINE after == Befriend(nodes, names, friend)
<1>1. DOMAIN nodes = 1 .. Len(nodes) /\ Len(nodes) \in Nat
      /\ \A i \in 1 .. Len(nodes) : nodes[i] \in Node
  OBVIOUS
<1>2. after = [i \in 1 .. Len(nodes) |-> after[i]] /\ DOMAIN after = 1 .. Len(nodes)
  BY <1>1 DEF Befriend
<1>3. \A i \in 1 .. Len(nodes) :
        after[i] = IF nodes[i].id \in names THEN [nodes[i] EXCEPT !.friend = friend]
                                            ELSE nodes[i]
  BY <1>1 DEF Befriend
<1> HIDE DEF after
<1>4. 0 \notin names
  BY ArgumentsAssumption DEF Id
<1>5. ASSUME NEW i \in 1 .. Len(nodes)
      PROVE  /\ after[i] \in Node
             /\ after[i].id = nodes[i].id /\ after[i].queue = nodes[i].queue
             /\ after[i] = Freed <=> nodes[i] = Freed
  <2>1. CASE nodes[i].id \in names
    <3>1. nodes[i].id # 0
      BY <1>4, <2>1
    <3>2. /\ after[i] = [nodes[i] EXCEPT !.friend = friend]
          /\ after[i] \in Node
          /\ after[i].id = nodes[i].id /\ after[i].queue = nodes[i].queue
      BY <1>1, <1>3, <2>1 DEF Node
    <3> QED BY <3>1, <3>2 DEF Freed
  <2>2. CASE nodes[i].id \notin names
    BY <1>1, <1>3, <2>2
  <2> QED BY <2>1, <2>2
<1>6. after \in Seq(Node)
  <2>1. after \in [1 .. Len(nodes) -> Node]
    BY <1>2, <1>5
  <2> QED BY <1>1, <2>1
<1>7. Len(after) = Len(nodes)
  BY <1>1, <1>2, <1>6
<1> QED BY <1>1, <1>2, <1>5, <1>6, <1>7 DEF after

LEMMA ListStep ==
  ASSUME Core, [Next]_vars
  PROVE  \/ Kept
         \/ /\ ServerInit
            /\ clients' = Append(clients, [id |-> Len(owner) + 1,
                                          queue |-> Head(s_queue).queue,
                                          friend |-> FALSE])
         \/ \E i \in DOMAIN clients : Removed(i)
<1>1. Frames
  BY StepFrames DEF Core
<1>2. clients \in Seq(Node) /\ s_queue \in Seq(Request)
  BY DEF Core, Typed
<1>3. CASE UNCHANGED clients
  BY <1>2, <1>3 DEF Kept
<1>4. CASE ServerInit
  BY <1>4 DEF ServerInit, Core, Typed
<1>5. CASE ServerFriends
  <2>1. Head(s_queue).args \in SUBSET Id
    <3>1. s_queue # <<>>
      BY <1>5 DEF ServerFriends, Receive
    <3>2. Head(s_queue) \in Request
      BY <1>2, <3>1, TailRemoveAt
    <3> QED BY <3>2 DEF Request
  <2> DEFINE some == Befriend(clients, Id, FALSE)
  <2>2. clients' = Befriend(some, Head(s_queue).args, TRUE)
    BY <1>5 DEF ServerFriends
  <2>3. /\ some \in Seq(Node) /\ DOMAIN some = DOMAIN clients
        /\ Len(some) = Len(clients)
        /\ \A i \in DOMAIN clients :
             /\ some[i].id = clients[i].id /\ some[i].queue = clients[i].queue
             /\ some[i] = Freed <=> clients[i] = Freed
    BY <1>2, BefriendKeeps
  <2> HIDE DEF some
  <2>4. /\ clients' \in Seq(Node) /\ DOMAIN clients' = DOMAIN some
        /\ Len(clients') = Len(some)
        /\ \A i \in DOMAIN some :
             /\ clients'[i].id = some[i].id /\ clients'[i].queue = some[i].queue
             /\ clients'[i] = Freed <=> some[i] = Freed
    BY <2>1, <2>2, <2>3, BefriendKeeps
  <2> QED BY <2>3, <2>4 DEF Kept
<1>6. CASE ServerModify
  <2>1. Head(s_queue).args \in SUBSET Id
    <3>1. s_queue # <<>>
      BY <1>6 DEF ServerModify, Receive
    <3>2. Head(s_queue) \in Request
      BY <1>2, <3>1, TailRemoveAt
    <3> QED BY <3>2 DEF Request
  <2>2. clients' = Befriend(clients, Head(s_queue).args, Head(s_queue).type = "ADD")
        /\ (Head(s_queue).type = "ADD") \in BOOLEAN
    BY <1>6 DEF ServerModify
  <2> QED BY <1>2, <2>1, <2>2, BefriendKeeps DEF Kept
<1>7. ASSUME NEW i \in DOMAIN clients
      PROVE  LET rest == RemoveAt(clients, i) IN
             /\ rest \in Seq(Node) /\ Len(rest) = Len(clients) - 1
             /\ DOMAIN rest = 1 .. Len(clients) - 1
             /\ \A j \in DOMAIN rest :
                  /\ Before(i, j) \in DOMAIN clients /\ Before(i, j) # i
                  /\ rest[j] = clients[Before(i, j)]
             /\ \A j, k \in DOMAIN rest : Before(i, j) = Before(i, k) => j = k
             /\ \A k \in DOMAIN clients : k # i =>
                  \E j \in DOMAIN rest : rest[j] = clients[k]
  <2> DEFINE rest == RemoveAt(clients, i)
  <2>1. /\ rest \in Seq(Node) /\ Len(rest) = Len(clients) - 1
        /\ DOMAIN rest = 1 .. Len(clients) - 1
        /\ i \in 1 .. Len(clients) /\ Len(clients) \in Nat
        /\ \A j \in 1 .. Len(clients) - 1 :
             rest[j] = IF j < i THEN clients[j] ELSE clients[j + 1]
    BY <1>2, RemoveAtType
  <2>2. DOMAIN clients = 1 .. Len(clients)
    BY <1>2
  <2> HIDE DEF rest
  <2>3. \A j \in DOMAIN rest :
          /\ Before(i, j) \in DOMAIN clients /\ Before(i, j) # i
          /\ rest[j] = clients[Before(i, j)]
    BY <2>1, <2>2 DEF Before
  <2>4. \A j, k \in DOMAIN rest : Before(i, j) = Before(i, k) => j = k
    BY <2>1 DEF Before
  <2>5. ASSUME NEW k \in DOMAIN clients, k # i
        PROVE  \E j \in DOMAIN rest : rest[j] = clients[k]
    <3>1. k \in 1 .. Len(clients)
      BY <2>2
    <3>2. CASE k < i
      BY <2>1, <3>1, <3>2
    <3>3. CASE k > i
      <4>1. k - 1 \in 1 .. Len(clients) - 1 /\ ~(k - 1 < i) /\ k - 1 + 1 = k
        BY <2>1, <3>1, <3>3
      <4>2. rest[k - 1] = clients[k]
        BY <2>1, <4>1
      <4> QED BY <2>1, <4>1, <4>2
    <3> QED BY <2>1, <2>5, <3>1, <3>2, <3>3
  <2> QED BY <2>1, <2>3, <2>4, <2>5 DEF rest
<1>8. CASE ServerStop
  <2>1. CASE Find(Head(s_queue).id) = {}
    BY <1>2, <1>8, <2>1 DEF ServerStop, Kept
  <2>2. CASE Find(Head(s_queue).id) # {}
    <3>1. PICK i \in Find(Head(s_queue).id) :
            clients' = IF i = 1 \/ i = Len(clients)
                         THEN RemoveAt(clients, i)
                         ELSE [RemoveAt(clients, i) EXCEPT ![i] = Freed]
      BY <1>8, <2>2 DEF ServerStop
    <3>2. i \in DOMAIN clients /\ clients[i].id = Head(s_queue).id
      BY DEF Find
    <3>3. CASE i = 1 \/ i = Len(clients)
      <4>1. clients' = RemoveAt(clients, i)
        BY <3>1, <3>3
      <4>2. Removed(i)
        BY <1>7, <1>8, <3>2, <4>1 DEF Removed
      <4> QED BY <3>2, <4>2
    <3>4. CASE ~(i = 1 \/ i = Len(clients))
      <4> DEFINE rest == RemoveAt(clients, i)
      <4>1. rest \in Seq(Node) /\ Len(rest) = Len(clients) - 1
            /\ DOMAIN rest = 1 .. Len(clients) - 1
        BY <1>7, <3>2
      <4>2. i \in 1 .. Len(clients) - 1
        BY <1>2, <3>2, <3>4
      <4>3. Freed \in Node
        BY DEF Freed, Node
      <4>4. clients' = [rest EXCEPT ![i] = Freed]
        BY <3>1, <3>4
      <4>5. \A j \in DOMAIN rest :
              /\ Before(i, j) \in DOMAIN clients /\ Before(i, j) # i
              /\ rest[j] = clients[Before(i, j)]
        BY <1>7, <3>2
      <4>6. \A j, k \in DOMAIN rest : Before(i, j) = Before(i, k) => j = k
        BY <1>7, <3>2
      <4> HIDE DEF rest
      <4>7. /\ clients' \in Seq(Node) /\ Len(clients') = Len(clients) - 1
            /\ DOMAIN clients' = DOMAIN rest
            /\ \A j \in DOMAIN rest : clients'[j] = rest[j] \/ clients'[j] = Freed
            /\ clients'[i] = Freed
        BY <4>1, <4>2, <4>3, <4>4
      <4>8. Removed(i)
        BY <1>8, <3>2, <4>1, <4>2, <4>5, <4>6, <4>7 DEF Removed
      <4> QED BY <3>2, <4>8
    <3> QED BY <3>3, <3>4
  <2> QED BY <2>1, <2>2
<1>9. CASE AwaitStop
  <2>1. clients # <<>> /\ clients' = Tail(clients)
    BY <1>9 DEF AwaitStop, Core, Control
  <2>2. 1 \in DOMAIN clients /\ clients' = RemoveAt(clients, 1)
    BY <1>2, <2>1, TailRemoveAt
  <2>3. Removed(1)
    BY <1>7, <1>9, <2>2 DEF Removed
  <2> QED BY <2>2, <2>3
<1> QED BY <1>1, <1>3, <1>4, <1>5, <1>6, <1>8, <1>9 DEF Frames

LEMMA ListedStep == ASSUME Core, [Next]_vars PROVE Listed'
<1>1. Frames
  BY StepFrames DEF Core
<1>2. \A k \in DOMAIN owner : k \in DOMAIN owner' /\ owner'[k] = owner[k]
  BY <1>1, NewId DEF Frames
<1>3. \A i \in DOMAIN clients :
        \/ clients[i] = Freed
        \/ clients[i].id \in DOMAIN owner' /\ clients[i].queue = owner'[clients[i].id]
  BY <1>2 DEF Core, Listed
<1>4. CASE Kept
  BY <1>3, <1>4 DEF Kept, Listed
<1>5. CASE \E i \in DOMAIN clients : Removed(i)
  BY <1>3, <1>5 DEF Removed, Listed
<1>6. CASE /\ ServerInit
           /\ clients' = Append(clients, [id |-> Len(owner) + 1,
                                         queue |-> Head(s_queue).queue,
                                         friend |-> FALSE])
  <2> DEFINE node == [id |-> Len(owner) + 1, queue |-> Head(s_queue).queue, friend |-> FALSE]
  <2>1. node.id \in DOMAIN owner' /\ node.queue = owner'[node.id]
    BY <1>6, NewId
  <2>2. clients' = Append(clients, node)
    BY <1>6
  <2>3. clients \in Seq(Node)
    BY DEF Core, Typed
  <2> HIDE DEF node
  <2>4. \A i \in DOMAIN clients' : 
      clients'[i] = node \/ (i \in DOMAIN clients /\ clients'[i] = clients[i])
    BY <2>2, <2>3
  <2> QED BY <1>3, <2>1, <2>4 DEF Listed
<1> QED BY <1>4, <1>5, <1>6, ListStep

-----------------------------------------------------------------------------
(* What the server sends                                                   *)

(* An answer to the client with the id k, or the failure to find it.        *)
Answered(k, type) ==
  \/ /\ k \in DOMAIN owner /\ owner[k] \in Clients /\ owner[k] \in Known
     /\ outbox' = <<[to |-> owner[k], msg |-> Message(type)]>>
     /\ server_pc' = "send"
  \/ Find(k) = {} /\ outbox' = <<>> /\ server_pc' = "failed"

LEMMA NodeOf ==
  ASSUME Core, server_pc = "receive", NEW i \in DOMAIN clients, clients[i] # Freed
  PROVE  /\ clients[i].id \in DOMAIN owner /\ clients[i].queue = owner[clients[i].id]
         /\ clients[i].queue \in Clients /\ clients[i].queue \in Known
<1>1. clients[i].id \in DOMAIN owner /\ clients[i].queue = owner[clients[i].id]
  BY DEF Core, Listed
<1>2. outbox = <<>>
  BY DEF Core, Control
<1>3. clients[i].queue \notin Expected
  BY <1>2 DEF Expected
<1>4. clients[i].id # 0 /\ clients[i].queue \in Clients
  BY <1>1, IdRange
<1>5. clients[i].queue \in Known
  BY <1>3, <1>4 DEF Core, Presented
<1> QED BY <1>1, <1>4, <1>5

LEMMA AnswerStep ==
  ASSUME Core, server_pc = "receive", NEW k \in Nat \ {0}, NEW type, Answer(k, type)
  PROVE  Answered(k, type)
<1>1. CASE Find(k) = {}
  BY <1>1 DEF Answer, Fail, Answered
<1>2. CASE Find(k) # {}
  <2>1. PICK i \in Find(k) : Send(Tell(clients[i], Message(type)))
    BY <1>2 DEF Answer
  <2>2. i \in DOMAIN clients /\ clients[i].id = k
    BY DEF Find
  <2>3. clients[i] # Freed
    BY <2>2 DEF Freed
  <2>4. k \in DOMAIN owner /\ clients[i].queue = owner[k]
        /\ owner[k] \in Clients /\ owner[k] \in Known
    BY <2>2, <2>3, NodeOf
  <2>5. outbox' = <<[to |-> owner[k], msg |-> Message(type)]>>
    BY <2>1, <2>4 DEF Send, Tell
  <2>6. outbox' # <<>>
    BY <2>5
  <2>7. server_pc' = "send"
    BY <2>1, <2>6 DEF Send
  <2> QED BY <2>4, <2>5, <2>7 DEF Answered
<1> QED BY <1>1, <1>2

(* What is still to be sent after a message has been taken.                 *)
TakingSends ==
  \/ /\ ServerInit /\ server_pc' = "send"
     /\ outbox' = <<[to |-> Head(s_queue).queue,
                     msg |-> [type |-> "ID", id |-> Len(owner) + 1]]>>
  \/ /\ Head(s_queue).type \in Requests
     /\ \E type \in {"ECHO", "LIST"} : Answered(Head(s_queue).id, type)
  \/ /\ Head(s_queue).type \in Broadcasts
     /\ server_pc' = IF outbox' = <<>> THEN "receive" ELSE "send"
     /\ \/ outbox' = <<>>
        \/ \E k \in DOMAIN owner :
             /\ owner[k] \in Clients /\ owner[k] \in Known
             /\ outbox' = <<[to |-> owner[k], msg |-> Message("2ONE")]>>
        \/ /\ outbox' \in Seq(Entry)
           /\ \A i \in DOMAIN outbox' :
                /\ outbox'[i].msg = Message("2MANY")
                /\ \/ outbox'[i].to = Nobody
                   \/ /\ \E k \in DOMAIN owner : owner[k] = outbox'[i].to
                      /\ outbox'[i].to \in Clients /\ outbox'[i].to \in Known
  \/ Head(s_queue).type = "STOP" /\ server_pc' = "receive" /\ outbox' = <<>>

LEMMA TakingStep ==
  ASSUME Core, Taking
  PROVE  /\ TakingSends /\ server_pc = "receive" /\ outbox = <<>>
         /\ s_queue # <<>> /\ Head(s_queue) = s_queue[1] /\ 1 \in DOMAIN s_queue
         /\ UNCHANGED <<c_queue, c_open, c_id, parent_pc, child_pc, pending, masked,
                        typed, asked, answered>>
         /\ s_queue' = Tail(s_queue) /\ s_open' \in BOOLEAN
<1>1. /\ server_pc = "receive" /\ s_queue # <<>> /\ s_queue' = Tail(s_queue)
      /\ UNCHANGED <<c_queue, c_open, client>>
  BY DEF Taking, Receive, ServerInit, ServerEcho, ServerList, ServerFriends,
         ServerModify, Server2Many, Server2One, ServerStop
<1>2. s_queue \in Seq(Request)
  BY DEF Core, Typed
<1>3. Head(s_queue) = s_queue[1] /\ 1 \in DOMAIN s_queue /\ Head(s_queue) \in Request
  BY <1>1, <1>2, TailRemoveAt
<1>4. outbox = <<>>
  BY <1>1 DEF Core, Control
<1>5. Head(s_queue).type # "INIT" =>
        Head(s_queue).id \in DOMAIN owner /\ Head(s_queue).id \in Nat \ {0}
  BY <1>3, IdRange DEF Core, Letters, Knocking
<1>6. CASE ServerInit
  <2>1. outbox' = <<[to |-> Head(s_queue).queue,
                     msg |-> [type |-> "ID", id |-> Len(owner) + 1]]>>
    BY <1>6 DEF ServerInit, Send, Core, Typed
  <2>2. outbox' # <<>>
    BY <2>1
  <2>3. TakingSends
    BY <1>6, <2>1, <2>2 DEF TakingSends, ServerInit, Send
  <2>4. s_open' = s_open
    BY <1>6 DEF ServerInit, Send
  <2> QED BY <1>1, <1>3, <1>4, <2>3, <2>4 DEF client, Core, Typed
<1>7. ASSUME NEW type \in {"ECHO", "LIST"}, Head(s_queue).type \in Requests,
             Answer(Head(s_queue).id, type)
      PROVE  TakingSends /\ s_open' \in BOOLEAN
  <2>1. Answered(Head(s_queue).id, type)
    BY <1>1, <1>5, <1>7, AnswerStep DEF Requests
  <2>2. s_open' \in BOOLEAN
    BY <1>7 DEF Answer, Fail, Send, Core, Typed
  <2> QED BY <1>7, <2>1, <2>2 DEF TakingSends
<1>8. CASE ServerEcho \/ ServerList \/ ServerFriends \/ ServerModify
  <2>1. \E type \in {"ECHO", "LIST"} : Answer(Head(s_queue).id, type)
    BY <1>8 DEF ServerEcho, ServerList, ServerFriends, ServerModify
  <2>2. Head(s_queue).type \in Requests
    BY <1>8 DEF ServerEcho, ServerList, ServerFriends, ServerModify, Receive, Requests
  <2> QED BY <1>1, <1>3, <1>4, <1>7, <2>1, <2>2 DEF client
<1>9. CASE Server2Many
  <2>1. Head(s_queue).type \in Broadcasts /\ clients \in Seq(Node)
    BY <1>9 DEF Server2Many, Receive, Broadcasts, Core, Typed
  <2>2. /\ outbox' = [i \in 1 .. Len(clients) |->
                       [to  |-> IF Head(s_queue).type = "2ALL" \/ clients[i].friend
                                  THEN clients[i].queue ELSE Nobody,
                        msg |-> Message("2MANY")]]
        /\ server_pc' = IF outbox' = <<>> THEN "receive" ELSE "send"
        /\ s_open' = s_open
    BY <1>9 DEF Server2Many, Send
  <2>3. Message("2MANY") \in Reply
    BY DEF Message, Reply
  <2>4. DOMAIN outbox' = 1 .. Len(clients) /\ Len(clients) \in Nat
        /\ DOMAIN clients = 1 .. Len(clients)
        /\ \A i \in DOMAIN clients : clients[i].queue \in Clients \cup {Nobody}
    <3>1. DOMAIN clients = 1 .. Len(clients) /\ Len(clients) \in Nat
          /\ \A i \in 1 .. Len(clients) : clients[i] \in Node
      BY <2>1
    <3> QED BY <2>2, <3>1 DEF Node
  <2>5. ASSUME NEW i \in DOMAIN outbox'
        PROVE  /\ outbox'[i] \in Entry
               /\ outbox'[i].msg = Message("2MANY")
               /\ \/ outbox'[i].to = Nobody
                  \/ /\ \E k \in DOMAIN owner : owner[k] = outbox'[i].to
                     /\ outbox'[i].to \in Clients /\ outbox'[i].to \in Known
    <3>1. /\ outbox'[i] = [to |-> outbox'[i].to, msg |-> Message("2MANY")]
          /\ outbox'[i].to = Nobody \/ outbox'[i].to = clients[i].queue
          /\ outbox'[i].msg = Message("2MANY")
      BY <2>2, <2>4
    <3>2. outbox'[i] \in Entry
      BY <2>3, <2>4, <3>1 DEF Entry
    <3>3. CASE clients[i] = Freed
      BY <3>1, <3>2, <3>3 DEF Freed
    <3>4. CASE clients[i] # Freed
      BY <1>1, <2>4, <3>1, <3>2, <3>4, NodeOf
    <3> QED BY <3>3, <3>4
  <2>6. outbox' \in Seq(Entry)
    <3>1. outbox' = [i \in 1 .. Len(clients) |-> outbox'[i]]
      BY <2>2
    <3> QED BY <2>4, <2>5, <3>1
  <2>7. TakingSends
    BY <2>1, <2>2, <2>5, <2>6 DEF TakingSends
  <2> QED BY <1>1, <1>3, <1>4, <2>2, <2>7 DEF client, Core, Typed
<1>10. CASE Server2One
  <2> DEFINE to == {i \in DOMAIN clients : clients[i].id \in Head(s_queue).args}
  <2>1. Head(s_queue).type \in Broadcasts
    BY <1>10 DEF Server2One, Receive, Broadcasts
  <2>2. /\ server_pc' = IF outbox' = <<>> THEN "receive" ELSE "send"
        /\ s_open' = s_open
        /\ \/ outbox' = <<>>
           \/ \E i \in to : outbox' = Tell(clients[i], Message("2ONE"))
    BY <1>10 DEF Server2One, Send
  <2>3. ASSUME NEW i \in to
        PROVE  \E k \in DOMAIN owner : /\ owner[k] = clients[i].queue
                                       /\ owner[k] \in Clients /\ owner[k] \in Known
    <3>1. i \in DOMAIN clients /\ clients[i].id \in Head(s_queue).args
      OBVIOUS
    <3>2. clients[i].id # 0
      <4>1. Head(s_queue).args \in SUBSET Id
        BY <1>3 DEF Request
      <4> QED BY <3>1, <4>1, ArgumentsAssumption DEF Id
    <3>3. clients[i] # Freed
      BY <3>2 DEF Freed
    <3> QED BY <1>1, <3>1, <3>3, NodeOf
  <2>4. TakingSends
    BY <2>1, <2>2, <2>3 DEF TakingSends, Tell
  <2> QED BY <1>1, <1>3, <1>4, <2>2, <2>4 DEF client, Core, Typed
<1>11. CASE ServerStop
  BY <1>1, <1>3, <1>4, <1>11 DEF ServerStop, Receive, Send, TakingSends, client, Core, Typed
<1> QED BY <1>6, <1>8, <1>9, <1>10, <1>11 DEF Taking

-----------------------------------------------------------------------------
(* The clients' queues                                                     *)

(* The server's next msgsnd: made, passed over, or the end of the server.   *)
LEMMA SendStep ==
  ASSUME Core, ServerSend
  PROVE  /\ outbox # <<>> /\ Head(outbox) = outbox[1] /\ 1 \in DOMAIN outbox
         /\ Head(outbox) \in Entry /\ server_pc = "send"
         /\ UNCHANGED <<clients, owner, clients_id_autoincrement, s_queue, c_open, client>>
         /\ \/ /\ Head(outbox).to \in Clients /\ c_open[Head(outbox).to]
               /\ Len(c_queue[Head(outbox).to]) < Capacity
               /\ c_queue' = [c_queue EXCEPT ![Head(outbox).to] =
                                Append(@, Head(outbox).msg)]
               /\ outbox' = Tail(outbox) /\ s_open' = s_open
               /\ server_pc' = IF outbox' = <<>> THEN "receive" ELSE "send"
            \/ /\ Head(outbox).msg.type \in {"2ONE", "2MANY"} /\ UNCHANGED c_queue
               /\ outbox' = Tail(outbox) /\ s_open' = s_open
               /\ server_pc' = IF outbox' = <<>> THEN "receive" ELSE "send"
            \/ /\ ~Exists(Head(outbox).to) /\ UNCHANGED c_queue
               /\ Head(outbox).msg.type \notin {"2ONE", "2MANY"}
               /\ outbox' = <<>> /\ s_open' = FALSE /\ server_pc' = "failed"
<1>1. outbox # <<>> /\ outbox \in Seq(Entry) /\ server_pc = "send"
  BY DEF ServerSend, Core, Control, Typed
<1>2. Head(outbox) = outbox[1] /\ 1 \in DOMAIN outbox /\ Head(outbox) \in Entry
  BY <1>1, TailRemoveAt
<1>3. Head(outbox).to \in Clients \cup {Nobody}
  BY <1>2 DEF Entry
<1>4. UNCHANGED <<clients, owner, clients_id_autoincrement, s_queue, c_open, client>>
  BY DEF ServerSend, numbering
<1>5. CASE ~Exists(Head(outbox).to)
  BY <1>1, <1>2, <1>4, <1>5 DEF ServerSend, Send, Fail
<1>6. CASE Exists(Head(outbox).to)
  BY <1>1, <1>2, <1>3, <1>4, <1>6 DEF ServerSend, Send, Exists, HasRoom
<1> QED BY <1>5, <1>6

(* A message for a client: the next of a handler's, or the STOP of cleanup. *)
Delivered(c, m) ==
  /\ c_queue'[c] = Append(c_queue[c], m)
  /\ Len(c_queue[c]) < Capacity /\ c_open[c]
  /\ UNCHANGED <<c_id, c_open, owner, clients, client, s_queue>>
  /\ \/ StopClient /\ m = Message("STOP") /\ UNCHANGED outbox
     \/ /\ ServerSend /\ outbox # <<>> /\ 1 \in DOMAIN outbox
        /\ outbox[1].to = c /\ outbox[1].msg = m /\ outbox' = Tail(outbox)

(* A message read by the parent, the id, or by the child.                   *)
Read(c, i) ==
  /\ c_queue'[c] = RemoveAt(c_queue[c], i)
  /\ \/ AwaitId(c)
     \/ /\ ChildReceive(c) /\ i = 1 /\ c_id[c] # 0
        /\ c_queue[c] # <<>> /\ Head(c_queue[c]) = c_queue[c][1]

LEMMA MailStep ==
  ASSUME Core, [Next]_vars, NEW c \in Clients
  PROVE  \/ c_queue'[c] = c_queue[c]
         \/ \E m \in Reply : Delivered(c, m)
         \/ \E i \in DOMAIN c_queue[c] : Read(c, i)
         \/ RemoveQueue(c) /\ c_queue'[c] = <<>> /\ c_id[c] # 0
<1>1. Frames
  BY StepFrames DEF Core
<1>2. c_queue \in [Clients -> Seq(Reply)] /\ c_queue[c] \in Seq(Reply)
  BY DEF Core, Typed
<1>3. CASE ServerSend
  <2>1. CASE c_queue' = c_queue
    BY <2>1
  <2>2. CASE /\ Head(outbox).to \in Clients /\ c_open[Head(outbox).to]
             /\ Len(c_queue[Head(outbox).to]) < Capacity
             /\ c_queue' = [c_queue EXCEPT ![Head(outbox).to] =
                              Append(@, Head(outbox).msg)]
             /\ outbox' = Tail(outbox)
    <3>1. CASE c = Head(outbox).to
      <4>1. Head(outbox).msg \in Reply
        BY <1>3, SendStep DEF Entry
      <4>2. Delivered(c, Head(outbox).msg)
        BY <1>2, <1>3, <2>2, <3>1, SendStep DEF Delivered, client
      <4> QED BY <4>1, <4>2
    <3>2. CASE c # Head(outbox).to
      BY <1>2, <2>2, <3>2
    <3> QED BY <3>1, <3>2
  <2> QED BY <1>3, <2>1, <2>2, SendStep
<1>4. CASE StopClient
  <2>1. Message("STOP") \in Reply
    BY DEF Message, Reply
  <2>2. clients \in Seq(Node) /\ clients # <<>>
    BY <1>4 DEF StopClient, Core, Typed
  <2>3. Head(clients).queue \in Clients \cup {Nobody}
    <3>1. Head(clients) \in Node
      BY <2>2, TailRemoveAt
    <3> QED BY <3>1 DEF Node
  <2> DEFINE to == Head(clients).queue
  <2>4. \/ /\ Exists(to) /\ HasRoom(c_queue[to])
           /\ c_queue' = [c_queue EXCEPT ![to] = Append(@, Message("STOP"))]
        \/ UNCHANGED c_queue
    BY <1>4 DEF StopClient
  <2>5. UNCHANGED <<clients, numbering, outbox, s_queue, s_open, c_open, client>>
    BY <1>4 DEF StopClient
  <2> HIDE DEF to
  <2>6. CASE c = to /\ Exists(to) /\ HasRoom(c_queue[to])
             /\ c_queue' = [c_queue EXCEPT ![to] = Append(@, Message("STOP"))]
    <3>1. Delivered(c, Message("STOP"))
      BY <1>2, <1>4, <2>5, <2>6 DEF Delivered, Exists, HasRoom, numbering, client
    <3> QED BY <2>1, <3>1
  <2>7. CASE /\ c # to
             /\ c_queue' = [c_queue EXCEPT ![to] = Append(@, Message("STOP"))]
    BY <1>2, <2>7
  <2> QED BY <2>4, <2>6, <2>7
<1>5. ASSUME NEW d \in Clients, AwaitId(d)
      PROVE  c_queue'[c] = c_queue[c] \/ \E i \in DOMAIN c_queue[c] : Read(c, i)
  <2>1. PICK first \in Mail(d) : c_queue' = [c_queue EXCEPT ![d] = RemoveAt(@, first)]
    BY <1>5 DEF AwaitId
  <2>2. first \in DOMAIN c_queue[d]
    BY DEF Mail
  <2>3. CASE c = d
    <3>1. Read(c, first)
      BY <1>2, <1>5, <2>1, <2>3 DEF Read
    <3> QED BY <2>2, <2>3, <3>1
  <2>4. CASE c # d
    BY <1>2, <2>1, <2>4
  <2> QED BY <2>3, <2>4
<1>6. ASSUME NEW d \in Clients, RemoveQueue(d)
      PROVE  \/ c_queue'[c] = c_queue[c]
             \/ RemoveQueue(c) /\ c_queue'[c] = <<>> /\ c_id[c] # 0
  <2>1. c_queue' = [c_queue EXCEPT ![d] = <<>>]
    BY <1>6 DEF RemoveQueue
  <2>2. c_id[d] # 0
    BY <1>6 DEF RemoveQueue, Running, Core, Control
  <2>3. CASE c = d
    BY <1>2, <1>6, <2>1, <2>2, <2>3
  <2>4. CASE c # d
    BY <1>2, <2>1, <2>4
  <2> QED BY <2>3, <2>4
<1>7. ASSUME NEW d \in Clients, ChildReceive(d)
      PROVE  c_queue'[c] = c_queue[c] \/ \E i \in DOMAIN c_queue[c] : Read(c, i)
  <2>1. c_queue[d] # <<>> /\ c_queue' = [c_queue EXCEPT ![d] = Tail(@)]
        /\ c_id[d] # 0
    BY <1>7 DEF ChildReceive, Core, Control
  <2>2. CASE c = d
    <3>1. /\ 1 \in DOMAIN c_queue[c] /\ Tail(c_queue[c]) = RemoveAt(c_queue[c], 1)
          /\ Head(c_queue[c]) = c_queue[c][1]
      BY <1>2, <2>1, <2>2, TailRemoveAt
    <3>2. Read(c, 1)
      BY <1>2, <1>7, <2>1, <2>2, <3>1 DEF Read
    <3> QED BY <3>1, <3>2
  <2>3. CASE c # d
    BY <1>2, <2>1, <2>3
  <2> QED BY <2>2, <2>3
<1>8. CASE UNCHANGED c_queue
  BY <1>8
<1> QED BY <1>1, <1>3, <1>4, <1>5, <1>6, <1>7, <1>8 DEF Frames

LEMMA ReadHasId ==
  ASSUME Core, [Next]_vars, NEW c \in Clients, NEW i, Read(c, i)
  PROVE  c_id'[c] # 0 /\ UNCHANGED <<owner, outbox, server_pc, clients>>
<1>1. CASE AwaitId(c)
  <2>1. PICK k \in DOMAIN owner : k # 0 /\ c_id' = [c_id EXCEPT ![c] = k]
    BY <1>1, FirstMail
  <2>2. c_id'[c] = k
    BY <2>1 DEF Core, Typed
  <2> QED BY <1>1, <2>1, <2>2, FirstMail
<1>2. CASE ChildReceive(c) /\ c_id[c] # 0
  BY <1>2 DEF ChildReceive, server, numbering
<1> QED BY <1>1, <1>2 DEF Read

LEMMA IntroducedStays ==
  ASSUME Core, [Next]_vars, NEW c \in Clients, c \in Known
  PROVE  c \in Known'
<1>1. c_id[c] # 0 => c_id'[c] # 0
  BY IdsStep
<1>2. CASE c_id'[c] # 0
  BY <1>2 DEF Known
<1>3. CASE c_id'[c] = 0
  <2>1. PICK i \in DOMAIN c_queue[c] : c_queue[c][i].type = "ID"
    BY <1>1, <1>3 DEF Known
  <2>2. CASE c_queue'[c] = c_queue[c]
    BY <2>1, <2>2 DEF Known
  <2>3. ASSUME NEW m \in Reply, Delivered(c, m) PROVE c \in Known'
    <3>1. c_queue'[c] = Append(c_queue[c], m) /\ c_queue[c] \in Seq(Reply)
      BY <2>3 DEF Delivered, Core, Typed
    <3>2. i \in DOMAIN c_queue'[c] /\ c_queue'[c][i] = c_queue[c][i]
      BY <2>1, <3>1
    <3> QED BY <2>1, <3>2 DEF Known
  <2> QED BY <1>1, <1>3, <2>2, <2>3, MailStep, ReadHasId
<1> QED BY <1>2, <1>3

LEMMA MailedStep == ASSUME Core, [Next]_vars PROVE Mailed'
<1>1. Frames
  BY StepFrames DEF Core
<1>2. \A k \in DOMAIN owner : k \in DOMAIN owner' /\ owner'[k] = owner[k]
  BY <1>1, NewId DEF Frames
<1> SUFFICES ASSUME NEW c \in Clients, NEW i \in Mail(c)'
             PROVE  /\ c_queue'[c][i].type = "ID" =>
                         /\ c_queue'[c][i].id \in DOMAIN owner'
                         /\ owner'[c_queue'[c][i].id] = c
                    /\ c_id'[c] = 0 =>
                         \E j \in Mail(c)' : j <= i /\ c_queue'[c][j].type = "ID"
  BY DEF Mailed
<1>3. c_id'[c] = 0 => c_id[c] = 0
  BY IdsStep
<1>4. \A j \in Mail(c) :
        /\ c_queue[c][j].type = "ID" =>
             c_queue[c][j].id \in DOMAIN owner' /\ owner'[c_queue[c][j].id] = c
        /\ c_id[c] = 0 => \E k \in Mail(c) : k <= j /\ c_queue[c][k].type = "ID"
  BY <1>2 DEF Core, Mailed
<1>5. c_queue[c] \in Seq(Reply)
  BY DEF Core, Typed
<1>6. i \in DOMAIN c_queue'[c] /\ c_queue'[c][i].type # "STOP"
  BY DEF Mail
<1>7. CASE c_queue'[c] = c_queue[c]
  <2>1. Mail(c)' = Mail(c)
    BY <1>7 DEF Mail
  <2> QED BY <1>3, <1>4, <1>7, <2>1
<1>8. ASSUME NEW m \in Reply, Delivered(c, m)
      PROVE  /\ c_queue'[c][i].type = "ID" =>
                  /\ c_queue'[c][i].id \in DOMAIN owner'
                  /\ owner'[c_queue'[c][i].id] = c
             /\ c_id'[c] = 0 =>
                  \E j \in Mail(c)' : j <= i /\ c_queue'[c][j].type = "ID"
  <2>1. /\ Len(c_queue[c]) \in Nat /\ DOMAIN c_queue[c] = 1 .. Len(c_queue[c])
        /\ DOMAIN c_queue'[c] = 1 .. Len(c_queue[c]) + 1
        /\ c_queue'[c][Len(c_queue[c]) + 1] = m
        /\ \A j \in DOMAIN c_queue[c] : c_queue'[c][j] = c_queue[c][j]
    BY <1>5, <1>8 DEF Delivered
  <2>2. Mail(c) \subseteq Mail(c)'
    BY <2>1 DEF Mail
  <2>3. CASE i \in DOMAIN c_queue[c]
    <3>1. i \in Mail(c) /\ c_queue'[c][i] = c_queue[c][i]
      BY <1>6, <2>1, <2>3 DEF Mail
    <3>2. \A j \in Mail(c) : c_queue'[c][j] = c_queue[c][j]
      BY <2>1 DEF Mail
    <3> QED BY <1>3, <1>4, <2>2, <3>1, <3>2
  <2>4. CASE i = Len(c_queue[c]) + 1
    <3>1. /\ c_queue'[c][i] = m /\ m.type # "STOP"
          /\ 1 \in DOMAIN outbox /\ outbox[1].to = c /\ outbox[1].msg = m
          /\ owner' = owner /\ c_id' = c_id
      BY <1>6, <1>8, <2>1, <2>4 DEF Delivered, Message
    <3>2. c # Nobody
      BY ArgumentsAssumption
    <3>3. CASE m.type = "ID"
      <4>1. m.id \in DOMAIN owner /\ owner[m.id] = c
        BY <3>1, <3>3 DEF Core, Outgoing
      <4>2. i <= i
        BY <2>1, <2>4
      <4> QED BY <3>1, <3>3, <4>1, <4>2
    <3>4. CASE m.type # "ID"
      <4>1. c \in Known
        BY <3>1, <3>2, <3>4 DEF Core, Outgoing
      <4>2. ASSUME c_id'[c] = 0
            PROVE  \E j \in Mail(c)' : j <= i /\ c_queue'[c][j].type = "ID"
        <5>1. PICK j \in DOMAIN c_queue[c] : c_queue[c][j].type = "ID"
          BY <1>3, <4>1, <4>2 DEF Known
        <5>2. j \in Mail(c)' /\ c_queue'[c][j].type = "ID"
          BY <2>1, <2>2, <5>1 DEF Mail
        <5>3. j <= i
          BY <2>1, <2>4
        <5> QED BY <5>2, <5>3
      <4> QED BY <3>1, <3>4, <4>2
    <3> QED BY <3>3, <3>4
  <2> QED BY <1>6, <2>1, <2>3, <2>4
<1>9. ASSUME NEW f \in DOMAIN c_queue[c], Read(c, f)
      PROVE  /\ c_id'[c] # 0
             /\ c_queue'[c][i].type = "ID" =>
                  /\ c_queue'[c][i].id \in DOMAIN owner'
                  /\ owner'[c_queue'[c][i].id] = c
  <2>1. /\ DOMAIN c_queue'[c] = 1 .. Len(c_queue[c]) - 1
        /\ f \in 1 .. Len(c_queue[c]) /\ Len(c_queue[c]) \in Nat
        /\ \A j \in 1 .. Len(c_queue[c]) - 1 :
              c_queue'[c][j] = IF j < f THEN c_queue[c][j] ELSE c_queue[c][j + 1]
    BY <1>5, <1>9, RemoveAtType DEF Read
  <2>2. DOMAIN c_queue[c] = 1 .. Len(c_queue[c])
    BY <1>5
  <2>3. \E j \in DOMAIN c_queue[c] : c_queue'[c][i] = c_queue[c][j]
    <3>1. i \in 1 .. Len(c_queue[c]) - 1
      BY <1>6, <2>1
    <3>2. i \in DOMAIN c_queue[c] /\ i + 1 \in DOMAIN c_queue[c]
      BY <2>1, <2>2, <3>1
    <3> QED BY <2>1, <3>1, <3>2
  <2>4. \E j \in Mail(c) : c_queue'[c][i] = c_queue[c][j]
    BY <1>6, <2>3 DEF Mail
  <2> QED BY <1>4, <1>9, <2>4, ReadHasId
<1>10. CASE c_queue'[c] = <<>>
  BY <1>6, <1>10
<1> QED BY <1>7, <1>8, <1>9, <1>10, MailStep

-----------------------------------------------------------------------------
(* The sends still to make                                                 *)

(* An id on its way waits for a client that has no mail yet.                *)
LEMMA IdWaits ==
  ASSUME Core, [Next]_vars, NEW c \in Clients, c \in Waiting, ~ServerSend
  PROVE  c \in Waiting'
<1>1. ~AwaitId(c)
  BY DEF AwaitId, Waiting
<1>2. c_id'[c] = 0
  BY <1>1, IdsStep DEF Waiting
<1>3. CASE c_queue'[c] = c_queue[c]
  BY <1>2, <1>3 DEF Mail, Waiting
<1>4. ASSUME NEW m \in Reply, Delivered(c, m) PROVE c \in Waiting'
  <2>1. c_queue'[c] = Append(c_queue[c], Message("STOP")) /\ c_queue[c] \in Seq(Reply)
    BY <1>4 DEF Delivered, Core, Typed
  <2>2. \A j \in DOMAIN c_queue'[c] :
          c_queue'[c][j] = Message("STOP") \/ (j \in DOMAIN c_queue[c] /\ c_queue'[c][j] = c_queue[c][j])
    BY <2>1
  <2> QED BY <1>2, <2>2 DEF Mail, Message, Waiting
<1>5. ASSUME NEW i \in DOMAIN c_queue[c], Read(c, i) PROVE FALSE
  BY <1>2, <1>5, ReadHasId DEF Waiting
<1>6. c_id[c] = 0
  BY DEF Waiting
<1> QED BY <1>3, <1>4, <1>5, <1>6, MailStep

LEMMA OutgoingStep == ASSUME Core, [Next]_vars PROVE Outgoing'
<1>1. Frames
  BY StepFrames DEF Core
<1>2. /\ \A k \in DOMAIN owner : k \in DOMAIN owner' /\ owner'[k] = owner[k]
      /\ \A k \in DOMAIN owner : owner[k] \in Clients
  BY <1>1, NewId, IdRange DEF Frames
<1>3. Nobody \notin Clients
  BY ArgumentsAssumption
<1>o. outbox \in Seq(Entry)
  BY DEF Core, Typed
(* What holds of an entry stays, but for an id while the server sends.      *)
<1>4. ASSUME NEW i \in DOMAIN outbox
      PROVE  LET e == outbox[i] IN
             /\ e.msg.type # "STOP"
             /\ e.to = Nobody => e.msg.type = "2MANY"
             /\ e.to # Nobody => \E k \in DOMAIN owner' : owner'[k] = e.to
             /\ e.msg.type = "ID" =>
                  /\ Len(outbox) = 1
                  /\ e.msg.id \in DOMAIN owner' /\ owner'[e.msg.id] = e.to
                  /\ ~ServerSend => e.to \in Waiting'
             /\ e.msg.type # "ID" /\ e.to # Nobody => e.to \in Known'
  <2> DEFINE e == outbox[i]
  <2>1. /\ e.msg.type # "STOP"
        /\ e.to = Nobody => e.msg.type = "2MANY"
        /\ e.to # Nobody => \E k \in DOMAIN owner : owner[k] = e.to
        /\ e.msg.type = "ID" =>
             /\ Len(outbox) = 1
             /\ e.msg.id \in DOMAIN owner /\ owner[e.msg.id] = e.to
             /\ e.to \in Waiting
        /\ e.msg.type # "ID" /\ e.to # Nobody => e.to \in Known
    BY DEF Core, Outgoing
  <2> HIDE DEF e
  <2>2. e.to # Nobody => e.to \in Clients
    BY <1>2, <2>1
  <2>3. e.msg.type = "ID" /\ ~ServerSend => e.to \in Waiting'
    BY <2>1, <2>2, IdWaits
  <2>4. e.msg.type # "ID" /\ e.to # Nobody => e.to \in Known'
    BY <2>1, <2>2, IntroducedStays
  <2> QED BY <1>2, <2>1, <2>3, <2>4 DEF e
<1>5. CASE outbox' = <<>>
  BY <1>5 DEF Outgoing
<1>6. CASE UNCHANGED outbox /\ ~ServerSend
  BY <1>4, <1>6 DEF Outgoing
<1>7. CASE ServerSend /\ outbox' = Tail(outbox)
  <2>1. /\ outbox # <<>> /\ Len(outbox) \in Nat \ {0} /\ DOMAIN outbox = 1 .. Len(outbox)
        /\ DOMAIN outbox' = 1 .. Len(outbox) - 1
        /\ \A j \in 1 .. Len(outbox) - 1 : outbox'[j] = outbox[j + 1]
    BY <1>o, <1>7, SendStep, TailRemoveAt
  <2>2. ASSUME NEW j \in DOMAIN outbox'
        PROVE  \E i \in DOMAIN outbox : outbox'[j] = outbox[i] /\ outbox[i].msg.type # "ID"
    <3>1. j \in 1 .. Len(outbox) - 1
      BY <2>1
    <3>2. j + 1 \in DOMAIN outbox /\ Len(outbox) # 1
      BY <2>1, <3>1
    <3>3. outbox[j + 1].msg.type # "ID"
      BY <1>4, <3>2
    <3> QED BY <2>1, <3>1, <3>2, <3>3
  <2> QED BY <1>4, <2>2 DEF Outgoing
<1>8. CASE Taking
  <2>1. TakingSends /\ UNCHANGED <<c_queue, c_id>>
    BY <1>8, TakingStep
  <2>2. CASE ServerInit /\ outbox' = <<[to |-> Head(s_queue).queue,
                                  msg |-> [type |-> "ID", id |-> Len(owner) + 1]]>>
    <3> DEFINE q == Head(s_queue).queue
    <3>1. /\ q \in Clients /\ Len(owner) + 1 \in DOMAIN owner'
          /\ owner'[Len(owner) + 1] = q /\ q \in Waiting
      BY <2>2, NewId DEF Waiting
    <3>2. /\ Len(outbox') = 1 /\ DOMAIN outbox' = {1}
          /\ outbox'[1].to = q /\ outbox'[1].msg.type = "ID"
          /\ outbox'[1].msg.id = Len(owner) + 1
      BY <2>2
    <3>3. q \in Waiting'
      BY <2>1, <3>1, IdWaits DEF Waiting, Mail
    <3> HIDE DEF q
    <3> QED BY <1>3, <3>1, <3>2, <3>3 DEF Outgoing
  <2>3. ASSUME NEW k \in DOMAIN owner, NEW type \in {"ECHO", "LIST", "2ONE"},
               owner[k] \in Clients, owner[k] \in Known,
               outbox' = <<[to |-> owner[k], msg |-> Message(type)]>>
        PROVE  Outgoing'
    <3>1. /\ DOMAIN outbox' = {1} /\ outbox'[1].to = owner[k]
          /\ outbox'[1].msg.type = type
      BY <2>3 DEF Message
    <3>2. owner[k] \in Known'
      BY <2>3, IntroducedStays
    <3> QED BY <1>2, <1>3, <2>3, <3>1, <3>2 DEF Outgoing
  <2>4. ASSUME \A i \in DOMAIN outbox' :
                 /\ outbox'[i].msg = Message("2MANY")
                 /\ \/ outbox'[i].to = Nobody
                    \/ /\ \E k \in DOMAIN owner : owner[k] = outbox'[i].to
                       /\ outbox'[i].to \in Clients /\ outbox'[i].to \in Known
        PROVE  Outgoing'
    <3>1. ASSUME NEW c \in Clients, c \in Known PROVE c \in Known'
      BY <3>1, IntroducedStays
    <3> QED BY <1>2, <2>4, <3>1 DEF Outgoing, Message
  <2> QED BY <1>5, <2>1, <2>2, <2>3, <2>4 DEF TakingSends, Answered
<1>9. CASE ServerInterrupt
  BY <1>5, <1>9 DEF ServerInterrupt
<1> QED BY <1>1, <1>5, <1>6, <1>7, <1>8, <1>9, SendStep DEF Frames

LEMMA PresentedStep == ASSUME Core, [Next]_vars PROVE Presented'
<1>1. Frames
  BY StepFrames DEF Core
<1>2. \A i \in DOMAIN clients : clients[i].id # 0 => clients[i].queue \in Clients
  BY IdRange DEF Core, Listed, Freed
<1> SUFFICES ASSUME server_pc' \in {"receive", "send"},
                    NEW i \in DOMAIN clients', clients'[i].id # 0
             PROVE  clients'[i].queue \in Known' \/ clients'[i].queue \in Expected'
  BY DEF Presented
<1>3. server_pc \in {"receive", "send"}
  BY <1>1 DEF Frames, Taking, ServerInit, ServerEcho, ServerList, ServerFriends, ServerModify,
     Server2Many, Server2One, ServerStop, Receive, ServerSend, ServerInterrupt,
     StopClient, AwaitStop, RemoveServerQueue
<1>4. ASSUME NEW j \in DOMAIN clients, clients[j].id # 0
      PROVE  clients[j].queue \in Known' \/ clients[j].queue \in Expected'
  <2>1. PICK c \in Clients : c = clients[j].queue /\ (c \in Known \/ c \in Expected)
    BY <1>2, <1>3, <1>4 DEF Core, Presented
  <2>2. CASE c \in Known
    BY <2>1, <2>2, IntroducedStays
  <2>3. CASE c \in Expected /\ c \notin Known
    <3>1. outbox # <<>> /\ ~Taking
      BY <2>3, TakingStep DEF Expected
    <3>2. PICK k \in DOMAIN outbox : outbox[k].to = c /\ outbox[k].msg.type = "ID"
      BY <2>3 DEF Expected
    <3>3. Len(outbox) = 1 /\ k = 1
      BY <3>2 DEF Core, Outgoing, Typed
    <3>4. CASE ServerSend
      <4>1. Head(outbox).to = c /\ Head(outbox).msg.type = "ID"
        BY <3>2, <3>3, <3>4, SendStep
      <4>2. c_queue' = [c_queue EXCEPT ![c] = Append(@, Head(outbox).msg)]
        BY <3>4, <4>1, SendStep
      <4>3. c_queue[c] \in Seq(Reply) /\ c_queue'[c] = Append(c_queue[c], Head(outbox).msg)
        BY <2>1, <4>2 DEF Core, Typed
      <4>4. \E n \in DOMAIN c_queue'[c] : c_queue'[c][n] = Head(outbox).msg
        <5>1. Len(c_queue[c]) + 1 \in DOMAIN c_queue'[c]
              /\ c_queue'[c][Len(c_queue[c]) + 1] = Head(outbox).msg
          BY <4>3
        <5> QED BY <5>1
      <4>5. c \in Known'
        BY <4>1, <4>4 DEF Known
      <4> QED BY <2>1, <4>5
    <3>5. CASE ~ServerSend
      <4>1. outbox' = outbox
        BY <1>1, <3>1, <3>5 DEF Frames, ServerInterrupt
      <4> QED BY <2>1, <2>3, <4>1 DEF Expected
    <3> QED BY <3>4, <3>5
  <2> QED BY <2>1, <2>2, <2>3
<1>5. CASE Kept
  BY <1>4, <1>5 DEF Kept
<1>6. CASE \E j \in DOMAIN clients : Removed(j)
  BY <1>4, <1>6 DEF Removed, Freed
<1>7. CASE /\ ServerInit
           /\ clients' = Append(clients, [id |-> Len(owner) + 1,
                                         queue |-> Head(s_queue).queue,
                                         friend |-> FALSE])
  <2> DEFINE q == Head(s_queue).queue
             node == [id |-> Len(owner) + 1, queue |-> q, friend |-> FALSE]
  <2>1. clients' = Append(clients, node) /\ clients \in Seq(Node) /\ node.queue = q
    BY <1>7 DEF Core, Typed
  <2>2. q \in Expected'
    <3>1. outbox' = <<[to |-> Head(s_queue).queue,
                       msg |-> [type |-> "ID", id |-> clients_id_autoincrement]]>>
      BY <1>7 DEF ServerInit, Send
    <3>2. 1 \in DOMAIN outbox' /\ outbox'[1].to = q /\ outbox'[1].msg.type = "ID"
      BY <3>1
    <3> QED BY <1>7, <3>2, NewId DEF Expected
  <2> HIDE DEF node, q
  <2>3. clients'[i] = node \/ (i \in DOMAIN clients /\ clients'[i] = clients[i])
    BY <2>1
  <2> QED BY <1>4, <2>1, <2>2, <2>3
<1> QED BY <1>5, <1>6, <1>7, ListStep

LEMMA ControlStep == ASSUME Core, [Next]_vars PROVE Control'
<1>1. Frames
  BY StepFrames DEF Core
<1>o. outbox \in Seq(Entry)
  BY DEF Core, Typed
<1>2. server_pc' = "send" <=> outbox' # <<>>
  <2>1. CASE Taking
    <3>1. \A e : <<e>> # <<>>
      OBVIOUS
    <3> QED BY <2>1, <3>1, TakingStep DEF TakingSends, Answered
  <2>2. CASE ServerSend
    BY <2>2, SendStep
  <2>3. CASE ServerInterrupt
    BY <2>3 DEF ServerInterrupt
  <2>4. CASE StopClient \/ AwaitStop \/ RemoveServerQueue
    BY <2>4 DEF StopClient, AwaitStop, RemoveServerQueue, Core, Control
  <2>5. CASE UNCHANGED <<outbox, server_pc>>
    BY <2>5 DEF Core, Control
  <2> QED BY <1>1, <2>1, <2>2, <2>3, <2>4, <2>5 DEF Frames, ServerInterrupt
<1>3. server_pc' = "await" => clients' # <<>>
  <2>1. CASE Taking
    BY <2>1, TakingStep DEF TakingSends, Answered
  <2>2. CASE ServerSend
    BY <2>2, SendStep
  <2>3. CASE ServerInterrupt \/ StopClient \/ AwaitStop \/ RemoveServerQueue
    BY <2>3 DEF ServerInterrupt, StopClient, AwaitStop, RemoveServerQueue
  <2>4. CASE UNCHANGED server_pc /\ ~Taking /\ ~AwaitStop
    BY <1>1, <2>4 DEF Frames, Taking, Core, Control
  <2> QED BY <1>1, <2>1, <2>2, <2>3, <2>4 DEF Frames
<1> SUFFICES ASSUME NEW c \in Clients
             PROVE  /\ parent_pc'[c] = "init" => ~c_open'[c]
                    /\ parent_pc'[c] \in {"knock", "await"} => c_open'[c]
                    /\ parent_pc'[c] \in {"init", "knock", "await"} => c_id'[c] = 0
                    /\ parent_pc'[c] \in {"register", "idle", "kill", "remove", "bye", "gone"}
                         => c_id'[c] # 0
                    /\ child_pc'[c] \in {"listening", "told"} => c_id'[c] # 0
                    /\ ~c_open'[c] => c_queue'[c] = <<>>
  BY <1>2, <1>3 DEF Control
<1>4. MovesOn(c)
  BY <1>1 DEF Frames
<1>5. /\ parent_pc[c] = "init" => ~c_open[c]
      /\ parent_pc[c] \in {"knock", "await"} => c_open[c]
      /\ parent_pc[c] \in {"init", "knock", "await"} => c_id[c] = 0
      /\ parent_pc[c] \in {"register", "idle", "kill", "remove", "bye", "gone"} => c_id[c] # 0
      /\ child_pc[c] \in {"listening", "told"} => c_id[c] # 0
      /\ ~c_open[c] => c_queue[c] = <<>>
  BY DEF Core, Control
<1>6. \/ c_open'[c] = c_open[c]
      \/ OpenQueues(c) /\ (c_open'[c] = s_open)
      \/ RemoveQueue(c) /\ c_id[c] # 0 /\ c_open'[c] = FALSE /\ c_queue'[c] = <<>>
  <2>1. ASSUME NEW d \in Clients, OpenQueues(d)
        PROVE  c_open'[c] = c_open[c] \/ (OpenQueues(c) /\ c_open'[c] = s_open)
    BY <2>1 DEF OpenQueues, Core, Typed
  <2>2. ASSUME NEW d \in Clients, RemoveQueue(d)
        PROVE  \/ c_open'[c] = c_open[c]
               \/ RemoveQueue(c) /\ c_id[c] # 0 /\ c_open'[c] = FALSE /\ c_queue'[c] = <<>>
    BY <2>2 DEF RemoveQueue, Running, Core, Typed, Control
  <2> QED BY <1>1, <2>1, <2>2 DEF Frames
<1>7. OpenQueues(c) => /\ parent_pc[c] = "init"
                       /\ parent_pc'[c] = IF s_open THEN "knock" ELSE "dead"
                       /\ c_queue' = c_queue /\ s_open \in BOOLEAN
                       /\ c_open'[c] = s_open
  BY DEF OpenQueues, Goto, Core, Typed
<1>8. RemoveQueue(c) => parent_pc[c] = "remove" /\ parent_pc'[c] \in {"bye", "gone"}
  BY DEF RemoveQueue, Running, Goto, Core, Typed
<1>9. \/ c_id'[c] = c_id[c] /\ ~AwaitId(c)
      \/ c_id[c] = 0 /\ c_id'[c] # 0 /\ AwaitId(c)
  <2>1. AwaitId(c) => c_id'[c] # c_id[c]
    BY FirstMail DEF Core, Typed
  <2> QED BY <2>1, IdsStep
<1>10. AwaitId(c) => parent_pc[c] = "await" /\ parent_pc'[c] = "register"
  BY DEF AwaitId, Goto, Core, Typed
<1>11. child_pc'[c] \in {"listening", "told"} => c_id'[c] # 0
  <2>1. CASE child_pc'[c] = child_pc[c]
    BY <1>5, <1>9, <2>1
  <2>2. CASE \E d \in Clients : \/ OpenQueues(d) \/ SendInit(d) \/ Register(d) \/ RemoveQueue(d)
                                \/ SendStop(d) \/ HandleUSR1(d) \/ SendCommand(d) \/ Leave(d)
    BY <2>1, <2>2 DEF OpenQueues, SendInit, Register, RemoveQueue, SendStop, HandleUSR1,
                      SendCommand, Leave
  <2>3. ASSUME NEW d \in Clients, AwaitId(d) PROVE child_pc'[c] = child_pc[c] \/ AwaitId(c)
    BY <2>3 DEF AwaitId, Goto, Core, Typed
  <2>4. ASSUME NEW d \in Clients, KillChild(d) PROVE child_pc'[c] \in {child_pc[c], "gone"}
    BY <2>4 DEF KillChild, Goto, Core, Typed
  <2>5. ASSUME NEW d \in Clients, HandleINT(d)
        PROVE  child_pc'[c] \in {child_pc[c], "gone"}
    BY <2>5 DEF HandleINT, Goto, Core, Typed
  <2>6. ASSUME NEW d \in Clients, ChildReceive(d) \/ ChildSignals(d)
        PROVE  child_pc'[c] = child_pc[c] \/ child_pc[c] \in {"listening", "told"}
    BY <2>6 DEF ChildReceive, ChildSignals, Goto, Core, Typed
  <2>7. CASE ServerStep \/ ServerInterrupt
    BY <2>1, <2>7, TakingStep, SendStep DEF ServerStep, Taking, StopClient, AwaitStop,
       RemoveServerQueue, ServerInterrupt, client
  <2>8. CASE UNCHANGED vars
    BY <2>1, <2>8 DEF vars, client
  <2> QED BY <1>5, <1>9, <2>1, <2>2, <2>3, <2>4, <2>5, <2>6, <2>7, <2>8
          DEF Next, ParentStep, ChildStep, UserStep
<1>12. ~c_open'[c] => c_queue'[c] = <<>>
  <2>1. CASE ~c_open[c]
    <3>1. c_queue[c] = <<>>
      BY <1>5, <2>1
    <3>2. \A m \in Reply : ~Delivered(c, m)
      BY <2>1 DEF Delivered
    <3>3. \A i : i \notin DOMAIN c_queue[c]
      BY <3>1
    <3> QED BY <3>1, <3>2, <3>3, MailStep
  <2>2. CASE c_open[c]
    BY <1>5, <1>6, <1>7, <2>2
  <2> QED BY <2>1, <2>2
<1> QED BY <1>4, <1>5, <1>6, <1>7, <1>8, <1>9, <1>10, <1>11, <1>12 DEF MovesOn

-----------------------------------------------------------------------------
(* The types                                                               *)

ServerTyped ==
  /\ server_pc \in ServerPC
  /\ clients \in Seq(Node)
  /\ owner \in Seq(Clients) /\ clients_id_autoincrement = Len(owner) + 1
  /\ outbox \in Seq(Entry) /\ s_open \in BOOLEAN

QueuesTyped ==
  /\ s_queue \in Seq(Request) /\ Len(s_queue) <= Capacity
  /\ c_queue \in [Clients -> Seq(Reply)]
  /\ \A c \in Clients : Len(c_queue[c]) <= Capacity

ClientsTyped ==
  /\ c_open \in [Clients -> BOOLEAN]
  /\ c_id \in [Clients -> Nat]
  /\ parent_pc \in [Clients -> ParentPC]
  /\ child_pc \in [Clients -> ChildPC]
  /\ pending \in [Clients -> BOOLEAN]
  /\ masked \in [Clients -> SUBSET {"SIGINT", "SIGUSR1"}]
  /\ typed \in 0 .. MaxCommands
  /\ asked \in [Clients -> Nat] /\ answered \in [Clients -> Nat]

LEMMA ServerTypedStep == ASSUME Core, [Next]_vars PROVE ServerTyped'
<1>1. Frames
  BY StepFrames DEF Core
<1>2. /\ server_pc \in ServerPC /\ clients \in Seq(Node)
      /\ owner \in Seq(Clients) /\ clients_id_autoincrement = Len(owner) + 1
      /\ outbox \in Seq(Entry) /\ s_open \in BOOLEAN
  BY DEF Core, Typed
<1>3. server_pc' \in ServerPC
  <2>1. CASE Taking
    BY <2>1, TakingStep DEF TakingSends, Answered, ServerPC
  <2>2. CASE ServerSend
    BY <2>2, SendStep DEF ServerPC
  <2>3. CASE ServerInterrupt \/ StopClient \/ AwaitStop \/ RemoveServerQueue
    BY <2>3 DEF ServerInterrupt, StopClient, AwaitStop, RemoveServerQueue, ServerPC
  <2> QED BY <1>1, <1>2, <2>1, <2>2, <2>3 DEF Frames
<1>4. clients' \in Seq(Node)
  <2>1. CASE ServerInit
    <3> DEFINE node == [id |-> Len(owner) + 1, queue |-> Head(s_queue).queue,
                        friend |-> FALSE]
    <3>1. node \in Node
      BY <2>1, NewId DEF Node
    <3>2. clients' = Append(clients, node)
      BY <1>2, <2>1 DEF ServerInit
    <3> HIDE DEF node
    <3> QED BY <1>2, <3>1, <3>2
  <2> QED BY <2>1, ListStep DEF Kept, Removed
<1>5. owner' \in Seq(Clients) /\ clients_id_autoincrement' = Len(owner') + 1
  <2>1. CASE ServerInit
    BY <2>1, NewId
  <2>2. CASE ~ServerInit
    BY <1>1, <1>2, <2>2 DEF Frames
  <2> QED BY <2>1, <2>2
<1>6. outbox' \in Seq(Entry)
  <2>1. ASSUME NEW to \in Clients, NEW msg \in Reply,
               outbox' = <<[to |-> to, msg |-> msg]>>
        PROVE  outbox' \in Seq(Entry)
    <3>1. [to |-> to, msg |-> msg] \in Entry
      BY DEF Entry
    <3> QED BY <2>1, <3>1
  <2>2. CASE outbox' = <<>>
    BY <2>2
  <2>3. CASE Taking
    <3>1. \A type \in {"ECHO", "LIST", "2ONE"} : Message(type) \in Reply
      BY DEF Message, Reply
    <3>2. ServerInit => /\ [type |-> "ID", id |-> Len(owner) + 1] \in Reply
                        /\ Head(s_queue).queue \in Clients
      BY NewId DEF Reply
    <3> QED BY <2>1, <2>2, <2>3, <3>1, <3>2, TakingStep DEF TakingSends, Answered
  <2>4. CASE ServerSend
    BY <1>2, <2>2, <2>4, SendStep, TailRemoveAt
  <2> QED BY <1>1, <1>2, <2>2, <2>3, <2>4 DEF Frames, ServerInterrupt
<1>7. s_open' \in BOOLEAN
  <2>1. CASE Taking
    BY <2>1, TakingStep
  <2>2. CASE ServerSend
    BY <1>2, <2>2, SendStep
  <2>3. CASE ServerInterrupt \/ StopClient \/ AwaitStop \/ RemoveServerQueue
    BY <1>2, <2>3 DEF ServerInterrupt, StopClient, AwaitStop, RemoveServerQueue, queues
  <2>4. CASE \E c \in Clients : ParentStep(c) \/ ChildStep(c) \/ SendCommand(c) \/ Leave(c) \/ HandleINT(c)
    BY <1>2, <2>4 DEF ParentStep, ChildStep, OpenQueues, SendInit, AwaitId, Register, KillChild,
       RemoveQueue, SendStop, HandleUSR1, SendCommand, Leave, HandleINT, ChildReceive,
       ChildSignals, queues
  <2>5. CASE UNCHANGED vars
    BY <1>2, <2>5 DEF vars, queues
  <2> QED BY <2>1, <2>2, <2>3, <2>4, <2>5 DEF Next, ServerStep, UserStep, Taking
<1> QED BY <1>3, <1>4, <1>5, <1>6, <1>7 DEF ServerTyped

LEMMA QueuesTypedStep == ASSUME Core, [Next]_vars PROVE QueuesTyped'
<1>1. Frames
  BY StepFrames DEF Core
<1>2. /\ s_queue \in Seq(Request) /\ Len(s_queue) <= Capacity
      /\ c_queue \in [Clients -> Seq(Reply)]
      /\ \A c \in Clients : c_queue[c] \in Seq(Reply) /\ Len(c_queue[c]) <= Capacity
      /\ Capacity \in Nat
  BY ArgumentsAssumption DEF Core, Typed
<1>3. s_queue' \in Seq(Request) /\ Len(s_queue') <= Capacity
  <2>1. ASSUME NEW i \in DOMAIN s_queue, Taken(i)
        PROVE  s_queue' \in Seq(Request) /\ Len(s_queue') <= Capacity
    <3>1. s_queue' \in Seq(Request) /\ Len(s_queue') = Len(s_queue) - 1
      BY <2>1, TakenQueue
    <3>2. Len(s_queue) - 1 <= Capacity
      BY <1>2
    <3> QED BY <3>1, <3>2
  <2>2. ASSUME NEW c \in Clients, NEW m \in Request, Added(c, m)
        PROVE  s_queue' \in Seq(Request) /\ Len(s_queue') <= Capacity
    <3>1. s_queue' \in Seq(Request) /\ Len(s_queue') = Len(s_queue) + 1
      BY <2>2, AddedQueue
    <3>2. Len(s_queue) + 1 <= Capacity
      BY <1>2, <2>2 DEF Added
    <3> QED BY <3>1, <3>2
  <2> QED BY <1>2, <2>1, <2>2, QueueStep
<1>4. ASSUME NEW c \in Clients PROVE c_queue'[c] \in Seq(Reply) /\ Len(c_queue'[c]) <= Capacity
  <2>1. ASSUME NEW m \in Reply, Delivered(c, m)
        PROVE  c_queue'[c] \in Seq(Reply) /\ Len(c_queue'[c]) <= Capacity
    <3>1. c_queue'[c] \in Seq(Reply) /\ Len(c_queue'[c]) = Len(c_queue[c]) + 1
      BY <1>2, <2>1 DEF Delivered
    <3>2. Len(c_queue[c]) + 1 <= Capacity
      BY <1>2, <2>1 DEF Delivered
    <3> QED BY <3>1, <3>2
  <2>2. ASSUME NEW i \in DOMAIN c_queue[c], Read(c, i)
        PROVE  c_queue'[c] \in Seq(Reply) /\ Len(c_queue'[c]) <= Capacity
    <3>1. c_queue'[c] \in Seq(Reply) /\ Len(c_queue'[c]) = Len(c_queue[c]) - 1
      BY <1>2, <2>2, RemoveAtType DEF Read
    <3>2. Len(c_queue[c]) - 1 <= Capacity
      BY <1>2
    <3> QED BY <3>1, <3>2
  <2>3. <<>> \in Seq(Reply) /\ Len(<<>>) <= Capacity
    BY <1>2
  <2> QED BY <1>2, <2>1, <2>2, <2>3, MailStep
<1>5. c_queue' = [c \in Clients |-> c_queue'[c]]
  <2>1. CASE ServerSend
    BY <1>2, <2>1, SendStep
  <2>2. CASE StopClient
    BY <1>2, <2>2 DEF StopClient
  <2>3. ASSUME NEW c \in Clients, AwaitId(c) \/ RemoveQueue(c) \/ ChildReceive(c)
        PROVE  c_queue' = [d \in Clients |-> c_queue'[d]]
    BY <1>2, <2>3 DEF AwaitId, RemoveQueue, ChildReceive
  <2>4. CASE UNCHANGED c_queue
    BY <1>2, <2>4
  <2> QED BY <1>1, <2>1, <2>2, <2>3, <2>4 DEF Frames
<1>6. c_queue' \in [Clients -> Seq(Reply)]
  BY <1>4, <1>5
<1> QED BY <1>3, <1>4, <1>6 DEF QueuesTyped

LEMMA ClientsTypedStep == ASSUME Core, [Next]_vars PROVE ClientsTyped'
<1>1. /\ ClientsTyped /\ s_open \in BOOLEAN /\ MaxCommands \in Nat
      /\ c_id \in [Clients -> Nat]
  BY ArgumentsAssumption DEF Core, Typed, ClientsTyped
<1>2. CASE ServerStep \/ ServerInterrupt \/ UNCHANGED vars
  <2>1. UNCHANGED <<c_open, client>>
    BY <1>2, TakingStep, SendStep DEF ServerStep, Taking, StopClient, AwaitStop,
       RemoveServerQueue, ServerInterrupt, queues, client, vars
  <2> QED BY <1>1, <2>1 DEF ClientsTyped, client
<1>3. ASSUME NEW c \in Clients, OpenQueues(c) \/ SendInit(c) \/ Register(c) \/ Leave(c)
      PROVE  ClientsTyped'
  BY <1>1, <1>3 DEF OpenQueues, SendInit, Register, Leave, queues, ClientsTyped, Goto, ParentPC
<1>4. ASSUME NEW c \in Clients, AwaitId(c) PROVE ClientsTyped'
  <2>1. c_id' \in [Clients -> Nat]
    BY <1>1, <1>4, FirstMail, IdRange
  <2> QED BY <1>1, <1>4, <2>1 DEF AwaitId, ClientsTyped, Goto, ParentPC, ChildPC
<1>5. ASSUME NEW c \in Clients, KillChild(c) \/ RemoveQueue(c) \/ SendStop(c)
      PROVE  ClientsTyped'
  BY <1>1, <1>5 DEF KillChild, RemoveQueue, SendStop, queues, ClientsTyped, Goto,
      ParentPC, ChildPC
<1>6. ASSUME NEW c \in Clients, HandleUSR1(c) PROVE ClientsTyped'
  BY <1>1, <1>6 DEF HandleUSR1, Deliver, queues, ClientsTyped, Goto, ParentPC
<1>7. ASSUME NEW c \in Clients, HandleINT(c) PROVE ClientsTyped'
  BY <1>1, <1>7 DEF HandleINT, Deliver, queues, ClientsTyped, Goto, ParentPC, ChildPC
<1>8. ASSUME NEW c \in Clients, SendCommand(c) PROVE ClientsTyped'
  <2>1. typed' \in 0 .. MaxCommands
    <3>1. typed' = typed + 1 /\ typed < MaxCommands /\ typed \in 0 .. MaxCommands
      BY <1>1, <1>8 DEF SendCommand, ClientsTyped
    <3>2. typed + 1 \in 0 .. MaxCommands
      BY <1>1, <3>1
    <3> QED BY <3>1, <3>2
  <2>2. asked' \in [Clients -> Nat]
    <3>1. asked' = asked \/ asked' = [asked EXCEPT ![c] = @ + 1]
      BY <1>8 DEF SendCommand
    <3>2. asked \in [Clients -> Nat]
      BY <1>1 DEF ClientsTyped
    <3> QED BY <3>1, <3>2
  <2>3. parent_pc' \in [Clients -> ParentPC]
    BY <1>1, <1>8 DEF SendCommand, ClientsTyped, Goto, ParentPC
  <2> QED BY <1>1, <1>8, <2>1, <2>2, <2>3 DEF SendCommand, ClientsTyped
<1>9. ASSUME NEW c \in Clients, ChildReceive(c) PROVE ClientsTyped'
  BY <1>1, <1>9 DEF ChildReceive, ClientsTyped, Goto, ChildPC
<1>10. ASSUME NEW c \in Clients, ChildSignals(c) PROVE ClientsTyped'
  BY <1>1, <1>10 DEF ChildSignals, queues, ClientsTyped, Goto, ChildPC, Alive
<1> QED BY <1>2, <1>3, <1>4, <1>5, <1>6, <1>7, <1>8, <1>9, <1>10
        DEF Next, ParentStep, ChildStep, UserStep

-----------------------------------------------------------------------------
LEMMA CoreInit == Init => Core
<1> SUFFICES ASSUME Init PROVE Core
  OBVIOUS
<1>1. Typed
  BY ArgumentsAssumption DEF Init, Typed, ServerPC, ParentPC, ChildPC
<1>2. Control
  BY DEF Init, Control
<1>3. Owners
  BY DEF Init, Owners
<1>4. Knocks /\ Letters /\ Listed /\ Outgoing /\ Presented
  BY DEF Init, Knocks, Letters, Listed, Outgoing, Presented
<1>5. Mailed
  BY DEF Init, Mailed, Mail
<1> QED BY <1>1, <1>2, <1>3, <1>4, <1>5 DEF Core

(* The inductive invariant: the id of every client, wherever it is on its   *)
(* way, is that client's and nobody else's.                                 *)
THEOREM CoreInvariant == Spec => []Core
<1>1. Core /\ [Next]_vars => Core'
  <2> SUFFICES ASSUME Core, [Next]_vars PROVE Core'
    OBVIOUS
  <2>1. Typed'
    BY ServerTypedStep, QueuesTypedStep, ClientsTypedStep DEF Typed, ServerTyped, QueuesTyped,
       ClientsTyped
  <2> QED BY <2>1, ControlStep, OwnersStep, KnocksStep, LettersStep, ListedStep,
             OutgoingStep, MailedStep, PresentedStep DEF Core
<1> QED BY CoreInit, <1>1, PTL DEF Spec

-----------------------------------------------------------------------------
(* The members of the chat                                                 *)

(* Nobody is in the list twice.                                             *)
Distinct ==
  \A i, j \in DOMAIN clients : clients[i].id = clients[j].id /\ clients[i].id # 0 => i = j

(* A client's STOP is its last message.                                     *)
LastWords ==
  \A i \in DOMAIN s_queue : s_queue[i].type = "STOP" =>
    /\ parent_pc[owner[s_queue[i].id]] = "gone"
    /\ \A j \in DOMAIN s_queue : s_queue[j].id = s_queue[i].id => j <= i

(* As long as the list is sound, a client is in it until its STOP is read.  *)
Registered ==
  server_pc \in {"receive", "send"} /\ ListIsAllocated =>
    \A k \in DOMAIN owner :
      parent_pc[owner[k]] # "gone" \/ (\E i \in DOMAIN s_queue : s_queue[i].id = k)
        => \E j \in DOMAIN clients : clients[j].id = k

Members == Distinct /\ LastWords /\ Registered /\ Len(clients) <= Len(owner)

LEMMA AppendedList ==
  ASSUME Core, ServerInit
  PROVE  LET n == Len(clients) IN
         /\ n \in Nat /\ DOMAIN clients = 1 .. n /\ DOMAIN clients' = 1 .. n + 1
         /\ Len(clients') = n + 1
         /\ clients'[n + 1].id = Len(owner) + 1
         /\ \A i \in DOMAIN clients : clients'[i] = clients[i]
<1> DEFINE node == [id |-> Len(owner) + 1, queue |-> Head(s_queue).queue, friend |-> FALSE]
<1>1. clients' = Append(clients, node) /\ clients \in Seq(Node) /\ node.id = Len(owner) + 1
  BY DEF ServerInit, Core, Typed
<1> HIDE DEF node
<1> QED BY <1>1

LEMMA DistinctStep == ASSUME Core, Members, [Next]_vars PROVE Distinct'
<1>1. Distinct
  BY DEF Members
<1>2. CASE Kept
  BY <1>1, <1>2 DEF Kept, Distinct
<1>3. ASSUME NEW i \in DOMAIN clients, Removed(i) PROVE Distinct'
  BY <1>1, <1>3 DEF Removed, Distinct, Freed
<1>4. CASE ServerInit
  <2>1. \A i \in DOMAIN clients : clients[i].id # Len(owner) + 1
    <3>1. Len(owner) + 1 \notin DOMAIN owner /\ Len(owner) + 1 # 0
      BY IdRange
    <3> QED BY <3>1 DEF Core, Listed, Freed
  <2>2. \A i \in DOMAIN clients' : i = Len(clients) + 1 \/ i \in DOMAIN clients
    BY <1>4, AppendedList
  <2> QED BY <1>1, <1>4, <2>1, <2>2, AppendedList DEF Distinct
<1> QED BY <1>2, <1>3, <1>4, ListStep

LEMMA LastWordsStep == ASSUME Core, Core', Members, [Next]_vars PROVE LastWords'
<1>1. Frames
  BY StepFrames DEF Core
<1>2. \A c \in Clients : parent_pc[c] = "gone" => parent_pc'[c] = "gone"
  BY <1>1 DEF Frames, MovesOn
<1>3. \A k \in DOMAIN owner : owner[k] \in Clients /\ owner'[k] = owner[k]
  BY <1>1, NewId, IdRange DEF Frames
<1>4. ASSUME NEW i \in DOMAIN s_queue, s_queue[i].type = "STOP"
      PROVE  /\ s_queue[i].id \in DOMAIN owner
             /\ parent_pc[owner[s_queue[i].id]] = "gone"
             /\ parent_pc'[owner'[s_queue[i].id]] = "gone"
             /\ \A j \in DOMAIN s_queue : s_queue[j].id = s_queue[i].id => j <= i
  <2>1. s_queue[i].id \in DOMAIN owner
    BY <1>4 DEF Core, Letters, Knocking
  <2> QED BY <1>2, <1>3, <1>4, <2>1 DEF Members, LastWords
<1>5. CASE UNCHANGED s_queue
  BY <1>4, <1>5 DEF LastWords
<1>6. ASSUME NEW i \in DOMAIN s_queue, Taken(i) PROVE LastWords'
  BY <1>4, <1>6, TakenQueue DEF LastWords
<1>7. ASSUME NEW c \in Clients, NEW m \in Request, Added(c, m) PROVE LastWords'
  <2> DEFINE n == Len(s_queue) + 1
  <2>1. /\ n \in DOMAIN s_queue' /\ s_queue'[n] = m
        /\ \A j \in DOMAIN s_queue : s_queue'[j] = s_queue[j] /\ j <= n
        /\ \A j \in DOMAIN s_queue' : (j = n \/ j \in DOMAIN s_queue) /\ j <= n
    BY <1>7, AddedQueue
  <2> HIDE DEF n
  <2>2. ASSUME NEW i \in DOMAIN s_queue, s_queue[i].type = "STOP" PROVE m.id # s_queue[i].id
    <3>1. s_queue[i].id \in DOMAIN owner /\ parent_pc[owner[s_queue[i].id]] = "gone"
      BY <1>4, <2>2
    <3>2. CASE m.type = "INIT"
      <4>1. m.id = 0
        BY <1>7, <3>2 DEF Added, Requests, Broadcasts
      <4> QED BY <3>1, <4>1, IdRange
    <3>3. CASE m.type # "INIT"
      <4>1. parent_pc[c] # "gone" /\ m.id = c_id[c] /\ c_id[c] # 0
        BY <1>7, <3>3 DEF Added
      <4>2. owner[m.id] = c
        BY <4>1 DEF Core, Owners
      <4> QED BY <3>1, <4>1, <4>2
    <3> QED BY <3>2, <3>3
  <2>3. m.type = "STOP" => parent_pc'[owner'[m.id]] = "gone"
    <3>1. m.type = "STOP" => SendStop(c) /\ m.id = c_id[c] /\ c_id[c] # 0 /\ parent_pc'[c] = "gone"
      BY <1>7 DEF Added, Requests, Broadcasts, Core, Typed
    <3>2. m.type = "STOP" => m.id \in DOMAIN owner /\ owner[m.id] = c
      BY <3>1 DEF Core, Owners
    <3> QED BY <1>3, <3>1, <3>2
  <2> QED BY <1>4, <2>1, <2>2, <2>3 DEF LastWords
<1> QED BY <1>5, <1>6, <1>7, QueueStep

(* The server never comes back to the main loop.                            *)
LEMMA MainLoop ==
  ASSUME Core, [Next]_vars, server_pc' \in {"receive", "send"}
  PROVE  server_pc \in {"receive", "send"} /\ ~AwaitStop
<1>1. Frames
  BY StepFrames DEF Core
<1> QED
  BY <1>1 DEF Frames, Taking, ServerInit, ServerEcho, ServerList, ServerFriends, ServerModify,
     Server2Many, Server2One, ServerStop, Receive, ServerSend, ServerInterrupt,
     StopClient, AwaitStop, RemoveServerQueue

LEMMA RegisteredStep == ASSUME Core, Members, [Next]_vars PROVE Registered'
<1> SUFFICES ASSUME server_pc' \in {"receive", "send"}, ListIsAllocated',
                    NEW k \in DOMAIN owner',
                    \/ parent_pc'[owner'[k]] # "gone"
                    \/ \E i \in DOMAIN s_queue' : s_queue'[i].id = k
             PROVE  \E j \in DOMAIN clients' : clients'[j].id = k
  BY DEF Registered
<1>1. Frames
  BY StepFrames DEF Core
<1>2. server_pc \in {"receive", "send"} /\ ~AwaitStop
  BY MainLoop
<1>3. \A m \in DOMAIN owner : owner[m] \in Clients /\ owner'[m] = owner[m]
  BY <1>1, NewId, IdRange DEF Frames
(* Whatever a client still sends, it was in the list before.                *)
<1>4. ASSUME k \in DOMAIN owner, ListIsAllocated
      PROVE  \E j \in DOMAIN clients : clients[j].id = k
  <2>1. ASSUME parent_pc'[owner'[k]] # "gone" PROVE parent_pc[owner[k]] # "gone"
    BY <1>1, <1>3, <1>4, <2>1 DEF Frames, MovesOn
  <2>2. ASSUME NEW i \in DOMAIN s_queue', s_queue'[i].id = k
        PROVE  \/ parent_pc[owner[k]] # "gone"
               \/ \E n \in DOMAIN s_queue : s_queue[n].id = k
    <3>1. CASE UNCHANGED s_queue
      BY <2>2, <3>1
    <3>2. ASSUME NEW n \in DOMAIN s_queue, Taken(n)
          PROVE  \E m \in DOMAIN s_queue : s_queue[m].id = k
      BY <2>2, <3>2, TakenQueue
    <3>3. ASSUME NEW c \in Clients, NEW m \in Request, Added(c, m)
          PROVE  \/ parent_pc[owner[k]] # "gone"
                 \/ \E n \in DOMAIN s_queue : s_queue[n].id = k
      <4>1. CASE i \in DOMAIN s_queue
        BY <2>2, <3>3, <4>1, AddedQueue
      <4>2. CASE s_queue'[i] = m
        <5>1. CASE m.id = c_id[c]
          <6>1. k # 0 /\ owner[k] = c
            BY <1>4, <2>2, <4>2, <5>1, IdRange DEF Core, Owners
          <6>2. parent_pc[c] # "gone"
            BY <3>3 DEF Added
          <6> QED BY <6>1, <6>2
        <5>2. CASE m.id = 0
          BY <1>4, <2>2, <4>2, <5>2, IdRange
        <5> QED BY <3>3, <5>1, <5>2 DEF Added
      <4> QED BY <3>3, <4>1, <4>2, AddedQueue
    <3> QED BY <3>1, <3>2, <3>3, QueueStep
  <2> QED BY <1>2, <1>4, <2>1, <2>2 DEF Members, Registered
<1>5. CASE ServerInit
  <2>1. CASE k = Len(owner) + 1
    BY <1>5, <2>1, AppendedList
  <2>2. CASE k \in DOMAIN owner
    <3>1. ListIsAllocated
      BY <1>5, AppendedList DEF ListIsAllocated
    <3> QED BY <1>4, <1>5, <2>2, <3>1, AppendedList
  <2> QED BY <1>5, <2>1, <2>2, NewId
<1>6. CASE ~ServerInit
  <2>1. k \in DOMAIN owner
    BY <1>1, <1>6 DEF Frames
  <2>2. CASE Kept
    <3>1. ListIsAllocated
      BY <2>2 DEF Kept, ListIsAllocated
    <3> QED BY <1>4, <2>1, <2>2, <3>1 DEF Kept
  <2>3. ASSUME NEW i \in DOMAIN clients, Removed(i)
        PROVE  \E j \in DOMAIN clients' : clients'[j].id = k
    <3>1. /\ ServerStop /\ clients[i].id = Head(s_queue).id
          /\ \A n \in DOMAIN clients : n # i =>
               \E j \in DOMAIN clients' : clients'[j] = clients[n]
      BY <1>2, <2>3 DEF Removed, ListIsAllocated
    <3>2. Taking /\ Head(s_queue) = s_queue[1] /\ 1 \in DOMAIN s_queue
          /\ s_queue[1].type = "STOP"
      BY <3>1, TakingStep DEF Taking, ServerStop, Receive
    <3>3. s_queue[1].id \in DOMAIN owner /\ s_queue[1].id # 0
      BY <3>2, IdRange DEF Core, Letters, Knocking
    <3>4. ListIsAllocated
      BY <3>1, <3>2, <3>3 DEF ListIsAllocated, Freed
    <3>5. PICK n \in DOMAIN clients : clients[n].id = k
      BY <1>4, <2>1, <3>4
    <3>6. k # s_queue[1].id
      <4> SUFFICES ASSUME k = s_queue[1].id PROVE FALSE
        OBVIOUS
      <4>1. parent_pc[owner[k]] = "gone" /\ \A j \in DOMAIN s_queue : s_queue[j].id = k => j <= 1
        BY <3>2 DEF Members, LastWords
      <4>2. parent_pc'[owner'[k]] = "gone"
        BY <1>1, <1>3, <2>1, <4>1 DEF Frames, MovesOn
      <4>3. PICK j \in DOMAIN s_queue' : s_queue'[j].id = k
        BY <4>2
      <4>4. s_queue \in Seq(Request) /\ s_queue # <<>> /\ s_queue' = Tail(s_queue)
        BY <3>2, TakingStep DEF Core, Typed
      <4>5. /\ j \in 1 .. Len(s_queue) - 1 /\ Len(s_queue) \in Nat
            /\ DOMAIN s_queue = 1 .. Len(s_queue) /\ s_queue[j + 1].id = k
        BY <4>3, <4>4, TailRemoveAt
      <4>6. j + 1 \in DOMAIN s_queue /\ ~(j + 1 <= 1)
        BY <4>5
      <4> QED BY <4>1, <4>5, <4>6
    <3> QED BY <3>1, <3>2, <3>5, <3>6
  <2> QED BY <1>6, <2>2, <2>3, ListStep
<1> QED BY <1>5, <1>6

LEMMA MembersInit == Init => Members
BY DEF Init, Members, Distinct, LastWords, Registered

LEMMA MembersStep == ASSUME Core, Core', Members, [Next]_vars PROVE Members'
<1>1. Len(clients') <= Len(owner')
  <2>1. Len(clients) <= Len(owner) /\ Len(clients) \in Nat /\ Len(owner) \in Nat
    BY DEF Members, Core, Typed
  <2>2. CASE ServerInit
    <3>1. Len(clients') = Len(clients) + 1 /\ Len(owner') = Len(owner) + 1
      BY <2>2, AppendedList, NewId
    <3>2. Len(clients) + 1 <= Len(owner) + 1
      BY <2>1
    <3> QED BY <3>1, <3>2
  <2>3. CASE ~ServerInit
    <3>1. owner' = owner
      BY <2>3, StepFrames DEF Frames, Core
    <3>2. Len(clients') = Len(clients) \/ Len(clients') = Len(clients) - 1
      BY <2>3, ListStep DEF Kept, Removed
    <3>3. Len(clients) - 1 <= Len(owner)
      BY <2>1
    <3> QED BY <2>1, <3>1, <3>2, <3>3
  <2> QED BY <2>2, <2>3
<1> QED BY <1>1, DistinctStep, LastWordsStep, RegisteredStep DEF Members

(* As long as the list is sound, a client is in it exactly once from its    *)
(* INIT until its STOP is read.                                             *)
THEOREM MembersInvariant == Spec => []Members
<1>1. Members /\ Core /\ Core' /\ [Next]_vars => Members'
  BY MembersStep
<1> QED BY CoreInvariant, MembersInit, <1>1, PTL DEF Spec

LEMMA SendersKnown == ASSUME Core, Members PROVE KnownSender
<1> SUFFICES ASSUME server_pc \in {"receive", "send"}, ListIsAllocated,
                    NEW i \in DOMAIN s_queue, s_queue[i].type # "INIT"
             PROVE  \E j \in DOMAIN clients :
                      /\ Find(s_queue[i].id) = {j}
                      /\ c_id[clients[j].queue] = s_queue[i].id
  BY DEF KnownSender
<1> DEFINE k == s_queue[i].id
<1>1. k \in DOMAIN owner /\ c_id[owner[k]] = k /\ k # 0
  BY IdRange DEF Core, Letters, Knocking
<1>2. PICK j \in DOMAIN clients : clients[j].id = k
  BY <1>1 DEF Members, Registered
<1>3. clients[j].queue = owner[k]
  BY <1>1, <1>2 DEF Core, Listed, Freed
<1>4. Find(k) = {j}
  BY <1>1, <1>2 DEF Find, Members, Distinct
<1> QED BY <1>1, <1>2, <1>3, <1>4

(* Whoever sends the server anything but INIT is in the list under its own  *)
(* id when the message is read, and the list leads to its own queue.        *)
THEOREM SenderIsKnown == Spec => []KnownSender
<1>1. Core /\ Members => KnownSender
  BY SendersKnown
<1> QED BY <1>1, CoreInvariant, MembersInvariant, PTL

-----------------------------------------------------------------------------
(* A server that was interrupted leaves last                               *)

(* The STOPs.                                                               *)
Farewells == {m \in Request : m.type = "STOP"}

(* The ids of the clients that run.                                         *)
Live == {k \in DOMAIN owner : Alive(owner[k])}

(* There are at least as many nodes as clients that run or have said STOP.  *)
NodesLeft ==
  /\ Cardinality(Live) + Count(s_queue, Farewells) <= Len(clients)
  /\ server_pc = "gone" => Len(clients) = 0

LEMMA LiveType ==
  ASSUME Core
  PROVE  /\ IsFiniteSet(Live) /\ Cardinality(Live) \in Nat
         /\ Count(s_queue, Farewells) \in Nat /\ Len(clients) \in Nat
<1>1. DOMAIN owner = 1 .. Len(owner) /\ Len(owner) \in Nat
  BY IdRange
<1>2. IsFiniteSet(1 .. Len(owner))
  BY <1>1, FS_Interval
<1>3. IsFiniteSet(Live)
  BY <1>1, <1>2, FS_Subset DEF Live
<1>4. Count(s_queue, Farewells) \in Nat
  BY CountType DEF Core, Typed
<1> QED BY <1>3, <1>4, FS_CardinalityType DEF Core, Typed

LEMMA FarewellsStep ==
  ASSUME Core, [Next]_vars
  PROVE  LET n == Count(s_queue, Farewells) IN
         \/ /\ Count(s_queue', Farewells) = n - 1
            /\ AwaitStop \/ (Taking /\ Head(s_queue).type = "STOP")
         \/ /\ Count(s_queue', Farewells) = n
            /\ ~AwaitStop /\ ~ServerStop
         \/ /\ Count(s_queue', Farewells) = n + 1
            /\ \E c \in Clients : SendStop(c) /\ c_id[c] # 0 /\ parent_pc[c] = "bye"
<1> DEFINE n == Count(s_queue, Farewells)
<1>1. s_queue \in Seq(Request) /\ n \in Nat
  BY LiveType DEF Core, Typed
<1>2. CASE UNCHANGED s_queue
  <2>1. ~ServerStop
    <3>1. ASSUME ServerStop PROVE FALSE
      <4>1. s_queue # <<>> /\ s_queue' = Tail(s_queue)
        BY <3>1 DEF ServerStop, Receive
      <4> QED BY <1>1, <1>2, <4>1
    <3> QED BY <3>1
  <2>2. ~AwaitStop
    <3>1. ASSUME AwaitStop PROVE FALSE
      <4>1. PICK i \in Stops : s_queue' = RemoveAt(s_queue, i)
        BY <3>1 DEF AwaitStop
      <4>2. i \in DOMAIN s_queue
        BY DEF Stops
      <4>3. Len(s_queue') = Len(s_queue) - 1 /\ Len(s_queue) \in Nat
        BY <1>1, <4>1, <4>2, RemoveAtType
      <4>4. Len(s_queue) = Len(s_queue) - 1
        BY <1>2, <4>3
      <4> QED BY <4>3, <4>4
    <3> QED BY <3>1
  <2> QED BY <1>2, <2>1, <2>2
<1>3. ASSUME NEW i \in DOMAIN s_queue, Taken(i)
      PROVE  \/ /\ Count(s_queue', Farewells) = n - 1
                /\ AwaitStop \/ (Taking /\ Head(s_queue).type = "STOP")
             \/ /\ Count(s_queue', Farewells) = n
                /\ ~AwaitStop /\ ~ServerStop
  <2>1. Count(s_queue', Farewells) = n - (IF s_queue[i] \in Farewells THEN 1 ELSE 0)
    BY <1>1, <1>3, CountRemoveAt DEF Taken
  <2>2. s_queue[i] \in Farewells <=> s_queue[i].type = "STOP"
    BY <1>1 DEF Farewells
  <2>3. CASE AwaitStop /\ s_queue[i].type = "STOP"
    BY <1>1, <2>1, <2>2, <2>3
  <2>4. CASE Taking /\ i = 1 /\ s_queue[1] = Head(s_queue)
    <3>1. ~AwaitStop
      BY <2>4, TakingStep DEF AwaitStop
    <3>2. ServerStop => Head(s_queue).type = "STOP"
      BY DEF ServerStop, Receive
    <3> QED BY <1>1, <2>1, <2>2, <2>4, <3>1, <3>2
  <2> QED BY <1>3, <2>3, <2>4 DEF Taken
<1>4. ASSUME NEW c \in Clients, NEW m \in Request, Added(c, m)
      PROVE  \/ /\ Count(s_queue', Farewells) = n
                /\ ~AwaitStop /\ ~ServerStop
             \/ /\ Count(s_queue', Farewells) = n + 1
                /\ SendStop(c) /\ c_id[c] # 0 /\ parent_pc[c] = "bye"
  <2>1. Count(s_queue', Farewells) = n + (IF m \in Farewells THEN 1 ELSE 0)
    BY <1>1, <1>4, CountAppend DEF Added
  <2>2. m \in Farewells <=> m.type = "STOP"
    BY DEF Farewells
  <2>3. ~AwaitStop /\ ~ServerStop
    <3>1. Len(s_queue') = Len(s_queue) + 1 /\ Len(s_queue) \in Nat
      BY <1>4, AddedQueue
    <3>2. ASSUME AwaitStop \/ ServerStop PROVE FALSE
      <4>1. PICK i \in DOMAIN s_queue : s_queue' = RemoveAt(s_queue, i)
        BY <1>1, <3>2, TailRemoveAt DEF AwaitStop, Stops, ServerStop, Receive
      <4>2. Len(s_queue') = Len(s_queue) - 1
        BY <1>1, <4>1, RemoveAtType
      <4>3. Len(s_queue) + 1 = Len(s_queue) - 1
        BY <3>1, <4>2
      <4> QED BY <3>1, <4>3
    <3> QED BY <3>2
  <2>4. m.type = "STOP" => SendStop(c) /\ c_id[c] # 0 /\ parent_pc[c] = "bye"
    BY <1>4 DEF Added, Requests, Broadcasts
  <2> QED BY <1>1, <2>1, <2>2, <2>3, <2>4
<1> QED BY <1>2, <1>3, <1>4, QueueStep

LEMMA LiveStep ==
  ASSUME Core, [Next]_vars
  PROVE  /\ ServerInit => Live' \subseteq Live \cup {Len(owner) + 1}
         /\ ~ServerInit => Live' \subseteq Live
         /\ \A c \in Clients : SendStop(c) /\ c_id[c] # 0 /\ parent_pc[c] = "bye"
              => c_id[c] \in Live /\ c_id[c] \notin Live' /\ ~ServerInit
<1>1. Frames
  BY StepFrames DEF Core
<1>2. \A c \in Clients : Alive(c)' => Alive(c)
  BY <1>1 DEF Frames, MovesOn, Alive
<1>3. \A k \in DOMAIN owner : owner[k] \in Clients /\ owner'[k] = owner[k]
  BY <1>1, NewId, IdRange DEF Frames
<1>4. ASSUME NEW k \in Live', k \in DOMAIN owner PROVE k \in Live
  <2>1. parent_pc'[owner[k]] \notin {"gone", "dead"}
    BY <1>3, <1>4 DEF Live, Alive
  <2> QED BY <1>2, <1>3, <1>4, <2>1 DEF Live, Alive
<1>5. ServerInit => DOMAIN owner' \subseteq DOMAIN owner \cup {Len(owner) + 1}
  <2>1. ServerInit => /\ DOMAIN owner = 1 .. Len(owner) /\ DOMAIN owner' = 1 .. Len(owner) + 1
                      /\ Len(owner) \in Nat
    BY NewId
  <2> QED BY <2>1
<1>6. ~ServerInit => DOMAIN owner' = DOMAIN owner
  BY <1>1 DEF Frames
<1>7. ASSUME NEW c \in Clients, SendStop(c), c_id[c] # 0, parent_pc[c] = "bye"
      PROVE  c_id[c] \in Live /\ c_id[c] \notin Live' /\ ~ServerInit
  <2>1. c_id[c] \in DOMAIN owner /\ owner[c_id[c]] = c
    BY <1>7 DEF Core, Owners
  <2>2. parent_pc'[c] = "gone"
    BY <1>7 DEF SendStop, Goto, Core, Typed
  <2>3. ~ServerInit
    BY <1>7, <2>2 DEF ServerInit, Receive, client
  <2>4. owner'[c_id[c]] = c
    BY <1>3, <2>1
  <2> QED BY <1>7, <2>1, <2>2, <2>3, <2>4 DEF Live, Alive
<1> QED BY <1>4, <1>5, <1>6, <1>7 DEF Live

LEMMA NodesLeftStep == ASSUME Core, Core', NodesLeft, [Next]_vars PROVE NodesLeft'
<1> DEFINE l == Cardinality(Live)
           n == Count(s_queue, Farewells)
           s == Len(clients)
<1>1. l \in Nat /\ n \in Nat /\ s \in Nat /\ l + n <= s /\ IsFiniteSet(Live)
  BY LiveType DEF NodesLeft
<1>2. IsFiniteSet(Live') /\ Cardinality(Live') \in Nat
  <2>1. Core => IsFiniteSet(Live) /\ Cardinality(Live) \in Nat
    BY LiveType
  <2>2. (Core => IsFiniteSet(Live) /\ Cardinality(Live) \in Nat)'
    BY LiveType, PTL
  <2> QED BY <2>2
<1>3. ~ServerInit => Cardinality(Live') <= l
  BY <1>1, LiveStep, FS_Subset
<1>4. ASSUME ServerInit PROVE Cardinality(Live') <= l + 1
  <2>1. IsFiniteSet(Live \cup {Len(owner) + 1})
        /\ (\/ Cardinality(Live \cup {Len(owner) + 1}) = l
            \/ Cardinality(Live \cup {Len(owner) + 1}) = l + 1)
    BY <1>1, FS_AddElement
  <2>2. Cardinality(Live') <= Cardinality(Live \cup {Len(owner) + 1})
    BY <1>4, <2>1, LiveStep, FS_Subset
  <2> QED BY <1>1, <1>2, <2>1, <2>2
<1>5. Cardinality(Live') + Count(s_queue', Farewells) <= Len(clients')
  <2>1. CASE ServerInit
    <3>1. Head(s_queue).type = "INIT" /\ ~AwaitStop /\ \A c \in Clients : ~SendStop(c)
      BY <2>1, LiveStep DEF ServerInit, Receive, AwaitStop, SendStop, Running, client, Goto,
         Core, Typed
    <3>2. Count(s_queue', Farewells) = n
      BY <3>1, FarewellsStep
    <3>3. Len(clients') = s + 1
      BY <2>1, AppendedList
    <3>4. \A x \in Nat : x <= l + 1 => x + n <= s + 1
      BY <1>1
    <3> QED BY <1>2, <1>4, <2>1, <3>2, <3>3, <3>4
  <2>2. CASE AwaitStop \/ (Taking /\ Head(s_queue).type = "STOP")
    <3>1. Count(s_queue', Farewells) = n - 1 /\ ~ServerInit
      <4>1. ~ServerInit
        BY <2>2 DEF ServerInit, Receive, AwaitStop
      <4>2. \A c \in Clients : ~SendStop(c)
        BY <2>2, TakingStep DEF AwaitStop, SendStop, Running, client, Goto, Core, Typed
      <4>3. AwaitStop \/ ServerStop
        BY <2>2 DEF Taking, ServerInit, ServerEcho, ServerList, ServerFriends, ServerModify,
                    Server2Many, Server2One, Receive
      <4> QED BY <4>1, <4>2, <4>3, FarewellsStep
    <3>2. Len(clients') = s \/ Len(clients') = s - 1
      BY <3>1, ListStep DEF Kept, Removed
    <3>3. \A x \in Nat : x <= l => x + (n - 1) <= s - 1 /\ x + (n - 1) <= s
      BY <1>1
    <3> QED BY <1>2, <1>3, <3>1, <3>2, <3>3
  <2>3. CASE ~(AwaitStop \/ (Taking /\ Head(s_queue).type = "STOP")) /\ ~ServerInit
    <3>1. Len(clients') = s
      BY <2>3, ListStep DEF Kept, Removed, Taking, ServerStop, Receive
    <3>2. CASE Count(s_queue', Farewells) = n
      <4>1. \A x \in Nat : x <= l => x + n <= s
        BY <1>1
      <4> QED BY <1>2, <1>3, <2>3, <3>1, <3>2, <4>1
    <3>3. ASSUME Count(s_queue', Farewells) = n + 1,
                 NEW c \in Clients, SendStop(c), c_id[c] # 0, parent_pc[c] = "bye"
          PROVE  Cardinality(Live') + Count(s_queue', Farewells) <= Len(clients')
      <4>1. c_id[c] \in Live /\ Live' \subseteq Live \ {c_id[c]}
        BY <3>3, LiveStep
      <4>2. IsFiniteSet(Live \ {c_id[c]}) /\ Cardinality(Live \ {c_id[c]}) = l - 1
        BY <1>1, <4>1, FS_RemoveElement
      <4>3. Cardinality(Live') <= l - 1
        BY <4>1, <4>2, FS_Subset
      <4>4. \A x \in Nat : x <= l - 1 => x + (n + 1) <= s
        BY <1>1
      <4> QED BY <1>2, <3>1, <3>3, <4>3, <4>4
    <3> QED BY <2>3, <3>2, <3>3, FarewellsStep
  <2> QED BY <2>1, <2>2, <2>3
<1>6. server_pc' = "gone" => Len(clients') = 0
  <2>1. Frames
    BY StepFrames DEF Core
  <2>2. CASE Taking
    BY <2>2, TakingStep DEF TakingSends, Answered
  <2>3. CASE ServerSend
    BY <2>3, SendStep
  <2>4. CASE ServerInterrupt \/ StopClient \/ AwaitStop
    BY <2>4 DEF ServerInterrupt, StopClient, AwaitStop
  <2>5. CASE RemoveServerQueue
    BY <2>5 DEF RemoveServerQueue
  <2>6. CASE ~Taking /\ ~AwaitStop /\ UNCHANGED server_pc
    BY <2>1, <2>6 DEF NodesLeft, Frames, Taking
  <2> QED BY <2>1, <2>2, <2>3, <2>4, <2>5, <2>6 DEF Frames
<1> QED BY <1>5, <1>6 DEF NodesLeft

LEMMA NodesLeftInit == Init => NodesLeft
<1> SUFFICES ASSUME Init PROVE NodesLeft
  OBVIOUS
<1>1. Live = {} /\ Cardinality({}) = 0
  BY FS_EmptySet DEF Init, Live
<1>2. Count(s_queue, Farewells) = 0
  BY CountNone DEF Init
<1>3. Len(clients) = 0 /\ server_pc # "gone"
  BY DEF Init
<1> QED BY <1>1, <1>2, <1>3 DEF NodesLeft

(* stop() and cleanup take no node from the list that is not paid for with  *)
(* the STOP of some client.                                                 *)
THEOREM NodesLeftInvariant == Spec => []NodesLeft
<1>1. NodesLeft /\ Core /\ Core' /\ [Next]_vars => NodesLeft'
  BY NodesLeftStep
<1> QED BY CoreInvariant, NodesLeftInit, <1>1, PTL DEF Spec

(* A server that was interrupted ends after every client that has its id.   *)
THEOREM LeavesLast == Spec => []ServerLeavesLast
<1>1. Core /\ NodesLeft => ServerLeavesLast
  <2> SUFFICES ASSUME Core, NodesLeft, server_pc = "gone",
                      NEW c \in Clients, c_id[c] # 0, Alive(c)
               PROVE  FALSE
    BY DEF ServerLeavesLast
  <2>1. c_id[c] \in Live
    BY DEF Core, Owners, Live
  <2>2. /\ IsFiniteSet(Live) /\ Cardinality(Live) \in Nat
        /\ Count(s_queue, Farewells) \in Nat
        /\ Cardinality(Live) + Count(s_queue, Farewells) <= 0
    BY LiveType DEF NodesLeft
  <2>3. Cardinality(Live) = 0
    BY <2>2
  <2> QED BY <2>1, <2>2, <2>3, FS_EmptySet
<1> QED BY <1>1, CoreInvariant, NodesLeftInvariant, PTL

-----------------------------------------------------------------------------
(* The types of the run, and the accounts they need                        *)

(* What a client counts as an answer.                                       *)
Answers == {m \in Reply : m.type \in {"ECHO", "LIST"}}

AnswersTo(c) == {e \in Entry : e.to = c /\ e.msg \in Answers}

RequestsOf(k) == {m \in Request : m.type \in Requests /\ m.id = k}

(* Of what a client has asked for: the answers it has still to read, those  *)
(* still to be sent, and the requests still to be read.                     *)
Unheard(c) == Count(c_queue[c], Answers)

Due(c) == Count(outbox, AnswersTo(c))

Unread(c) == IF c_id[c] = 0 THEN 0 ELSE Count(s_queue, RequestsOf(c_id[c]))

(* No answer without a request.                                             *)
Accounts ==
  \A c \in Clients :
    /\ answered[c] + Unheard(c) + Due(c) + Unread(c) <= asked[c]
    /\ asked[c] <= typed

LEMMA AccountsType ==
  Core => \A c \in Clients :
            /\ Unheard(c) \in Nat /\ Due(c) \in Nat /\ Unread(c) \in Nat
            /\ answered[c] \in Nat /\ asked[c] \in Nat /\ typed \in Nat
<1> SUFFICES ASSUME Core, NEW c \in Clients
             PROVE  /\ Unheard(c) \in Nat /\ Due(c) \in Nat /\ Unread(c) \in Nat
                    /\ answered[c] \in Nat /\ asked[c] \in Nat /\ typed \in Nat
  OBVIOUS
<1>1. /\ c_queue[c] \in Seq(Reply) /\ outbox \in Seq(Entry) /\ s_queue \in Seq(Request)
      /\ answered[c] \in Nat /\ asked[c] \in Nat /\ typed \in Nat
  BY ArgumentsAssumption DEF Core, Typed
<1>2. Unheard(c) \in Nat
  BY <1>1, CountType DEF Unheard
<1>3. Due(c) \in Nat
  BY <1>1, CountType DEF Due
<1>4. Unread(c) \in Nat
  BY <1>1, CountType DEF Unread
<1> QED BY <1>1, <1>2, <1>3, <1>4

(* Only a client's child counts answers, only its parent counts requests.   *)
LEMMA CountersStep ==
  ASSUME Core, [Next]_vars, NEW c \in Clients
  PROVE  /\ answered'[c] = answered[c] \/ ChildReceive(c)
         /\ \/ asked'[c] = asked[c] /\ typed' = typed
            \/ \E d \in Clients : SendCommand(d)
<1>1. CASE ServerStep \/ ServerInterrupt \/ UNCHANGED vars
  BY <1>1, TakingStep, SendStep DEF ServerStep, Taking, StopClient, AwaitStop,
       RemoveServerQueue, ServerInterrupt, client, vars
<1>2. ASSUME NEW d \in Clients,
             \/ OpenQueues(d) \/ SendInit(d) \/ AwaitId(d) \/ Register(d) \/ KillChild(d)
             \/ RemoveQueue(d) \/ SendStop(d) \/ HandleUSR1(d) \/ Leave(d) \/ HandleINT(d)
             \/ ChildSignals(d)
      PROVE  UNCHANGED <<typed, asked, answered>>
  BY <1>2 DEF OpenQueues, SendInit, AwaitId, Register, KillChild, RemoveQueue, SendStop,
              HandleUSR1, Leave, HandleINT, ChildSignals
<1>3. ASSUME NEW d \in Clients, SendCommand(d) PROVE UNCHANGED answered
  BY <1>3 DEF SendCommand
<1>4. ASSUME NEW d \in Clients, ChildReceive(d)
      PROVE  UNCHANGED <<typed, asked>> /\ (d # c => answered'[c] = answered[c])
  BY <1>4 DEF ChildReceive, Core, Typed
<1> QED BY <1>1, <1>2, <1>3, <1>4 DEF Next, ParentStep, ChildStep, UserStep

(* A message is taken from the server's queue: the requests of the others   *)
(* stay, and the answer to one of c's own takes its place.                  *)
LEMMA TakingAccounts ==
  ASSUME Core, Taking, NEW c \in Clients
  PROVE  /\ Unheard(c)' = Unheard(c) /\ Due(c) = 0
         /\ \/ Due(c)' = 0 /\ (Unread(c)' = Unread(c) \/ Unread(c)' = Unread(c) - 1)
            \/ Due(c)' = 1 /\ Unread(c)' = Unread(c) - 1
<1>1. /\ TakingSends /\ outbox = <<>> /\ s_queue # <<>> /\ Head(s_queue) = s_queue[1]
      /\ 1 \in DOMAIN s_queue /\ UNCHANGED <<c_queue, c_id>> /\ s_queue' = Tail(s_queue)
      /\ s_queue \in Seq(Request) /\ Head(s_queue) \in Request
  BY TakingStep, TailRemoveAt DEF Core, Typed
<1>2. Unheard(c)' = Unheard(c)
  BY <1>1 DEF Unheard
<1>3. Due(c) = 0
  BY <1>1, CountNone DEF Due
<1>4. /\ Unread(c) \in Nat
      /\ Unread(c)' = Unread(c)
           - (IF c_id[c] # 0 /\ Head(s_queue) \in RequestsOf(c_id[c]) THEN 1 ELSE 0)
  <2>1. CASE c_id[c] = 0
    BY <1>1, <2>1 DEF Unread
  <2>2. CASE c_id[c] # 0
    <3>1. Count(s_queue, RequestsOf(c_id[c])) \in Nat
      BY <1>1, CountType
    <3>2. Count(Tail(s_queue), RequestsOf(c_id[c])) = Count(s_queue, RequestsOf(c_id[c]))
            - (IF Head(s_queue) \in RequestsOf(c_id[c]) THEN 1 ELSE 0)
      BY <1>1, CountTail
    <3> QED BY <1>1, <2>2, <3>1, <3>2 DEF Unread
  <2> QED BY <2>1, <2>2
<1>5. CASE \A i \in DOMAIN outbox' : outbox'[i] \notin AnswersTo(c)
  <2>1. Due(c)' = 0
    BY <1>5, CountNone DEF Due
  <2> QED BY <1>2, <1>3, <1>4, <2>1
<1>6. ASSUME NEW k \in DOMAIN owner, NEW type \in {"ECHO", "LIST"}, k = Head(s_queue).id,
             Head(s_queue).type \in Requests, owner[k] = c,
             outbox' = <<[to |-> owner[k], msg |-> Message(type)]>>
      PROVE  Due(c)' = 1 /\ Unread(c)' = Unread(c) - 1
  <2>1. c_id[c] = k /\ k # 0
    BY <1>1, <1>6, IdRange DEF Core, Letters, Knocking, Requests
  <2>2. Head(s_queue) \in RequestsOf(c_id[c])
    BY <1>1, <1>6, <2>1 DEF RequestsOf
  <2>3. Unread(c)' = Unread(c) - 1
    BY <1>4, <2>1, <2>2
  <2> DEFINE e == [to |-> c, msg |-> Message(type)]
  <2>4. e \in AnswersTo(c)
    BY DEF AnswersTo, Entry, Answers, Message, Reply
  <2>5. outbox' = <<e>>
    BY <1>6
  <2> HIDE DEF e
  <2>6. Due(c)' = 1
    BY <2>4, <2>5, CountOne DEF Due
  <2> QED BY <2>3, <2>6
<1>7. ASSUME NEW k \in DOMAIN owner, NEW type \in {"ECHO", "LIST"}, k = Head(s_queue).id,
             Head(s_queue).type \in Requests,
             outbox' = <<[to |-> owner[k], msg |-> Message(type)]>>
      PROVE  \/ \A i \in DOMAIN outbox' : outbox'[i] \notin AnswersTo(c)
             \/ Due(c)' = 1 /\ Unread(c)' = Unread(c) - 1
  <2>1. CASE owner[k] = c
    BY <1>6, <1>7, <2>1
  <2>2. CASE owner[k] # c
    <3>1. \A i \in DOMAIN outbox' : outbox'[i].to = owner[k]
      BY <1>7
    <3> QED BY <2>2, <3>1 DEF AnswersTo
  <2> QED BY <2>1, <2>2
<1>8. ASSUME NEW to, NEW m, m.type \in {"ID", "2ONE"}, outbox' = <<[to |-> to, msg |-> m]>>
      PROVE  \A i \in DOMAIN outbox' : outbox'[i] \notin AnswersTo(c)
  BY <1>8 DEF AnswersTo, Answers
<1>9. ASSUME \A i \in DOMAIN outbox' : outbox'[i].msg = Message("2MANY")
      PROVE  \A i \in DOMAIN outbox' : outbox'[i] \notin AnswersTo(c)
  BY <1>9 DEF AnswersTo, Answers, Message
<1>10. \A type : Message(type).type = type
  BY DEF Message
<1> QED BY <1>1, <1>2, <1>3, <1>5, <1>7, <1>8, <1>9, <1>10 DEF TakingSends, Answered

(* A send: an answer of c's goes from the outbox to its queue, or is lost.  *)
LEMMA SendAccounts ==
  ASSUME Core, ServerSend, NEW c \in Clients
  PROVE  /\ Unread(c)' = Unread(c)
         /\ \/ Due(c)' = Due(c) - 1 /\ Unheard(c)' = Unheard(c) + 1
            \/ Unheard(c)' = Unheard(c) /\ Due(c)' \in {Due(c), Due(c) - 1, 0}
<1> DEFINE e == Head(outbox)
<1>1. outbox # <<>> /\ outbox \in Seq(Entry) /\ e \in Entry
      /\ c_queue \in [Clients -> Seq(Reply)] /\ c_queue[c] \in Seq(Reply)
  BY SendStep DEF Core, Typed
<1>2. Unread(c)' = Unread(c)
  BY SendStep DEF Unread, client
<1>3. /\ Due(c) \in Nat /\ Unheard(c) \in Nat
      /\ Count(Tail(outbox), AnswersTo(c)) = Due(c) - (IF e \in AnswersTo(c) THEN 1 ELSE 0)
  BY <1>1, CountTail, AccountsType DEF Due
<1>4. CASE outbox' = <<>> /\ UNCHANGED c_queue
  BY <1>2, <1>4, CountNone DEF Due, Unheard
<1>5. CASE outbox' = Tail(outbox) /\ UNCHANGED c_queue
  BY <1>2, <1>3, <1>5 DEF Due, Unheard
<1>6. CASE /\ e.to \in Clients
           /\ c_queue' = [c_queue EXCEPT ![e.to] = Append(@, e.msg)]
           /\ outbox' = Tail(outbox)
  <2>1. Due(c)' = Due(c) - (IF e \in AnswersTo(c) THEN 1 ELSE 0)
    BY <1>3, <1>6 DEF Due
  <2>2. CASE e.to = c
    <3>1. c_queue'[c] = Append(c_queue[c], e.msg) /\ e.msg \in Reply
      BY <1>1, <1>6, <2>2 DEF Entry
    <3>2. Unheard(c)' = Unheard(c) + (IF e.msg \in Answers THEN 1 ELSE 0)
      BY <1>1, <3>1, CountAppend DEF Unheard
    <3>3. e \in AnswersTo(c) <=> e.msg \in Answers
      BY <1>1, <2>2 DEF AnswersTo
    <3> QED BY <1>2, <1>3, <2>1, <3>2, <3>3
  <2>3. CASE e.to # c
    <3>1. c_queue'[c] = c_queue[c] /\ e \notin AnswersTo(c)
      BY <1>1, <1>6, <2>3 DEF AnswersTo
    <3> QED BY <1>2, <1>3, <2>1, <3>1 DEF Unheard
  <2> QED BY <2>2, <2>3
<1> HIDE DEF e
<1> QED BY <1>4, <1>5, <1>6, SendStep DEF e

(* The requests of c in the server's queue: added when c asks, none when c  *)
(* gets its id.                                                             *)
LEMMA UnreadStep ==
  ASSUME Core, [Next]_vars, NEW c \in Clients, ~Taking
  PROVE  \/ Unread(c)' = Unread(c) /\ (\/ asked'[c] = asked[c] /\ typed' = typed
                                       \/ asked'[c] = asked[c] /\ typed' = typed + 1)
         \/ /\ SendCommand(c)
            /\ Unread(c)' = Unread(c) + 1 /\ asked'[c] = asked[c] + 1 /\ typed' = typed + 1
<1>1. s_queue \in Seq(Request) /\ asked \in [Clients -> Nat]
  BY DEF Core, Typed
<1>2. c_id'[c] # c_id[c] => /\ c_id[c] = 0 /\ c_id'[c] # 0 /\ AwaitId(c) /\ UNCHANGED owner
                            /\ c_id'[c] \in DOMAIN owner /\ owner[c_id'[c]] = c
  BY IdsStep
<1>3. ASSUME AwaitId(c) PROVE Unread(c)' = 0 /\ Unread(c) = 0
  <2>1. PICK k \in DOMAIN owner : k # 0 /\ owner[k] = c /\ c_id'[c] = k /\ c_id[c] = 0
    BY <1>3, FirstMail DEF Core, Typed
  <2>2. s_queue' = s_queue
    BY <1>3 DEF AwaitId
  <2>3. \A i \in DOMAIN s_queue : s_queue[i] \notin RequestsOf(k)
    BY <2>1 DEF Core, Letters, Knocking, RequestsOf, Requests
  <2>4. Count(s_queue, RequestsOf(k)) = 0
    BY <2>3, CountNone
  <2> QED BY <2>1, <2>2, <2>4 DEF Unread
<1>4. ~AwaitId(c) => c_id'[c] = c_id[c]
  BY <1>2
<1>5. ASSUME NEW d \in Clients, NEW m \in Request, Added(d, m)
      PROVE  /\ c_id'[c] = c_id[c]
             /\ c_id[c] # 0 =>
                  /\ Count(s_queue, RequestsOf(c_id[c])) \in Nat
                  /\ Count(s_queue', RequestsOf(c_id[c])) = Count(s_queue, RequestsOf(c_id[c]))
                       + (IF m \in RequestsOf(c_id[c]) THEN 1 ELSE 0)
  <2>1. c_id' = c_id /\ s_queue' = Append(s_queue, m)
    BY <1>5 DEF Added
  <2> QED BY <1>1, <2>1, CountAppend, CountType
<1>6. ASSUME NEW d \in Clients, SendCommand(d)
      PROVE  \/ Unread(c)' = Unread(c) /\ asked'[c] = asked[c] /\ typed' = typed + 1
             \/ /\ SendCommand(c)
                /\ Unread(c)' = Unread(c) + 1 /\ asked'[c] = asked[c] + 1 /\ typed' = typed + 1
  <2>1. typed' = typed + 1 /\ c_id' = c_id
    BY <1>6 DEF SendCommand
  <2>2. CASE UNCHANGED <<s_queue, asked>>
    BY <2>1, <2>2 DEF Unread
  <2>3. ASSUME NEW type \in Commands, NEW args \in SUBSET Named,
               s_queue' = Append(s_queue, [type |-> type, id |-> c_id[d],
                                           queue |-> Nobody, args |-> args]),
               asked' = IF type \in Requests THEN [asked EXCEPT ![d] = @ + 1] ELSE asked
        PROVE  \/ Unread(c)' = Unread(c) /\ asked'[c] = asked[c]
               \/ /\ SendCommand(c)
                  /\ Unread(c)' = Unread(c) + 1 /\ asked'[c] = asked[c] + 1
    <3> DEFINE m == [type |-> type, id |-> c_id[d], queue |-> Nobody, args |-> args]
    <3>1. m \in Request /\ m.type = type /\ m.id = c_id[d]
      BY ArgumentsAssumption, IdRange DEF Request, Id
    <3>2. s_queue' = Append(s_queue, m)
      BY <2>3
    <3> HIDE DEF m
    <3>3. /\ Count(s_queue, RequestsOf(c_id[c])) \in Nat
          /\ Count(s_queue', RequestsOf(c_id[c])) = Count(s_queue, RequestsOf(c_id[c]))
               + (IF m \in RequestsOf(c_id[c]) THEN 1 ELSE 0)
      BY <1>1, <3>1, <3>2, CountAppend, CountType
    <3>4. c_id[d] # 0 /\ owner[c_id[d]] = d
      BY <1>6 DEF SendCommand, Running, Core, Control, Owners
    <3>5. c_id[c] # 0 => owner[c_id[c]] = c
      BY DEF Core, Owners
    <3>6. CASE c = d
      <4>1. m \in RequestsOf(c_id[c]) <=> type \in Requests
        BY <3>1, <3>6 DEF RequestsOf
      <4>2. CASE type \in Requests
        <5>1. Unread(c)' = Unread(c) + 1
          BY <2>1, <3>3, <3>4, <3>6, <4>1, <4>2 DEF Unread
        <5>2. asked'[c] = asked[c] + 1
          BY <1>1, <2>3, <3>6, <4>2
        <5> QED BY <1>6, <3>6, <5>1, <5>2
      <4>3. CASE type \notin Requests
        <5>1. Unread(c)' = Unread(c)
          BY <2>1, <3>3, <3>4, <3>6, <4>1, <4>3 DEF Unread
        <5> QED BY <2>3, <4>3, <5>1
      <4> QED BY <4>2, <4>3
    <3>7. CASE c # d
      <4>1. c_id[c] # 0 => m \notin RequestsOf(c_id[c])
        BY <3>1, <3>4, <3>5, <3>7 DEF RequestsOf
      <4>2. Unread(c)' = Unread(c)
        BY <2>1, <3>3, <4>1 DEF Unread
      <4>3. asked'[c] = asked[c]
        BY <1>1, <2>3, <3>7
      <4> QED BY <4>2, <4>3
    <3> QED BY <3>6, <3>7
  <2>4. \/ UNCHANGED <<s_queue, asked>>
        \/ \E type \in Commands, args \in SUBSET Named :
             /\ s_queue' = Append(s_queue, [type |-> type, id |-> c_id[d],
                                            queue |-> Nobody, args |-> args])
             /\ asked' = IF type \in Requests THEN [asked EXCEPT ![d] = @ + 1] ELSE asked
    BY <1>6 DEF SendCommand
  <2> QED BY <2>1, <2>2, <2>3, <2>4
<1>7. ASSUME \A d \in Clients : ~SendCommand(d)
      PROVE  Unread(c)' = Unread(c) /\ asked'[c] = asked[c] /\ typed' = typed
  <2>1. asked'[c] = asked[c] /\ typed' = typed
    BY <1>7, CountersStep
  <2>2. CASE AwaitId(c)
    BY <1>3, <2>1, <2>2
  <2>3. CASE ~AwaitId(c) /\ UNCHANGED s_queue
    BY <1>4, <2>1, <2>3 DEF Unread
  <2>4. ASSUME NEW d \in Clients, NEW m \in Request, Added(d, m)
        PROVE  Unread(c)' = Unread(c)
    <3>1. m \notin RequestsOf(c_id[c])
      BY <1>7, <2>4 DEF Added, RequestsOf, Requests
    <3> QED BY <1>5, <2>4, <3>1 DEF Unread
  <2>5. ASSUME NEW i \in DOMAIN s_queue, Taken(i), ~AwaitId(c)
        PROVE  Unread(c)' = Unread(c)
    <3>1. s_queue' = RemoveAt(s_queue, i) /\ s_queue[i].type = "STOP"
      BY <2>5 DEF Taken
    <3>2. s_queue[i] \notin RequestsOf(c_id[c])
      BY <3>1 DEF RequestsOf, Requests
    <3>3. /\ Count(s_queue, RequestsOf(c_id[c])) \in Nat
          /\ Count(s_queue', RequestsOf(c_id[c])) = Count(s_queue, RequestsOf(c_id[c])) - 0
      BY <1>1, <3>1, <3>2, CountRemoveAt, CountType
    <3> QED BY <1>4, <2>5, <3>3 DEF Unread
  <2> QED BY <2>1, <2>2, <2>3, <2>4, <2>5, QueueStep
<1> QED BY <1>6, <1>7

(* The answers in c's own queue: all gone when it is removed, one fewer     *)
(* when the child has counted it.                                           *)
LEMMA UnheardStep ==
  ASSUME Core, [Next]_vars, NEW c \in Clients, ~ServerSend
  PROVE  \/ answered'[c] = answered[c] /\ Unheard(c)' \in {Unheard(c), Unheard(c) - 1, 0}
         \/ answered'[c] = answered[c] + 1 /\ Unheard(c)' = Unheard(c) - 1
<1>1. c_queue[c] \in Seq(Reply) /\ answered \in [Clients -> Nat] /\ Unheard(c) \in Nat
  BY AccountsType DEF Core, Typed
<1>2. answered'[c] = answered[c] \/ ChildReceive(c)
  BY CountersStep
<1>3. CASE ChildReceive(c)
  <2>1. /\ c_queue[c] # <<>> /\ c_queue'[c] = Tail(c_queue[c])
        /\ answered'[c] = IF Head(c_queue[c]).type \in {"ECHO", "LIST"}
                            THEN answered[c] + 1 ELSE answered[c]
    BY <1>1, <1>3 DEF ChildReceive, Core, Typed
  <2>2. Head(c_queue[c]) \in Reply
    BY <1>1, <2>1, TailRemoveAt
  <2>3. Head(c_queue[c]) \in Answers <=> Head(c_queue[c]).type \in {"ECHO", "LIST"}
    BY <2>2 DEF Answers
  <2>4. Unheard(c)' = Unheard(c) - (IF Head(c_queue[c]) \in Answers THEN 1 ELSE 0)
    BY <1>1, <2>1, CountTail DEF Unheard
  <2> QED BY <1>1, <2>1, <2>3, <2>4
<1>4. CASE c_queue'[c] = c_queue[c] /\ ~ChildReceive(c)
  BY <1>2, <1>4 DEF Unheard
<1>5. ASSUME NEW m \in Reply, Delivered(c, m), ~ChildReceive(c)
      PROVE  Unheard(c)' = Unheard(c)
  <2>1. c_queue'[c] = Append(c_queue[c], m) /\ m.type = "STOP"
    BY <1>5 DEF Delivered, Message
  <2>2. m \notin Answers
    BY <2>1 DEF Answers
  <2>3. Unheard(c)' = Unheard(c) + 0
    BY <1>1, <2>1, <2>2, CountAppend DEF Unheard
  <2> QED BY <1>1, <2>3
<1>6. ASSUME NEW i \in DOMAIN c_queue[c], Read(c, i)
      PROVE  Unheard(c)' \in {Unheard(c), Unheard(c) - 1}
  <2>1. Unheard(c)' = Unheard(c) - (IF c_queue[c][i] \in Answers THEN 1 ELSE 0)
    BY <1>1, <1>6, CountRemoveAt DEF Unheard, Read
  <2> QED BY <1>1, <2>1
<1>7. ASSUME c_queue'[c] = <<>> PROVE Unheard(c)' = 0
  <2>1. Count(<<>>, Answers) = 0
    BY CountNone
  <2> QED BY <1>7, <2>1 DEF Unheard
<1> QED BY <1>2, <1>3, <1>4, <1>5, <1>6, <1>7, MailStep

LEMMA AccountsStep == ASSUME Core, Core', Accounts, [Next]_vars PROVE Accounts'
<1>1. Frames
  BY StepFrames DEF Core
<1> SUFFICES ASSUME NEW c \in Clients
             PROVE  /\ answered'[c] + Unheard(c)' + Due(c)' + Unread(c)' <= asked'[c]
                    /\ asked'[c] <= typed'
  BY DEF Accounts
<1> DEFINE a == answered[c]
           r == Unheard(c)
           d == Due(c)
           u == Unread(c)
           n == asked[c]
<1>2. /\ r \in Nat /\ d \in Nat /\ u \in Nat /\ a \in Nat /\ n \in Nat /\ typed \in Nat
      /\ a + r + d + u <= n /\ n <= typed
  BY AccountsType DEF Accounts
<1>3. CASE Taking
  <2>1. answered'[c] = a /\ asked'[c] = n /\ typed' = typed
    BY <1>3, TakingStep
  <2>2. /\ Unheard(c)' = r /\ d = 0
        /\ \/ Due(c)' = 0 /\ (Unread(c)' = u \/ Unread(c)' = u - 1)
           \/ Due(c)' = 1 /\ Unread(c)' = u - 1
    BY <1>3, TakingAccounts
  <2> HIDE DEF a, r, d, u, n
  <2>3. /\ d = 0 => a + r + 0 + u <= n /\ a + r + 0 + (u - 1) <= n
        /\ a + r + 1 + (u - 1) <= n
    BY <1>2
  <2> QED BY <1>2, <2>1, <2>2, <2>3
<1>4. CASE ServerSend
  <2>1. answered'[c] = a /\ asked'[c] = n /\ typed' = typed /\ Unread(c)' = u
    BY <1>4, SendStep, SendAccounts DEF client
  <2>2. \/ Due(c)' = d - 1 /\ Unheard(c)' = r + 1
        \/ Unheard(c)' = r /\ Due(c)' \in {d, d - 1, 0}
    BY <1>4, SendAccounts
  <2> HIDE DEF a, r, d, u, n
  <2>3. a + (r + 1) + (d - 1) + u <= n /\ a + r + (d - 1) + u <= n /\ a + r + 0 + u <= n
    BY <1>2
  <2> QED BY <1>2, <2>1, <2>2, <2>3
<1>5. CASE ~Taking /\ ~ServerSend
  <2>1. Due(c)' = d \/ Due(c)' = 0
    <3>1. CASE outbox' = outbox
      BY <3>1 DEF Due
    <3>2. CASE outbox' = <<>>
      BY <3>2, CountNone DEF Due
    <3> QED BY <1>1, <1>5, <3>1, <3>2 DEF Frames, ServerInterrupt
  <2>2. \/ Unread(c)' = u /\ asked'[c] = n /\ (typed' = typed \/ typed' = typed + 1)
        \/ SendCommand(c) /\ Unread(c)' = u + 1 /\ asked'[c] = n + 1 /\ typed' = typed + 1
    BY <1>5, UnreadStep
  <2>3. \/ answered'[c] = a /\ Unheard(c)' \in {r, r - 1, 0}
        \/ answered'[c] = a + 1 /\ Unheard(c)' = r - 1
    BY <1>5, UnheardStep
  <2> HIDE DEF a, r, d, u, n
  <2>4. \A x \in {d, 0} :
          /\ a + r + x + u <= n /\ a + (r - 1) + x + u <= n
          /\ a + 0 + x + u <= n /\ (a + 1) + (r - 1) + x + u <= n
          /\ a + r + x + (u + 1) <= n + 1 /\ a + (r - 1) + x + (u + 1) <= n + 1
          /\ a + 0 + x + (u + 1) <= n + 1 /\ (a + 1) + (r - 1) + x + (u + 1) <= n + 1
    BY <1>2
  <2>5. n <= typed + 1 /\ n + 1 <= typed + 1
    BY <1>2
  <2>6. Due(c)' \in {d, 0}
    BY <2>1
  <2> QED BY <1>2, <2>2, <2>3, <2>4, <2>5, <2>6
<1> QED BY <1>3, <1>4, <1>5

LEMMA AccountsInit == Init => Accounts
<1> SUFFICES ASSUME Init, NEW c \in Clients
             PROVE  answered[c] + Unheard(c) + Due(c) + Unread(c) <= asked[c] /\ asked[c] <= typed
  BY DEF Accounts
<1>1. Unheard(c) = 0 /\ Due(c) = 0 /\ Unread(c) = 0
  BY CountNone DEF Init, Unheard, Due, Unread
<1> QED BY <1>1 DEF Init

(* A client is never given more answers than it has asked for.              *)
THEOREM AccountsInvariant == Spec => []Accounts
<1>1. Accounts /\ Core /\ Core' /\ [Next]_vars => Accounts'
  BY AccountsStep
<1> QED BY CoreInvariant, AccountsInit, <1>1, PTL DEF Spec

(* The types of the variables, and the bounds: the queues hold no more than *)
(* they can, there are no more ids and nodes than clients, and no client is *)
(* answered more often than it has asked.                                   *)
THEOREM TypesHold == Spec => []TypeOK
<1>1. Core /\ Members /\ Accounts => TypeOK
  <2> SUFFICES ASSUME Core, Members, Accounts PROVE TypeOK
    OBVIOUS
  <2>1. Typed
    BY DEF Core
  <2>2. Len(owner) \in Nat /\ Len(owner) <= Cardinality(Clients) /\ Len(clients) \in Nat
    BY FewOwners DEF Core, Typed, Owners
  <2>3. /\ Len(clients) <= Cardinality(Clients)
        /\ clients_id_autoincrement \in 1 .. Cardinality(Clients) + 1
    BY <2>1, <2>2, ArgumentsAssumption, SMTT(30) DEF Members, Typed
  <2>4. \A i \in DOMAIN outbox :
          outbox[i].to \in Clients \cup {Nobody} /\ outbox[i].msg \in Reply
    <3>1. \A i \in DOMAIN outbox : outbox[i] \in Entry
      BY <2>1 DEF Typed
    <3> QED BY <3>1 DEF Entry
  <2>5. c_id \in [Clients -> Id \cup {0}]
    BY <2>1, IdRange DEF Typed
  <2>6. ASSUME NEW c \in Clients
        PROVE  asked[c] \in 0 .. MaxCommands /\ answered[c] \in 0 .. MaxCommands
    <3>1. /\ Unheard(c) \in Nat /\ Due(c) \in Nat /\ Unread(c) \in Nat
          /\ answered[c] \in Nat /\ asked[c] \in Nat
          /\ answered[c] + Unheard(c) + Due(c) + Unread(c) <= asked[c] /\ asked[c] <= typed
      BY AccountsType DEF Accounts
    <3>2. typed \in 0 .. MaxCommands /\ MaxCommands \in Nat
      BY <2>1, ArgumentsAssumption DEF Typed
    <3> QED BY <3>1, <3>2
  <2>7. /\ asked \in [Clients -> 0 .. MaxCommands]
        /\ answered \in [Clients -> 0 .. MaxCommands]
    BY <2>1, <2>6 DEF Typed
  <2>8. \A c \in Clients : c_queue[c] \in Seq(Reply) /\ Len(c_queue[c]) <= Capacity
    BY <2>1 DEF Typed
  <2> QED BY <2>1, <2>3, <2>4, <2>5, <2>7, <2>8 DEF TypeOK, Typed
<1> QED BY <1>1, CoreInvariant, MembersInvariant, AccountsInvariant, PTL

-----------------------------------------------------------------------------
(* The failures of the server                                              *)

LEMMA FailsStep ==
  ASSUME Core, KnownSender, Accounts, FailsOnlyForTheDeparted, [Next]_vars
  PROVE  FailsOnlyForTheDeparted'
<1> SUFFICES ASSUME server_pc' = "failed", ListIsAllocated'
             PROVE  \E c \in Clients : ~c_open'[c] /\ c_id'[c] # 0 /\ asked'[c] > answered'[c]
  BY DEF FailsOnlyForTheDeparted
<1>1. Frames
  BY StepFrames DEF Core
(* A handler does not fail to find the sender of a message.                 *)
<1>2. ASSUME Taking PROVE FALSE
  <2>1. /\ Find(Head(s_queue).id) = {} /\ Head(s_queue).type \in Requests
        /\ Head(s_queue) = s_queue[1] /\ 1 \in DOMAIN s_queue /\ server_pc = "receive"
    BY <1>2, TakingStep DEF TakingSends, Answered
  <2>2. ~ServerInit /\ ~ServerStop /\ ~AwaitStop
    BY <2>1 DEF ServerInit, ServerStop, Receive, AwaitStop, Requests
  <2>3. Kept
    BY <2>2, ListStep DEF Removed
  <2>4. ListIsAllocated
    BY <2>3 DEF Kept, ListIsAllocated
  <2>5. s_queue[1].type # "INIT"
    BY <2>1 DEF Requests
  <2> QED BY <2>1, <2>4, <2>5 DEF KnownSender
(* A send fails only to a client that has left and is owed the answer.      *)
<1>3. ASSUME ServerSend
      PROVE  \E c \in Clients : ~c_open'[c] /\ c_id'[c] # 0 /\ asked'[c] > answered'[c]
  <2> DEFINE e == Head(outbox)
             c == e.to
  <2>1. /\ outbox # <<>> /\ e = outbox[1] /\ 1 \in DOMAIN outbox /\ e \in Entry
        /\ ~Exists(c) /\ e.msg.type \notin {"2ONE", "2MANY"}
        /\ UNCHANGED <<c_open, client>>
    BY <1>3, SendStep
  <2>2. /\ e.msg.type # "STOP" /\ c # Nobody /\ \E k \in DOMAIN owner : owner[k] = c
        /\ e.msg.type = "ID" => c \in Waiting
    BY <2>1 DEF Core, Outgoing
  <2> HIDE DEF e
  <2>3. c \in Clients /\ ~c_open[c]
    BY <2>1, <2>2, IdRange DEF Exists
  <2>4. c_id[c] # 0
    BY <2>2, <2>3 DEF Core, Owners
  <2>5. e.msg.type \in {"ECHO", "LIST"} /\ e.msg \in Reply
    BY <2>1, <2>2, <2>4 DEF Waiting, Entry, Reply
  <2>6. e \in AnswersTo(c)
    BY <2>1, <2>5 DEF AnswersTo, Answers
  <2>7. Due(c) >= 1
    BY <2>1, <2>6, CountType DEF Due, Core, Typed
  <2>8. asked[c] > answered[c]
    BY <2>3, <2>7, AccountsType DEF Accounts
  <2> HIDE DEF c
  <2> QED BY <2>1, <2>3, <2>4, <2>8 DEF client
(* The client that has left stays away.                                     *)
<1>4. ASSUME server_pc = "failed"
      PROVE  \E c \in Clients : ~c_open'[c] /\ c_id'[c] # 0 /\ asked'[c] > answered'[c]
  <2>1. ~Taking /\ ~AwaitStop
    BY <1>4, TakingStep DEF AwaitStop
  <2>2. ListIsAllocated
    BY <1>1, <2>1 DEF Frames, Taking, ListIsAllocated
  <2>3. PICK c \in Clients : ~c_open[c] /\ c_id[c] # 0 /\ asked[c] > answered[c]
    BY <1>4, <2>2 DEF FailsOnlyForTheDeparted
  <2>4. c_id'[c] # 0
    BY <2>3, IdsStep
  <2>5. ~c_open'[c]
    <3>1. ASSUME NEW d \in Clients, OpenQueues(d) \/ RemoveQueue(d) PROVE ~c_open'[c]
      BY <2>3, <3>1 DEF OpenQueues, RemoveQueue, Core, Typed, Control
    <3> QED BY <1>1, <2>3, <3>1 DEF Frames
  <2>6. answered'[c] = answered[c]
    BY <2>3, CountersStep DEF ChildReceive, Core, Control
  <2>7. asked'[c] = asked[c] \/ asked'[c] = asked[c] + 1
    BY <2>1, UnreadStep
  <2>8. asked[c] > answered[c] /\ asked[c] + 1 > answered[c]
    BY <2>3, AccountsType
  <2> QED BY <2>4, <2>5, <2>6, <2>7, <2>8
<1>5. server_pc = "failed" \/ Taking \/ ServerSend
  BY <1>1 DEF Frames, ServerInterrupt, StopClient, AwaitStop, RemoveServerQueue
<1> QED BY <1>2, <1>3, <1>4, <1>5

(* While the list is sound, the server ends with a failure only because a   *)
(* client left without waiting for the answer to what it had asked.         *)
THEOREM FailsForTheDeparted == Spec => []FailsOnlyForTheDeparted
<1>1. Init => FailsOnlyForTheDeparted
  BY DEF Init, FailsOnlyForTheDeparted
<1>2. FailsOnlyForTheDeparted /\ Core /\ KnownSender /\ Accounts /\ [Next]_vars
        => FailsOnlyForTheDeparted'
  BY FailsStep
<1> QED BY <1>1, <1>2, CoreInvariant, SenderIsKnown, AccountsInvariant, PTL DEF Spec
-----------------------------------------------------------------------------
(* The program implements the chat room                                    *)

(* A node is freed too early only when some client has left.                *)
Departed == ~ListIsAllocated => \E k \in DOMAIN owner : parent_pc[owner[k]] = "gone"

LEMMA DepartedStep == ASSUME Core, Members, Departed, [Next]_vars PROVE Departed'
<1> SUFFICES ASSUME ~ListIsAllocated'
             PROVE  \E k \in DOMAIN owner' : parent_pc'[owner'[k]] = "gone"
  BY DEF Departed
<1>1. Frames
  BY StepFrames DEF Core
<1>2. ASSUME NEW k \in DOMAIN owner, parent_pc[owner[k]] = "gone"
      PROVE  k \in DOMAIN owner' /\ parent_pc'[owner'[k]] = "gone"
  <2>1. owner[k] \in Clients
    BY IdRange
  <2>2. k \in DOMAIN owner' /\ owner'[k] = owner[k]
    BY <1>1, NewId DEF Frames
  <2> QED BY <1>1, <1>2, <2>1, <2>2 DEF Frames, MovesOn
<1>3. CASE ~ListIsAllocated
  BY <1>2, <1>3 DEF Departed
<1>4. CASE ListIsAllocated
  <2>1. ~Kept
    BY <1>4 DEF Kept, ListIsAllocated
  <2>2. ~ServerInit
    <3>1. CASE ServerInit
      <4>1. \A i \in DOMAIN clients' : i = Len(clients) + 1 \/ i \in DOMAIN clients
        BY <3>1, AppendedList
      <4>2. Len(owner) + 1 # 0
        BY IdRange
      <4> QED BY <1>4, <3>1, <4>1, <4>2, AppendedList DEF ListIsAllocated, Freed
    <3> QED BY <3>1
  <2>3. ~AwaitStop
    <3>1. CASE AwaitStop
      <4>1. clients \in Seq(Node) /\ clients' = Tail(clients) /\ clients # <<>>
        BY <3>1 DEF AwaitStop, Core, Typed, Control
      <4>2. \A i \in DOMAIN clients' : i + 1 \in DOMAIN clients /\ clients'[i] = clients[i + 1]
        BY <4>1
      <4> QED BY <1>4, <4>2 DEF ListIsAllocated
    <3> QED BY <3>1
  <2>4. ServerStop
    BY <2>1, <2>2, <2>3, ListStep DEF Removed
  <2>5. Head(s_queue) = s_queue[1] /\ 1 \in DOMAIN s_queue
    BY <2>4, TakingStep DEF Taking
  <2>6. s_queue[1].type = "STOP"
    BY <2>4, <2>5 DEF ServerStop, Receive
  <2>7. /\ s_queue[1].id \in DOMAIN owner
        /\ parent_pc[owner[s_queue[1].id]] = "gone"
    BY <2>5, <2>6 DEF Core, Letters, Knocking, Members, LastWords
  <2> QED BY <1>2, <2>7
<1> QED BY <1>3, <1>4

(* stop() frees the wrong node only for a client that has left.             *)
THEOREM DepartedInvariant == Spec => []Departed
<1>1. Init => Departed
  BY DEF Init, Departed, ListIsAllocated
<1>2. Departed /\ Core /\ Members /\ [Next]_vars => Departed'
  BY DepartedStep
<1> QED BY <1>1, <1>2, CoreInvariant, MembersInvariant, PTL DEF Spec

(* Who is not there any more.                                               *)
SomebodyLeaves == \E c \in Room!Admitted : Presence(c) # "here"

LEMMA LeaversAdmitted ==
  ASSUME Core, NEW k \in DOMAIN owner, \/ parent_pc[owner[k]] = "gone"
                                       \/ c_id[owner[k]] # 0 /\ ~c_open[owner[k]]
  PROVE  SomebodyLeaves
<1>1. owner[k] \in Room!Admitted
  BY DEF Room!Admitted
<1>2. Presence(owner[k]) # "here"
  BY DEF Presence, Alive
<1> QED BY <1>1, <1>2 DEF SomebodyLeaves

(* A server that ends with a failure, or is aborted, has lost a client.     *)
LEMMA BreaksForLeavers ==
  ASSUME Core, KnownSender, Departed, [Next]_vars, Taking \/ ServerSend \/ AwaitStop,
         server_pc' \in {"failed", "aborted"}
  PROVE  SomebodyLeaves
<1>1. ~ListIsAllocated => SomebodyLeaves
  BY LeaversAdmitted DEF Departed
<1>2. ASSUME Taking, ListIsAllocated PROVE FALSE
  <2>1. /\ Find(Head(s_queue).id) = {} /\ Head(s_queue).type \in Requests
        /\ Head(s_queue) = s_queue[1] /\ 1 \in DOMAIN s_queue /\ server_pc = "receive"
    BY <1>2, TakingStep DEF TakingSends, Answered
  <2>2. s_queue[1].type # "INIT"
    BY <2>1 DEF Requests
  <2> QED BY <1>2, <2>1, <2>2 DEF KnownSender
<1>3. CASE ServerSend
  <2> DEFINE e == Head(outbox)
             c == e.to
  <2>1. /\ outbox # <<>> /\ e = outbox[1] /\ 1 \in DOMAIN outbox /\ e \in Entry
        /\ ~Exists(c) /\ e.msg.type \notin {"2ONE", "2MANY"}
    BY <1>3, SendStep
  <2>2. e.msg.type # "STOP" /\ c # Nobody
    BY <2>1 DEF Core, Outgoing
  <2>3. PICK k \in DOMAIN owner : owner[k] = c
    BY <2>1, <2>2 DEF Core, Outgoing
  <2> HIDE DEF c, e
  <2>4. ~c_open[c]
    BY <2>1, <2>2 DEF Exists
  <2>5. c_id[c] # 0
    BY <2>3, <2>4 DEF Core, Owners
  <2> QED BY <2>3, <2>4, <2>5, LeaversAdmitted
<1>4. CASE AwaitStop
  <2>1. Head(clients) = Freed /\ clients # <<>> /\ clients \in Seq(Node)
    BY <1>4 DEF AwaitStop, Core, Control, Typed
  <2>2. 1 \in DOMAIN clients /\ clients[1] = Freed
    BY <2>1
  <2> QED BY <1>1, <2>2 DEF ListIsAllocated
<1> QED BY <1>1, <1>2, <1>3, <1>4

RoomPresence == [c \in Clients |-> Presence(c)]

(* The users notice nothing.                                                *)
Unseen == UNCHANGED <<Door, owner, c_id, RoomPresence, asked, answered>>

LEMMA UnseenStutters == Unseen => UNCHANGED Room!vars
BY DEF Unseen, RoomPresence, Room!vars

(* What the server and the kernel do leaves the clients where they are.     *)
LEMMA ServerImplements ==
  ASSUME Core, KnownSender, NodesLeft, Departed, [Next]_vars, ServerStep \/ ServerInterrupt
  PROVE  [Room!Next]_(Room!vars)
<1>1. Frames
  BY StepFrames DEF Core
<1>2. UNCHANGED <<c_id, c_open, parent_pc, asked, answered>>
  BY TakingStep, SendStep DEF ServerStep, Taking, StopClient, AwaitStop,
     RemoveServerQueue, ServerInterrupt, client, queues, Frames
<1>3. UNCHANGED <<c_id, RoomPresence, asked, answered>>
  BY <1>2 DEF RoomPresence, Presence, Alive
<1>4. CASE ServerInit
  <2>1. PICK q \in Clients : (\A k \in DOMAIN owner : owner[k] # q) /\ owner' = Append(owner, q)
    BY <1>4, NewId
  <2>2. Door = "open" /\ Door' = "open"
    BY <1>4, TakingStep DEF Door, Taking, TakingSends, ServerInit, Receive, Requests, Broadcasts
  <2>3. Room!Admit(q)
    BY <1>3, <2>1, <2>2 DEF Room!Admit, Room!Admitted, RoomPresence
  <2> QED BY <2>1, <2>3 DEF Room!Next
<1>5. CASE ~ServerInit /\ (Taking \/ ServerSend \/ AwaitStop)
  <2>1. owner' = owner
    BY <1>1, <1>5 DEF Frames
  <2>2. /\ Door \in {"open", "closing"}
        /\ \/ Door' = Door
           \/ server_pc' \in {"failed", "aborted"} /\ Door' = "broken"
    <3>1. CASE Taking
      BY <1>5, <3>1, TakingStep DEF Door, TakingSends, Answered
    <3>2. CASE ServerSend
      BY <3>2, SendStep DEF Door
    <3>3. CASE AwaitStop
      BY <3>3 DEF Door, AwaitStop
    <3> QED BY <1>5, <3>1, <3>2, <3>3
  <2>3. CASE Door' = Door
    BY <1>3, <2>1, <2>3, UnseenStutters DEF Unseen
  <2>4. CASE server_pc' \in {"failed", "aborted"} /\ Door' = "broken"
    <3>1. \E c \in Room!Admitted : Presence(c) # "here"
      BY <1>5, <2>4, BreaksForLeavers DEF SomebodyLeaves
    <3>2. Room!Admitted \subseteq Clients
      BY IdRange DEF Room!Admitted
    <3>3. Room!Break
      BY <1>3, <2>1, <2>2, <2>4, <3>1, <3>2 DEF Room!Break, RoomPresence
    <3> QED BY <3>3 DEF Room!Next
  <2> QED BY <2>2, <2>3, <2>4
<1>6. CASE StopClient
  <2>1. owner' = owner /\ Door' = Door
    BY <1>6 DEF StopClient, Door, numbering
  <2> QED BY <1>3, <2>1, UnseenStutters DEF Unseen
<1>7. CASE RemoveServerQueue
  <2>1. owner' = owner /\ Door = "closing" /\ Door' = "closed" /\ clients = <<>>
    BY <1>7 DEF RemoveServerQueue, Door, numbering
  <2>2. ASSUME NEW k \in DOMAIN owner PROVE Presence(owner[k]) = "left"
    <3>1. /\ IsFiniteSet(Live) /\ Cardinality(Live) \in Nat
          /\ Count(s_queue, Farewells) \in Nat
          /\ Cardinality(Live) + Count(s_queue, Farewells) <= 0
      BY <2>1, LiveType DEF NodesLeft
    <3>2. Cardinality(Live) = 0
      BY <3>1
    <3>3. Live = {}
      BY <3>1, <3>2, FS_EmptySet
    <3> QED BY <3>3 DEF Live, Presence
  <2>3. Room!Admitted \subseteq Clients /\ \A c \in Room!Admitted : Presence(c) = "left"
    BY <2>2, IdRange DEF Room!Admitted
  <2>4. Room!Shut
    BY <1>3, <2>1, <2>3 DEF Room!Shut, RoomPresence
  <2> QED BY <2>4 DEF Room!Next
<1>8. CASE ServerInterrupt
  <2>1. owner' = owner /\ Door = "open" /\ Door' = "closing"
    BY <1>8, ArgumentsAssumption DEF ServerInterrupt, Door, numbering
  <2>2. Room!Close
    BY <1>3, <2>1 DEF Room!Close, RoomPresence
  <2> QED BY <2>2 DEF Room!Next
<1> QED BY <1>4, <1>5, <1>6, <1>7, <1>8 DEF ServerStep, Taking

(* Client c goes, or nobody notices.                                        *)
LEMMA DepartImplements ==
  ASSUME Core, NEW c \in Clients, UNCHANGED <<server_pc, owner, c_id, asked, answered>>,
         \A d \in Clients : d # c => Presence(d)' = Presence(d),
         \/ Presence(c)' = Presence(c)
         \/ Presence(c) = "here" /\ Presence(c)' \in {"leaving", "left"}
         \/ Presence(c) = "leaving" /\ Presence(c)' = "left"
  PROVE  [Room!Next]_(Room!vars)
<1>1. Door' = Door
  BY DEF Door
<1>2. CASE Presence(c)' = Presence(c)
  BY <1>1, <1>2, UnseenStutters DEF Unseen, RoomPresence
<1>3. CASE Presence(c)' # Presence(c)
  <2>1. RoomPresence' = [RoomPresence EXCEPT ![c] = Presence(c)']
    BY DEF RoomPresence
  <2>2. RoomPresence[c] = Presence(c) /\ RoomPresence'[c] = Presence(c)'
    BY DEF RoomPresence
  <2>3. Room!Depart(c)
    BY <1>1, <1>3, <2>1, <2>2 DEF Room!Depart, RoomPresence
  <2> QED BY <2>3 DEF Room!Next
<1> QED BY <1>2, <1>3

(* What a client does, its users and the signals it gets.                   *)
LEMMA ClientImplements ==
  ASSUME Core, Accounts, NEW c \in Clients,
         \/ ParentStep(c) \/ ChildStep(c) \/ SendCommand(c) \/ Leave(c) \/ HandleINT(c)
  PROVE  [Room!Next]_(Room!vars)
<1> DEFINE Elsewhere == \A d \in Clients : d # c => Presence(d)' = Presence(d)
<1>1. /\ parent_pc \in [Clients -> ParentPC] /\ c_open \in [Clients -> BOOLEAN]
      /\ c_id \in [Clients -> Nat] /\ asked \in [Clients -> Nat] /\ answered \in [Clients -> Nat]
  BY DEF Core, Typed
<1>2. CASE AwaitId(c)
  <2>1. PICK k \in DOMAIN owner :
          k # 0 /\ owner[k] = c /\ c_id' = [c_id EXCEPT ![c] = k]
    BY <1>2, FirstMail
  <2>2. c_id[c] = 0 /\ UNCHANGED <<owner, c_open, server_pc>>
    BY <1>2, FirstMail
  <2>3. /\ parent_pc[c] = "await" /\ parent_pc' = [parent_pc EXCEPT ![c] = "register"]
        /\ UNCHANGED <<asked, answered>> /\ c_open[c]
    BY <1>2 DEF AwaitId, Goto, Core, Control
  <2>4. \A d \in Clients : Presence(d)' = Presence(d)
    BY <1>1, <2>1, <2>2, <2>3 DEF Presence, Alive
  <2>5. Presence(c) = "here"
    BY <2>2, <2>3 DEF Presence, Alive
  <2>6. UNCHANGED <<Door, RoomPresence>>
    BY <2>2, <2>4 DEF Door, RoomPresence
  <2>7. Room!Learn(c)
    <3>1. k # -1
      BY IdRange
    <3>2. RoomPresence[c] = "here"
      BY <2>5 DEF RoomPresence
    <3> QED BY <2>1, <2>2, <2>3, <2>6, <3>1, <3>2 DEF Room!Learn, RoomPresence
  <2> QED BY <2>7 DEF Room!Next
<1>3. CASE SendCommand(c)
  <2>1. /\ parent_pc[c] = "idle" /\ UNCHANGED <<server_pc, owner, c_open, c_id, answered>>
        /\ parent_pc' = parent_pc \/ parent_pc' = [parent_pc EXCEPT ![c] = "kill"]
        /\ asked' = asked \/ asked' = [asked EXCEPT ![c] = @ + 1]
    BY <1>3 DEF SendCommand, Running, Goto, server, numbering
  <2>2. \A d \in Clients : Presence(d)' = Presence(d)
    BY <1>1, <2>1 DEF Presence, Alive
  <2>3. UNCHANGED <<Door, RoomPresence>>
    BY <2>1, <2>2 DEF Door, RoomPresence
  <2>4. CASE asked' = asked
    BY <2>1, <2>3, <2>4, UnseenStutters DEF Unseen
  <2>5. CASE asked' = [asked EXCEPT ![c] = @ + 1]
    <3>1. Presence(c) # "left" /\ c_id[c] # 0
      BY <2>1 DEF Presence, Alive, Core, Control
    <3>2. RoomPresence[c] # "left"
      BY <3>1 DEF RoomPresence
    <3>3. Room!Ask(c)
      BY <2>1, <2>3, <2>5, <3>1, <3>2 DEF Room!Ask, RoomPresence
    <3> QED BY <3>3 DEF Room!Next
  <2> QED BY <2>1, <2>4, <2>5
<1>4. CASE ChildReceive(c)
  <2>1. /\ UNCHANGED <<server_pc, owner, c_open, c_id, parent_pc, asked>>
        /\ answered' = answered \/ answered' = [answered EXCEPT ![c] = @ + 1]
    BY <1>4 DEF ChildReceive, server, numbering
  <2>2. UNCHANGED <<Door, RoomPresence>>
    BY <2>1 DEF Door, RoomPresence, Presence, Alive
  <2>3. CASE answered' = answered
    BY <2>1, <2>2, <2>3, UnseenStutters DEF Unseen
  <2>4. CASE answered' = [answered EXCEPT ![c] = @ + 1]
    <3>1. answered[c] < asked[c]
      <4>1. c_queue[c] # <<>> /\ Head(c_queue[c]).type \in {"ECHO", "LIST"}
        <5>1. answered' # answered
          BY <1>1, <2>4
        <5> QED BY <1>4, <5>1 DEF ChildReceive
      <4>2. c_queue[c] \in Seq(Reply)
        BY DEF Core, Typed
      <4>3. 1 \in DOMAIN c_queue[c] /\ c_queue[c][1] \in Answers
        BY <4>1, <4>2, TailRemoveAt DEF Answers
      <4>4. Unheard(c) >= 1
        BY <4>2, <4>3, CountType DEF Unheard
      <4> QED BY <4>4, AccountsType DEF Accounts
    <3>2. Room!Answer(c)
      BY <2>1, <2>2, <2>4, <3>1 DEF Room!Answer, RoomPresence
    <3> QED BY <3>2 DEF Room!Next
  <2> QED BY <2>1, <2>3, <2>4
<1>5. CASE OpenQueues(c)
  <2>1. /\ parent_pc[c] = "init" /\ c_id[c] = 0
        /\ UNCHANGED <<server_pc, owner, c_id, asked, answered>>
        /\ \E to \in {"knock", "dead"} : parent_pc' = [parent_pc EXCEPT ![c] = to]
        /\ c_open' = [c_open EXCEPT ![c] = s_open]
    BY <1>5 DEF OpenQueues, Goto, server, numbering, Core, Control
  <2>2. Elsewhere
    BY <1>1, <2>1 DEF Presence, Alive
  <2>3. Presence(c) = "here" /\ Presence(c)' \in {"here", "left"}
    BY <1>1, <2>1 DEF Presence, Alive
  <2> QED BY <2>1, <2>2, <2>3, DepartImplements
<1>6. CASE RemoveQueue(c)
  <2>1. /\ parent_pc[c] = "remove" /\ c_id[c] # 0
        /\ UNCHANGED <<server_pc, owner, c_id, asked, answered>>
        /\ parent_pc' = [parent_pc EXCEPT ![c] = IF c_open[c] THEN "bye" ELSE "gone"]
        /\ c_open' = [c_open EXCEPT ![c] = FALSE]
    BY <1>6 DEF RemoveQueue, Running, Goto, server, numbering, Core, Control
  <2>2. Elsewhere
    BY <1>1, <2>1 DEF Presence, Alive
  <2>3. \/ Presence(c) = "here" /\ Presence(c)' = "leaving"
        \/ Presence(c) = "leaving" /\ Presence(c)' = "left"
    BY <1>1, <2>1 DEF Presence, Alive
  <2> QED BY <2>1, <2>2, <2>3, DepartImplements
(* All other steps leave queue and id as they are.                          *)
<1>7. ASSUME UNCHANGED <<server_pc, owner, c_id, c_open, asked, answered>>, Alive(c),
             NEW to \in ParentPC, parent_pc' = [parent_pc EXCEPT ![c] = to]
      PROVE  [Room!Next]_(Room!vars)
  <2>1. Elsewhere
    BY <1>1, <1>7 DEF Presence, Alive
  <2>2. Presence(c)' \in {Presence(c), "left"} /\ Presence(c) # "left"
    <3>1. c_id'[c] = c_id[c] /\ c_open'[c] = c_open[c] /\ Alive(c)
      BY <1>7
    <3>2. Presence(c) # "left"
      BY <3>1 DEF Presence, Alive
    <3>3. CASE parent_pc'[c] \in {"gone", "dead"}
      BY <3>2, <3>3 DEF Presence, Alive
    <3>4. CASE parent_pc'[c] \notin {"gone", "dead"}
      BY <3>1, <3>4 DEF Presence, Alive
    <3> QED BY <3>2, <3>3, <3>4
  <2>3. Presence(c) \in {"here", "leaving", "left"}
    BY DEF Presence
  <2> QED BY <1>7, <2>1, <2>2, <2>3, DepartImplements
<1>8. CASE SendInit(c) \/ Register(c) \/ KillChild(c) \/ SendStop(c) \/ Leave(c)
  <2>1. /\ UNCHANGED <<server_pc, owner, c_id, c_open, asked, answered>> /\ Alive(c)
        /\ \E to \in ParentPC : parent_pc' = [parent_pc EXCEPT ![c] = to]
    BY <1>8 DEF SendInit, Register, KillChild, SendStop, Leave, Running, Goto, ParentPC,
       Alive, server, numbering, queues
  <2> QED BY <1>7, <2>1
<1>9. CASE HandleUSR1(c) \/ HandleINT(c)
  <2>1. /\ UNCHANGED <<server_pc, owner, c_id, c_open, asked, answered>> /\ Alive(c)
        /\ \E to \in ParentPC : parent_pc' = [parent_pc EXCEPT ![c] = to]
    BY <1>9 DEF HandleUSR1, HandleINT, Deliver, Goto, ParentPC, server, numbering, queues
  <2> QED BY <1>7, <2>1
<1>10. CASE ChildSignals(c)
  <2>1. UNCHANGED <<server_pc, owner, c_id, c_open, parent_pc, asked, answered>>
    BY <1>10 DEF ChildSignals, server, numbering, queues
  <2>2. UNCHANGED <<Door, RoomPresence>>
    BY <2>1 DEF Door, RoomPresence, Presence, Alive
  <2> QED BY <2>1, <2>2, UnseenStutters DEF Unseen
<1> QED BY <1>2, <1>3, <1>4, <1>5, <1>6, <1>8, <1>9, <1>10 DEF ParentStep, ChildStep

(* The chat over System V queues is a chat room, for any users, any room in *)
(* the queues and any signals: the ids are given, learnt and used as in     *)
(* ChatRoom, nobody is answered without having asked, the server ends after *)
(* all clients or breaks down over one that leaves.                         *)
THEOREM ChatRoomCorrect == Spec => ImplementsChatRoom
<1>1. Init => Room!Init
  <2> SUFFICES ASSUME Init PROVE Room!Init
    OBVIOUS
  <2>1. Door = "open"
    BY DEF Init, Door
  <2>2. \A c \in Clients : Presence(c) = "here"
    BY DEF Init, Presence, Alive
  <2> QED BY <2>1, <2>2 DEF Init, Room!Init
<1>2. Core /\ KnownSender /\ NodesLeft /\ Departed /\ Accounts /\ [Next]_vars
      => [Room!Next]_(Room!vars)
  <2> SUFFICES ASSUME Core, KnownSender, NodesLeft, Departed, Accounts, [Next]_vars
               PROVE  [Room!Next]_(Room!vars)
    OBVIOUS
  <2>1. CASE UNCHANGED vars
    <3>1. UNCHANGED <<server_pc, owner, c_id, c_open, parent_pc, asked, answered>>
      BY <2>1 DEF vars, server, numbering, queues, client
    <3>2. UNCHANGED <<Door, RoomPresence>>
      BY <3>1 DEF Door, RoomPresence, Presence, Alive
    <3> QED BY <3>1, <3>2, UnseenStutters DEF Unseen
  <2>2. CASE ServerStep \/ ServerInterrupt
    BY <2>2, ServerImplements
  <2>3. ASSUME NEW c \in Clients,
               \/ ParentStep(c) \/ ChildStep(c) \/ SendCommand(c) \/ Leave(c) \/ HandleINT(c)
        PROVE  [Room!Next]_(Room!vars)
    BY <2>3, ClientImplements
  <2> QED BY <2>1, <2>2, <2>3 DEF Next, UserStep
<1> QED BY <1>1, <1>2, CoreInvariant, SenderIsKnown, NodesLeftInvariant, DepartedInvariant,
           AccountsInvariant, PTL DEF Spec, ImplementsChatRoom, Room!Spec

=============================================================================
