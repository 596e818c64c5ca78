---------------------------- MODULE MqChatProofs ----------------------------
(***************************************************************************)
(* The safety of the chat over POSIX queues, for any room in the queues,   *)
(* any users and any interleaving of threads and signals.                  *)
(*                                                                         *)
(* The inductive invariant is Core.  Notification counts the threads of a  *)
(* client.  The rest follows an id: from the INIT of a client (Once) to    *)
(* the numbering (Owners), into the list of clients (Listed) and the send  *)
(* (Outgoing), through the queue of the client, where nothing overtakes it *)
(* while the server serves (Mailed), to the messages the client sends      *)
(* (Letters).  Accounts adds that nobody is answered without having asked. *)
(***************************************************************************)
EXTENDS MqChat, Counting

(* What a handler has still to send, and what has been sent.                *)
Entry == [to : Clients \cup {Nobody}, msg : Reply]

Given == {owner[k] : k \in DOMAIN owner}

Serving == server_pc \in {"receive", "send"}

Typed ==
  /\ server_pc \in {"receive", "send", "stop", "await", "gone"}
  /\ clients \in Seq(Node)
  /\ owner \in Seq(Clients) /\ clients_id_autoincrement = Len(owner) + 1
  /\ outbox \in Seq(Entry)
  /\ s_queue \in Seq(Letter) /\ Len(s_queue) <= Capacity
  /\ c_queue \in [Clients -> Seq(Reply)]
  /\ \A c \in Clients : Len(c_queue[c]) <= Capacity
  /\ s_open \in BOOLEAN /\ c_open \in [Clients -> BOOLEAN]
  /\ c_id \in [Clients -> Id \cup {NoId, WrongId}]
  /\ main_pc \in [Clients -> MainPC] /\ exit_pc \in [Clients -> ExitPC]
  /\ registered \in [Clients -> BOOLEAN]
  /\ notified \in [Clients -> Nat] /\ receivers \in [Clients -> Nat]
  /\ typed \in [Clients -> Nat] /\ asked \in [Clients -> Nat] /\ answered \in [Clients -> Nat]

(* Notification: who is registered has no thread that is yet to register,   *)
(* and of the threads none is without a message.                            *)
Quiet(c) == ~registered[c] /\ notified[c] = 0 /\ receivers[c] = 0

Notification ==
  \A c \in Clients :
    /\ notified[c] + receivers[c] <= Len(c_queue[c])
    /\ notified[c] <= 1 /\ (registered[c] => notified[c] = 0)
    /\ main_pc[c] = "idle" /\ exit_pc[c] = "none" => registered[c] \/ notified[c] = 1
    /\ c_id[c] = NoId \/ main_pc[c] = "register" => Quiet(c)

(* Where the server and the clients are.                                    *)
Control ==
  /\ server_pc = "send" <=> outbox # <<>>
  /\ server_pc = "await" => clients # <<>>
  /\ \A c \in Clients :
       /\ main_pc[c] = "open" => exit_pc[c] = "none"
       /\ main_pc[c] = "failed" => exit_pc[c] = "gone"
       /\ main_pc[c] \in {"open", "init", "await", "failed"} => c_id[c] = NoId
       /\ main_pc[c] \in {"register", "idle"} => c_id[c] # NoId
       /\ main_pc[c] # "open" /\ ~c_open[c] => exit_pc[c] \in {"bye", "gone"}

(* Every id belongs to one client, and a client that has an id has its own. *)
Owners ==
  /\ \A k, m \in DOMAIN owner : owner[k] = owner[m] => k = m
  /\ \A c \in Clients :
       /\ c_id[c] \in Id => c_id[c] \in DOMAIN owner /\ owner[c_id[c]] = c
       /\ c_id[c] # NoId \/ c_queue[c] # <<>> => c \in Given

(* A client sends INIT once and is given an id once.                        *)
Knocks(c) == {m \in Letter : m.type = "INIT" /\ m.queue = c}

Once ==
  \A c \in Clients :
    Count(s_queue, Knocks(c)) + (IF c \in Given THEN 1 ELSE 0)
      + (IF main_pc[c] \in {"open", "init", "failed"} THEN 1 ELSE 0) <= 1

(* A message bears the id its sender has.                                   *)
Signed(m) ==
  \/ m.type = "INIT" /\ m.id = NoId /\ m.queue \in Clients
  \/ /\ m.type # "INIT" /\ m.id \in DOMAIN owner /\ c_id[owner[m.id]] = m.id
     /\ m.type = "STOP" => exit_pc[owner[m.id]] = "gone"
  \/ m.type # "INIT" /\ m.id = WrongId /\ ~Serving
  \/ m.type = "STOP" /\ m.id = NoId

Letters == \A i \in DOMAIN s_queue : Signed(s_queue[i])

(* A node leads to the owner of its id; nobody is missing but who has left. *)
Listed ==
  /\ \A i \in DOMAIN clients :
       clients[i].id \in DOMAIN owner /\ clients[i].queue = owner[clients[i].id]
  /\ \A i, j \in DOMAIN clients : clients[i].id = clients[j].id => i = j
  /\ Serving =>
       \A k \in DOMAIN owner :
         (\E i \in DOMAIN clients : clients[i].id = k) \/ exit_pc[owner[k]] = "gone"

(* Those who have their id or the message with it.                          *)
Introduced(c) == c_id[c] # NoId \/ c_queue[c] # <<>>

(* The id is sent before anything else, alone; what comes before an id by   *)
(* priority is only for those that have theirs.                             *)
Sent(e) ==
  /\ e.msg.type # "STOP"
  /\ e.msg.type = "INIT" =>
       /\ Len(outbox) = 1
       /\ e.msg.id \in DOMAIN owner /\ owner[e.msg.id] = e.to
       /\ ~Introduced(e.to)
  /\ e.msg.type # "INIT" /\ e.to # Nobody => Introduced(e.to) /\ e.to \in Given
  /\ e.to = Nobody => e.msg.type \in Broadcasts
  /\ e.msg.type \notin Broadcasts \cup {"INIT"} =>
       e.msg.type \in {"ECHO", "LIST"} /\ c_id[e.to] # NoId

Outgoing == \A i \in DOMAIN outbox : Sent(outbox[i])

Expected(c) == \E i \in DOMAIN outbox : outbox[i].msg.type = "INIT" /\ outbox[i].to = c

Presented ==
  Serving => \A i \in DOMAIN clients : Introduced(clients[i].queue) \/ Expected(clients[i].queue)

(* An id in a queue is that of the client, and the first of its messages as *)
(* long as the server serves.                                               *)
Mailed ==
  \A c \in Clients :
    /\ \A i \in DOMAIN c_queue[c] :
         c_queue[c][i].type = "INIT" =>
           c_queue[c][i].id \in DOMAIN owner /\ owner[c_queue[c][i].id] = c
    /\ Serving => /\ c_id[c] # WrongId
                  /\ c_id[c] = NoId /\ c_queue[c] # <<>> => c_queue[c][1].type = "INIT"

Core ==
  /\ Typed /\ Notification /\ Control /\ Owners /\ Once /\ Letters /\ Listed
  /\ Outgoing /\ Presented /\ Mailed

(* What becomes of the requests of a client.                                *)
Answers == {m \in Reply : m.type \in {"ECHO", "LIST"}}

AnswersTo(c) == {e \in Entry : e.to = c /\ e.msg \in Answers}

RequestsOf(k) == {m \in Letter : m.type \in Requests /\ m.id = k}

Unheard(c) == Count(c_queue[c], Answers)

Due(c) == Count(outbox, AnswersTo(c))

Unread(c) == IF c_id[c] \in Id THEN Count(s_queue, RequestsOf(c_id[c])) ELSE 0

Accounts ==
  \A c \in Clients :
    /\ answered[c] + Unheard(c) + Due(c) + Unread(c) <= asked[c]
    /\ asked[c] <= typed[c] /\ typed[c] <= MaxCommands

-----------------------------------------------------------------------------
(* Priority queues                                                         *)

LEMMA Priorities ==
  /\ Types = {"STOP", "INIT", "ECHO", "LIST", "FRIENDS", "ADD", "DEL", "2ALL", "2FRIENDS", "2ONE"}
  /\ \A type \in Types : Priority[type] \in Nat
  /\ Priority["INIT"] = 7
  /\ \A type \in Broadcasts : Priority[type] < 7
  /\ Priority["ECHO"] < 7
<1>1. Types = {"STOP", "INIT", "ECHO", "LIST", "FRIENDS", "ADD", "DEL", "2ALL", "2FRIENDS", "2ONE"}
  BY DEF Types, Requests, Broadcasts
<1>2. /\ Priority["STOP"] = 10 /\ Priority["LIST"] = 9 /\ Priority["FRIENDS"] = 8
      /\ Priority["INIT"] = 7 /\ Priority["ECHO"] = 6 /\ Priority["ADD"] = 5
      /\ Priority["DEL"] = 4 /\ Priority["2ALL"] = 3 /\ Priority["2FRIENDS"] = 2
      /\ Priority["2ONE"] = 1
  BY <1>1 DEF Priority
<1> QED BY <1>1, <1>2 DEF Broadcasts

(* What mq_send does to a queue: a message is added, and none that has a    *)
(* higher priority than it is overtaken by it.                              *)
LEMMA InsertEffect ==
  ASSUME NEW M, NEW q \in Seq(M), NEW m \in M
  PROVE  /\ Insert(q, m) \in Seq(M) /\ Len(Insert(q, m)) = Len(q) + 1 /\ Insert(q, m) # <<>>
         /\ \A i \in DOMAIN Insert(q, m) :
              Insert(q, m)[i] = m \/ \E j \in DOMAIN q : Insert(q, m)[i] = q[j]
         /\ q = <<>> => Insert(q, m)[1] = m
         /\ q # <<>> /\ Priority[q[1].type] >= Priority[m.type] => Insert(q, m)[1] = q[1]
<1> DEFINE ahead == {i \in DOMAIN q : Priority[q[i].type] >= Priority[m.type]}
           p == Cardinality(ahead) + 1
<1>1. DOMAIN q = 1 .. Len(q) /\ Len(q) \in Nat
  OBVIOUS
<1>2. /\ IsFiniteSet(ahead) /\ Cardinality(ahead) \in Nat /\ Cardinality(ahead) <= Len(q)
      /\ ahead # {} => Cardinality(ahead) # 0
  <2>1. IsFiniteSet(1 .. Len(q)) /\ Cardinality(1 .. Len(q)) = Len(q)
    BY <1>1, FS_Interval
  <2>2. ahead \subseteq 1 .. Len(q)
    BY <1>1
  <2> HIDE DEF ahead
  <2>3. IsFiniteSet(ahead) /\ Cardinality(ahead) <= Len(q)
    BY <2>1, <2>2, FS_Subset
  <2> QED BY <2>3, FS_CardinalityType, FS_EmptySet
<1>3. Insert(q, m) = InsertAt(q, p, m)
  BY DEF Insert
<1>4. q # <<>> /\ Priority[q[1].type] >= Priority[m.type] => 1 \in ahead
  BY <1>1
<1> HIDE DEF ahead
<1>5. p \in 1 .. Len(q) + 1
  BY <1>1, <1>2
<1>6. q # <<>> /\ Priority[q[1].type] >= Priority[m.type] => 1 < p
  BY <1>2, <1>4
<1> HIDE DEF p
<1>7. /\ InsertAt(q, p, m) \in Seq(M) /\ Len(InsertAt(q, p, m)) = Len(q) + 1
      /\ DOMAIN InsertAt(q, p, m) = 1 .. Len(q) + 1
      /\ \A j \in 1 .. Len(q) + 1 :
           InsertAt(q, p, m)[j] = IF j < p THEN q[j] ELSE IF j = p THEN m ELSE q[j - 1]
  BY <1>5, InsertAtType
<1>8. ASSUME NEW i \in 1 .. Len(q) + 1
      PROVE  InsertAt(q, p, m)[i] = m \/ \E j \in DOMAIN q : InsertAt(q, p, m)[i] = q[j]
  <2>1. i < p => i \in DOMAIN q
    BY <1>1, <1>5
  <2>2. ~(i < p) /\ i # p => i - 1 \in DOMAIN q
    BY <1>1, <1>5
  <2> QED BY <1>7, <2>1, <2>2
<1>9. q = <<>> => p = 1
  BY <1>1, <1>5
<1>10. 1 \in 1 .. Len(q) + 1 /\ Len(q) + 1 # 0
  BY <1>1
<1>11. InsertAt(q, p, m) # <<>>
  BY <1>7, <1>10
<1> QED BY <1>3, <1>6, <1>7, <1>8, <1>9, <1>10, <1>11

LEMMA CountInsert ==
  ASSUME NEW M, NEW q \in Seq(M), NEW m \in M, NEW S
  PROVE  /\ Count(q, S) \in Nat
         /\ Count(Insert(q, m), S) = Count(q, S) + (IF m \in S THEN 1 ELSE 0)
<1> DEFINE ahead == {i \in DOMAIN q : Priority[q[i].type] >= Priority[m.type]}
<1>1. DOMAIN q = 1 .. Len(q) /\ Len(q) \in Nat
  OBVIOUS
<1>2. Cardinality(ahead) \in Nat /\ Cardinality(ahead) <= Len(q)
  <2>1. IsFiniteSet(1 .. Len(q)) /\ Cardinality(1 .. Len(q)) = Len(q)
    BY <1>1, FS_Interval
  <2>2. ahead \subseteq 1 .. Len(q)
    BY <1>1
  <2> HIDE DEF ahead
  <2>3. IsFiniteSet(ahead) /\ Cardinality(ahead) <= Len(q)
    BY <2>1, <2>2, FS_Subset
  <2> QED BY <2>3, FS_CardinalityType
<1>3. Insert(q, m) = InsertAt(q, Cardinality(ahead) + 1, m)
  BY DEF Insert
<1> HIDE DEF ahead
<1>4. Cardinality(ahead) + 1 \in 1 .. Len(q) + 1
  BY <1>1, <1>2
<1>5. Count(q, S) \in Nat
  BY CountType
<1>6. Count(InsertAt(q, Cardinality(ahead) + 1, m), S) = Count(q, S) + (IF m \in S THEN 1 ELSE 0)
  BY <1>4, CountInsertAt
<1> QED BY <1>3, <1>5, <1>6

-----------------------------------------------------------------------------
(* Who writes what                                                         *)

(* The server takes a message in its main loop.                             *)
Taking ==
  \/ ServerInit \/ ServerEcho \/ ServerList \/ Server2Many \/ Server2One \/ ServerStop

(* The ways of a client's main thread, and of the thread in cleanup.        *)
MovesOn(c) ==
  \/ main_pc'[c] = main_pc[c]
  \/ main_pc[c] = "open" /\ main_pc'[c] \in {"init", "failed"} /\ OpenQueues(c)
  \/ main_pc[c] = "init" /\ main_pc'[c] = "await" /\ SendInit(c)
  \/ main_pc[c] = "await" /\ main_pc'[c] = "register" /\ AwaitId(c)
  \/ main_pc[c] = "register" /\ main_pc'[c] = "idle" /\ Register(c)
  \/ main_pc[c] # "open" /\ exit_pc[c] # "gone" /\ main_pc'[c] = "leaving"

Cleans(c) ==
  \/ exit_pc'[c] = exit_pc[c]
  \/ exit_pc[c] = "none" /\ exit_pc'[c] = "gone" /\ main_pc'[c] = "failed" /\ OpenQueues(c)
  \/ exit_pc[c] = "none" /\ exit_pc'[c] = "close" /\ (main_pc[c] # "open" \/ ReceiveOne(c))
  \/ exit_pc[c] = "close" /\ exit_pc'[c] = "unlink" /\ CloseQueue(c)
  \/ exit_pc[c] = "unlink" /\ exit_pc'[c] = "bye" /\ UnlinkQueue(c)
  \/ exit_pc[c] # "none" /\ exit_pc'[c] = "gone"

(* Which actions change which variables.                                    *)
Frames ==
  /\ ServerInit \/ UNCHANGED numbering
  /\ ServerInit \/ ServerList \/ ServerStop \/ AwaitStop \/ UNCHANGED clients
  /\ \/ Taking \/ AwaitStop
     \/ \E c \in Clients : SendInit(c) \/ SendCommand(c) \/ SendStop(c)
     \/ UNCHANGED s_queue
  /\ \/ Taking \/ ServerSend \/ ServerInterrupt
     \/ UNCHANGED outbox /\ (server_pc = "send" <=> server_pc' = "send")
  /\ \/ Taking \/ ServerSend \/ ServerInterrupt \/ StopClient \/ AwaitStop
     \/ RemoveServerQueue \/ UNCHANGED server_pc
  /\ \/ ServerSend \/ StopClient
     \/ \E c \in Clients : AwaitId(c) \/ ReceiveOne(c)
     \/ UNCHANGED c_queue
  /\ (\E c \in Clients : OpenQueues(c) \/ UnlinkQueue(c)) \/ UNCHANGED c_open
  /\ (\E c \in Clients : AwaitId(c)) \/ UNCHANGED c_id
  /\ \/ ServerSend \/ StopClient
     \/ \E c \in Clients : Register(c) \/ Reregister(c) \/ ReceiveOne(c) \/ CloseQueue(c)
     \/ UNCHANGED <<registered, notified, receivers>>
  /\ (\E c \in Clients : SendCommand(c)) \/ UNCHANGED <<typed, asked>>
  /\ (\E c \in Clients : ReceiveOne(c)) \/ UNCHANGED answered
  /\ \A c \in Clients : MovesOn(c) /\ Cleans(c)

LEMMA StepFrames == ASSUME Typed, [Next]_vars PROVE Frames
<1> USE DEF Frames, MovesOn, Cleans, Taking, threads, queues, server, numbering, users
<1>u. CASE UNCHANGED vars
  BY <1>u DEF vars
<1>1. CASE ServerInit
  BY <1>1 DEF ServerInit, Receive
<1>2. CASE ServerEcho
  BY <1>2 DEF ServerEcho, Receive
<1>3. CASE ServerList
  BY <1>3 DEF ServerList, Receive
<1>4. CASE Server2Many
  BY <1>4 DEF Server2Many, Receive
<1>5. CASE Server2One
  BY <1>5 DEF Server2One, Receive
<1>6. CASE ServerStop
  BY <1>6 DEF ServerStop, Receive
<1>7. CASE ServerSend
  BY <1>7 DEF ServerSend
<1>8. CASE StopClient
  BY <1>8 DEF StopClient
<1>9. CASE AwaitStop
  BY <1>9 DEF AwaitStop
<1>10. CASE RemoveServerQueue
  BY <1>10 DEF RemoveServerQueue
<1>11. CASE ServerInterrupt
  BY <1>11 DEF ServerInterrupt
<1>12. ASSUME NEW c \in Clients, OpenQueues(c) PROVE Frames
  BY <1>12 DEF Typed, OpenQueues, Goto
<1>13. ASSUME NEW c \in Clients, SendInit(c) PROVE Frames
  BY <1>13 DEF Typed, SendInit, Goto
<1>14. ASSUME NEW c \in Clients, AwaitId(c) PROVE Frames
  BY <1>14 DEF Typed, AwaitId, Goto
<1>15. ASSUME NEW c \in Clients, Register(c) PROVE Frames
  BY <1>15 DEF Typed, Register, Goto
<1>16. ASSUME NEW c \in Clients, SendCommand(c) PROVE Frames
  BY <1>16 DEF Typed, SendCommand
<1>17. ASSUME NEW c \in Clients, Leave(c) PROVE Frames
  BY <1>17 DEF Typed, Leave, Exit, Goto, Running
<1>18. ASSUME NEW c \in Clients, Interrupt(c) PROVE Frames
  BY <1>18 DEF Typed, Interrupt, Goto, Running
<1>19. ASSUME NEW c \in Clients, Reregister(c) PROVE Frames
  BY <1>19 DEF Typed, Reregister
<1>20. ASSUME NEW c \in Clients, ReceiveOne(c) PROVE Frames
  BY <1>20 DEF Typed, ReceiveOne, Exit, Goto
<1>21. ASSUME NEW c \in Clients, CloseQueue(c) PROVE Frames
  BY <1>21 DEF Typed, CloseQueue, Goto
<1>22. ASSUME NEW c \in Clients, UnlinkQueue(c) PROVE Frames
  BY <1>22 DEF Typed, UnlinkQueue, Goto
<1>23. ASSUME NEW c \in Clients, SendStop(c) PROVE Frames
  BY <1>23 DEF Typed, SendStop, Goto
<1> QED BY <1>u, <1>1, <1>2, <1>3, <1>4, <1>5, <1>6, <1>7, <1>8, <1>9, <1>10, <1>11,
    <1>12, <1>13, <1>14, <1>15, <1>16, <1>17, <1>18, <1>19, <1>20, <1>21, <1>22, <1>23
    DEF Next, ServerStep, MainStep, ReceiverStep, CleanupStep, UserStep

-----------------------------------------------------------------------------
(* The ids                                                                 *)

LEMMA IdRange ==
  ASSUME Core
  PROVE  /\ DOMAIN owner = 1 .. Len(owner) /\ Len(owner) \in Nat
         /\ \A k \in DOMAIN owner : owner[k] \in Clients
         /\ DOMAIN owner \subseteq Id
         /\ NoId \notin Id /\ WrongId \notin Id /\ NoId # WrongId
         /\ \A c \in Clients : c_id[c] \in Id \cup {NoId, WrongId}
         /\ \A c \in Clients : c_id[c] \in DOMAIN owner \cup {NoId, WrongId}
<1>1. owner \in Seq(Clients) /\ \A k, m \in DOMAIN owner : owner[k] = owner[m] => k = m
  BY DEF Core, Typed, Owners
<1>2. /\ DOMAIN owner = 1 .. Len(owner) /\ Len(owner) \in Nat
      /\ \A k \in DOMAIN owner : owner[k] \in Clients
  BY <1>1
<1>3. DOMAIN owner \subseteq Id
  <2>1. Len(owner) <= Cardinality(Clients)
    BY <1>1, DistinctLength, ArgumentsAssumption
  <2> QED BY <1>2, <2>1, ArgumentsAssumption DEF Id
<1>4. NoId \notin Id /\ WrongId \notin Id /\ NoId # WrongId
  BY ArgumentsAssumption DEF Id, NoId, WrongId
<1>5. \A c \in Clients : c_id[c] \in Id \cup {NoId, WrongId}
  BY DEF Core, Typed
<1>6. \A c \in Clients : c_id[c] \in Id => c_id[c] \in DOMAIN owner
  BY DEF Core, Owners
<1> QED BY <1>2, <1>3, <1>4, <1>5, <1>6

(* The server that has stopped serving does not begin again.                *)
LEMMA ServingStays == ASSUME Core, [Next]_vars, Serving' PROVE Serving
<1>1. Frames
  BY StepFrames DEF Core
<1>2. CASE Taking
  BY <1>2 DEF Taking, Receive, ServerInit, ServerEcho, ServerList, Server2Many, Server2One,
              ServerStop, Serving
<1>3. CASE ServerSend
  BY <1>3 DEF ServerSend, Serving
<1>4. CASE ServerInterrupt \/ StopClient \/ AwaitStop \/ RemoveServerQueue
  BY <1>4 DEF ServerInterrupt, Fail, StopClient, AwaitStop, RemoveServerQueue, Serving
<1>5. CASE UNCHANGED server_pc
  BY <1>5 DEF Serving
<1> QED BY <1>1, <1>2, <1>3, <1>4, <1>5 DEF Frames

(* The message a handler works on.                                          *)
LEMMA RequestIs ==
  ASSUME Core, s_queue # <<>>
  PROVE  /\ Request \in Letter /\ Request = s_queue[1] /\ 1 \in DOMAIN s_queue
         /\ Signed(Request) /\ s_queue \in Seq(Letter)
<1>1. s_queue \in Seq(Letter)
  BY DEF Core, Typed
<1>2. Request \in Letter /\ Request = s_queue[1] /\ 1 \in DOMAIN s_queue
  BY <1>1, TailRemoveAt DEF Request
<1> QED BY <1>1, <1>2 DEF Core, Letters

(* The number given away next goes to a client that has none.               *)
LEMMA NewId ==
  ASSUME Core, ServerInit, owner' # owner
  PROVE  LET q == Request.queue IN
         /\ q \in Clients /\ c_open[q] /\ q \notin Given
         /\ owner' = Append(owner, q) /\ owner' \in Seq(Clients)
         /\ DOMAIN owner' = 1 .. Len(owner) + 1 /\ Len(owner') = Len(owner) + 1
         /\ owner'[Len(owner) + 1] = q /\ \A k \in DOMAIN owner : owner'[k] = owner[k]
         /\ clients_id_autoincrement = Len(owner) + 1
         /\ clients_id_autoincrement' = Len(owner) + 2
         /\ clients' = Append(clients, [id |-> Len(owner) + 1, queue |-> q, friend |-> FALSE])
         /\ outbox' = <<[to |-> q, msg |-> [type |-> "INIT", id |-> Len(owner) + 1]]>>
         /\ server_pc' = "send"
         /\ c_id[q] = NoId /\ c_queue[q] = <<>>
         /\ \A k, m \in DOMAIN owner' : owner'[k] = owner'[m] => k = m
         /\ Len(owner) + 1 \in Id
<1> DEFINE q == Request.queue
           node == [id |-> clients_id_autoincrement, queue |-> q, friend |-> FALSE]
           msg == [type |-> "INIT", id |-> clients_id_autoincrement]
<1>1. s_queue # <<>> /\ Request.type = "INIT"
  BY DEF ServerInit, Receive
<1>2. /\ Request \in Letter /\ Request = s_queue[1] /\ 1 \in DOMAIN s_queue
      /\ Signed(Request) /\ s_queue \in Seq(Letter)
  BY <1>1, RequestIs
<1>3. q \in Clients
  BY <1>1, <1>2 DEF Signed
<1>4. /\ c_open[q] /\ owner' = Append(owner, q) /\ clients' = Append(clients, node)
      /\ clients_id_autoincrement' = clients_id_autoincrement + 1
      /\ outbox' = Tell(q, msg)
      /\ server_pc' = IF Tell(q, msg) = <<>> THEN "receive" ELSE "send"
  BY DEF ServerInit, numbering, Send
<1>5. Tell(q, msg) = <<[to |-> q, msg |-> msg]>> /\ Tell(q, msg) # <<>>
  BY DEF Tell
<1>6. owner \in Seq(Clients) /\ clients_id_autoincrement = Len(owner) + 1
  BY DEF Core, Typed
<1>7. q \notin Given
  <2>1. Request \in Knocks(q)
    BY <1>1, <1>2 DEF Knocks
  <2>2. Count(s_queue, Knocks(q)) \in Nat /\ Count(s_queue, Knocks(q)) >= 1
    BY <1>2, <2>1, CountType
  <2>3. Count(s_queue, Knocks(q)) + (IF q \in Given THEN 1 ELSE 0)
          + (IF main_pc[q] \in {"open", "init", "failed"} THEN 1 ELSE 0) <= 1
    BY <1>3 DEF Core, Once
  <2> QED BY <2>2, <2>3
<1>8. c_id[q] = NoId /\ c_queue[q] = <<>>
  BY <1>3, <1>7 DEF Core, Owners
<1> HIDE DEF q
<1>9. /\ owner' \in Seq(Clients)
      /\ DOMAIN owner = 1 .. Len(owner) /\ DOMAIN owner' = 1 .. Len(owner) + 1
      /\ Len(owner) \in Nat /\ Len(owner') = Len(owner) + 1
      /\ owner'[Len(owner) + 1] = q /\ \A k \in 1 .. Len(owner) : owner'[k] = owner[k]
  BY <1>3, <1>4, <1>6
<1>10. ASSUME NEW k \in DOMAIN owner', NEW m \in DOMAIN owner', owner'[k] = owner'[m]
       PROVE  k = m
  <2>1. \A x \in DOMAIN owner' : x = Len(owner) + 1 \/ x \in DOMAIN owner
    BY <1>9
  <2>2. \A x, y \in DOMAIN owner : owner[x] = owner[y] => x = y
    BY DEF Core, Owners
  <2>3. \A x \in DOMAIN owner : owner[x] # q
    BY <1>7 DEF Given
  <2> QED BY <1>9, <1>10, <2>1, <2>2, <2>3
<1>11. Len(owner) + 1 \in Id
  <2>1. Len(owner') <= Cardinality(Clients)
    BY <1>9, <1>10, DistinctLength, ArgumentsAssumption
  <2> QED BY <1>9, <2>1, ArgumentsAssumption DEF Id
<1>12. clients_id_autoincrement' = Len(owner) + 2
  <2>1. clients_id_autoincrement' = (Len(owner) + 1) + 1
    BY <1>4, <1>6
  <2>2. \A n \in Nat : (n + 1) + 1 = n + 2
    OBVIOUS
  <2> QED BY <1>9, <2>1, <2>2
<1> QED BY <1>3, <1>4, <1>5, <1>6, <1>7, <1>8, <1>9, <1>10, <1>11, <1>12 DEF q

(* The numbers that are given stay with their clients.                      *)
LEMMA OwnersGrow ==
  ASSUME Core, [Next]_vars
  PROVE  /\ \A k \in DOMAIN owner : k \in DOMAIN owner' /\ owner'[k] = owner[k]
         /\ \A c \in Clients : c \in Given => c \in Given'
<1>1. owner' = owner \/ (ServerInit /\ owner' # owner)
  BY StepFrames DEF Core, Frames, numbering
<1>2. \A k \in DOMAIN owner : k \in DOMAIN owner' /\ owner'[k] = owner[k]
  BY <1>1, NewId, IdRange
<1> QED BY <1>2 DEF Given

(* A client takes the first message for its id, and never another.          *)
LEMMA IdsStep ==
  ASSUME Core, [Next]_vars, NEW c \in Clients
  PROVE  \/ c_id'[c] = c_id[c] /\ ~AwaitId(c)
         \/ /\ AwaitId(c) /\ c_id[c] = NoId /\ c_queue[c] # <<>>
            /\ \/ c_id'[c] \in DOMAIN owner /\ owner[c_id'[c]] = c
               \/ c_id'[c] = WrongId /\ ~Serving
            /\ c_id'[c] # NoId /\ UNCHANGED <<server, s_queue, s_open, c_open>>
<1>1. (\E d \in Clients : AwaitId(d)) \/ UNCHANGED c_id
  BY StepFrames DEF Core, Frames
<1>2. ASSUME NEW d \in Clients, AwaitId(d), c # d PROVE c_id'[c] = c_id[c]
  BY <1>2 DEF AwaitId, Core, Typed
<1>3. CASE AwaitId(c)
  <2>1. c_id[c] = NoId /\ c_queue[c] # <<>>
    BY <1>3 DEF AwaitId, Core, Control
  <2>2. c_id'[c] = IF Head(c_queue[c]).type = "INIT" THEN Head(c_queue[c]).id ELSE WrongId
    BY <1>3 DEF AwaitId, Core, Typed
  <2>3. Head(c_queue[c]) = c_queue[c][1] /\ 1 \in DOMAIN c_queue[c]
    BY <2>1, TailRemoveAt DEF Core, Typed
  <2>4. Head(c_queue[c]).type = "INIT" =>
          Head(c_queue[c]).id \in DOMAIN owner /\ owner[Head(c_queue[c]).id] = c
    BY <2>3 DEF Core, Mailed
  <2>5. Serving => Head(c_queue[c]).type = "INIT"
    BY <2>1, <2>3 DEF Core, Mailed
  <2>6. UNCHANGED <<server, s_queue, s_open, c_open>>
    BY <1>3 DEF AwaitId
  <2> QED BY <1>3, <2>1, <2>2, <2>4, <2>5, <2>6, IdRange
<1>4. ASSUME AwaitId(c), NEW d \in Clients, AwaitId(d) PROVE c = d
  BY <1>4 DEF AwaitId, Goto, Core, Typed
<1>5. CASE ~AwaitId(c)
  BY <1>1, <1>2, <1>5
<1> QED BY <1>3, <1>5

-----------------------------------------------------------------------------
(* The queues                                                              *)

(* The server's next mq_send: made, or passed over.                         *)
LEMMA SendStep ==
  ASSUME Core, ServerSend
  PROVE  /\ outbox # <<>> /\ Head(outbox) = outbox[1] /\ 1 \in DOMAIN outbox
         /\ Head(outbox) \in Entry /\ outbox' = Tail(outbox)
         /\ server_pc = "send" /\ server_pc' = IF outbox' = <<>> THEN "receive" ELSE "send"
         /\ UNCHANGED <<clients, owner, clients_id_autoincrement, s_queue, s_open, c_open,
                        c_id, main_pc, exit_pc, receivers, typed, asked, answered>>
         /\ \/ Head(outbox).to \in Clients /\ SendTo(Head(outbox).to, Head(outbox).msg)
            \/ Head(outbox).to = Nobody /\ UNCHANGED <<c_queue, notified, registered>>
<1>1. outbox # <<>> /\ outbox \in Seq(Entry) /\ server_pc = "send"
  BY DEF ServerSend, Core, Control, Typed
<1>2. Head(outbox) = outbox[1] /\ 1 \in DOMAIN outbox /\ Head(outbox) \in Entry
  BY <1>1, TailRemoveAt
<1>3. Head(outbox).to \in Clients \cup {Nobody}
  BY <1>2 DEF Entry
<1>4. outbox' = Tail(outbox) /\ server_pc' = IF outbox' = <<>> THEN "receive" ELSE "send"
  BY DEF ServerSend, Send
<1>5. UNCHANGED <<clients, owner, clients_id_autoincrement, s_queue, s_open, c_open,
                  c_id, main_pc, exit_pc, receivers, typed, asked, answered>>
  BY DEF ServerSend, numbering, users
<1>6. \/ Head(outbox).to # Nobody /\ SendTo(Head(outbox).to, Head(outbox).msg)
      \/ Head(outbox).to = Nobody /\ UNCHANGED <<c_queue, notified, registered>>
  BY DEF ServerSend
<1> QED BY <1>1, <1>2, <1>3, <1>4, <1>5, <1>6

(* Of the STOP that cleanup sends.                                          *)
LEMMA StopStep ==
  ASSUME Core, StopClient
  PROVE  /\ server_pc = "stop" /\ server_pc' = "await" /\ outbox = <<>> /\ clients # <<>>
         /\ UNCHANGED <<clients, owner, clients_id_autoincrement, outbox, s_queue, s_open,
                        c_open, c_id, main_pc, exit_pc, receivers, typed, asked, answered>>
         /\ Head(clients).queue \in Given /\ Given \subseteq Clients
         /\ SendTo(Head(clients).queue, Message("STOP")) /\ Message("STOP") \in Reply
<1>1. clients # <<>> /\ clients \in Seq(Node)
  BY DEF StopClient, Core, Typed
<1>2. Head(clients) = clients[1] /\ 1 \in DOMAIN clients
  BY <1>1, TailRemoveAt
<1>3. Head(clients).queue \in Given
  BY <1>2 DEF Core, Listed, Given
<1>4. Given \subseteq Clients
  BY IdRange DEF Given
<1>5. Message("STOP") \in Reply
  BY Priorities DEF Message, Reply
<1>6. outbox = <<>>
  BY DEF StopClient, Core, Control
<1> QED BY <1>1, <1>3, <1>4, <1>5, <1>6 DEF StopClient, numbering, users

(* A message for a client: the next of a handler's, or the STOP of cleanup. *)
Delivered(c, m) ==
  /\ c_queue'[c] = Insert(c_queue[c], m) /\ Len(c_queue[c]) < Capacity
  /\ UNCHANGED <<c_id, owner, clients, main_pc, exit_pc, receivers, answered>>
  /\ IF c_queue[c] = <<>> /\ registered[c]
       THEN notified'[c] = notified[c] + 1 /\ registered'[c] = FALSE
       ELSE notified'[c] = notified[c] /\ registered'[c] = registered[c]
  /\ \/ StopClient /\ m = Message("STOP") /\ c \in Given /\ ~Serving' /\ UNCHANGED outbox
     \/ /\ ServerSend /\ outbox # <<>> /\ 1 \in DOMAIN outbox
        /\ outbox[1].to = c /\ outbox[1].msg = m /\ outbox' = Tail(outbox)

(* The first message is taken, for the id or by a thread.                   *)
Read(c) ==
  /\ c_queue[c] # <<>> /\ c_queue'[c] = Tail(c_queue[c])
  /\ UNCHANGED <<owner, outbox, server_pc, clients, registered, notified>>
  /\ \/ AwaitId(c) /\ UNCHANGED <<receivers, exit_pc>> /\ main_pc'[c] = "register"
     \/ /\ ReceiveOne(c) /\ receivers[c] > 0 /\ receivers'[c] = receivers[c] - 1
        /\ UNCHANGED <<main_pc, c_id>>

LEMMA SentTo ==
  ASSUME Core, NEW d \in Clients, NEW m \in Reply, SendTo(d, m), NEW c \in Clients
  PROVE  /\ Len(c_queue[d]) < Capacity
         /\ c = d => c_queue'[c] = Insert(c_queue[c], m)
         /\ c = d => IF c_queue[c] = <<>> /\ registered[c]
                       THEN notified'[c] = notified[c] + 1 /\ registered'[c] = FALSE
                       ELSE notified'[c] = notified[c] /\ registered'[c] = registered[c]
         /\ c # d => /\ c_queue'[c] = c_queue[c] /\ notified'[c] = notified[c]
                     /\ registered'[c] = registered[c]
         /\ c_queue' = [c_queue EXCEPT ![d] = Insert(c_queue[d], m)]
         /\ notified' \in [Clients -> Nat] /\ registered' \in [Clients -> BOOLEAN]
<1>1. /\ c_queue \in [Clients -> Seq(Reply)] /\ notified \in [Clients -> Nat]
      /\ registered \in [Clients -> BOOLEAN]
  BY DEF Core, Typed
<1> DEFINE notify == c_queue[d] = <<>> /\ registered[d]
<1>2. /\ Len(c_queue[d]) < Capacity
      /\ c_queue' = [c_queue EXCEPT ![d] = Insert(c_queue[d], m)]
      /\ notified' = IF notify THEN [notified EXCEPT ![d] = @ + 1] ELSE notified
      /\ registered' = IF notify THEN [registered EXCEPT ![d] = FALSE] ELSE registered
  BY DEF SendTo, HasRoom
<1> HIDE DEF notify
<1>3. notified' \in [Clients -> Nat] /\ registered' \in [Clients -> BOOLEAN]
  BY <1>1, <1>2
<1>4. CASE c = d
  <2>1. c_queue'[c] = Insert(c_queue[c], m)
    BY <1>1, <1>2, <1>4
  <2>2. IF notify THEN notified'[c] = notified[c] + 1 /\ registered'[c] = FALSE
                  ELSE notified'[c] = notified[c] /\ registered'[c] = registered[c]
    BY <1>1, <1>2, <1>4
  <2> QED BY <1>2, <1>3, <1>4, <2>1, <2>2 DEF notify
<1>5. CASE c # d
  BY <1>1, <1>2, <1>3, <1>5
<1> QED BY <1>4, <1>5

LEMMA MailStep ==
  ASSUME Core, [Next]_vars, NEW c \in Clients
  PROVE  \/ c_queue'[c] = c_queue[c]
         \/ \E m \in Reply : Delivered(c, m)
         \/ Read(c)
<1>1. Frames
  BY StepFrames DEF Core
<1>2. c_queue \in [Clients -> Seq(Reply)] /\ receivers \in [Clients -> Nat]
      /\ main_pc \in [Clients -> MainPC]
  BY DEF Core, Typed
<1>3. CASE ServerSend
  <2>1. CASE c_queue' = c_queue
    BY <2>1
  <2>2. CASE Head(outbox).to \in Clients /\ SendTo(Head(outbox).to, Head(outbox).msg)
    <3>1. Head(outbox).msg \in Reply
      BY <1>3, SendStep DEF Entry
    <3>2. CASE c = Head(outbox).to
      <4>1. PICK m \in Reply : m = Head(outbox).msg
        BY <3>1
      <4>2. SendTo(c, m)
        BY <2>2, <3>2, <4>1
      <4>3. /\ Len(c_queue[c]) < Capacity /\ c_queue'[c] = Insert(c_queue[c], m)
            /\ IF c_queue[c] = <<>> /\ registered[c]
                 THEN notified'[c] = notified[c] + 1 /\ registered'[c] = FALSE
                 ELSE notified'[c] = notified[c] /\ registered'[c] = registered[c]
        BY <4>2, SentTo
      <4>4. /\ UNCHANGED <<c_id, owner, clients, main_pc, exit_pc, receivers, answered>>
            /\ outbox # <<>> /\ 1 \in DOMAIN outbox
            /\ outbox[1].to = c /\ outbox[1].msg = m /\ outbox' = Tail(outbox)
        BY <1>3, <3>2, <4>1, SendStep
      <4>5. Delivered(c, m)
        BY <1>3, <4>3, <4>4 DEF Delivered
      <4> QED BY <4>5
    <3>3. CASE c # Head(outbox).to
      BY <2>2, <3>1, <3>3, SentTo
    <3> QED BY <3>2, <3>3
  <2> QED BY <1>3, <2>1, <2>2, SendStep
<1>4. CASE StopClient
  <2>1. CASE c = Head(clients).queue
    <3>1. ~Serving'
      BY <1>4, StopStep DEF Serving
    <3>2. Delivered(c, Message("STOP"))
      BY <1>4, <2>1, <3>1, StopStep, SentTo DEF Delivered
    <3> QED BY <1>4, <3>2, StopStep
  <2>2. CASE c # Head(clients).queue
    BY <1>4, <2>2, StopStep, SentTo
  <2> QED BY <2>1, <2>2
<1>5. ASSUME NEW d \in Clients, AwaitId(d)
      PROVE  c_queue'[c] = c_queue[c] \/ Read(c)
  BY <1>2, <1>5 DEF AwaitId, Goto, Read, server, numbering
<1>6. ASSUME NEW d \in Clients, ReceiveOne(d)
      PROVE  c_queue'[c] = c_queue[c] \/ Read(c)
  BY <1>2, <1>6 DEF ReceiveOne, Read, server, numbering
<1> QED BY <1>1, <1>3, <1>4, <1>5, <1>6 DEF Frames

(* Who has read a message, has an id.                                       *)
LEMMA ReadersKnown ==
  ASSUME Core, [Next]_vars, NEW c \in Clients, Read(c)
  PROVE  c_id'[c] # NoId
<1>1. CASE AwaitId(c)
  BY <1>1, IdsStep
<1>2. CASE receivers[c] > 0
  <2>1. c_id[c] # NoId
    BY <1>2 DEF Core, Notification, Quiet
  <2> QED BY <2>1, IdsStep
<1> QED BY <1>1, <1>2 DEF Read

(* Who is introduced remains so.                                            *)
LEMMA IntroducedStays ==
  ASSUME Core, [Next]_vars, NEW c \in Clients, Introduced(c)
  PROVE  Introduced(c)'
<1>1. c_id[c] # NoId => c_id'[c] # NoId
  BY IdsStep
<1>2. CASE c_id'[c] # NoId
  BY <1>2 DEF Introduced
<1>3. CASE c_queue'[c] = c_queue[c]
  BY <1>1, <1>3 DEF Introduced
<1>4. ASSUME NEW m \in Reply, Delivered(c, m) PROVE Introduced(c)'
  <2>1. c_queue[c] \in Seq(Reply)
    BY DEF Core, Typed
  <2>2. c_queue'[c] # <<>>
    BY <1>4, <2>1, InsertEffect DEF Delivered
  <2> QED BY <2>2 DEF Introduced
<1> QED BY <1>2, <1>3, <1>4, MailStep, ReadersKnown

(* A message is taken from the server's queue.                              *)
Taken ==
  /\ s_queue # <<>> /\ s_queue' = Tail(s_queue)
  /\ UNCHANGED <<c_queue, c_open, c_id, main_pc, exit_pc, registered, notified, receivers,
                 typed, asked, answered>>
  /\ \/ Taking /\ server_pc = "receive"
     \/ AwaitStop /\ UNCHANGED owner

(* A client sends the server a message.                                     *)
Added(c, m) ==
  /\ s_queue' = Insert(s_queue, m) /\ Len(s_queue) < Capacity
  /\ UNCHANGED <<owner, c_id, server_pc, outbox>>
  /\ \/ /\ SendInit(c) /\ m.type = "INIT" /\ m.queue = c /\ m.id = NoId
        /\ main_pc[c] = "init" /\ main_pc' = [main_pc EXCEPT ![c] = "await"]
        /\ UNCHANGED exit_pc
     \/ /\ SendCommand(c) /\ UNCHANGED <<main_pc, exit_pc>>
        /\ m.type \in Requests \cup Broadcasts /\ m.id = c_id[c] /\ c_id[c] # NoId
     \/ /\ SendStop(c) /\ UNCHANGED main_pc /\ exit_pc' = [exit_pc EXCEPT ![c] = "gone"]
        /\ m.type = "STOP" /\ m.id = c_id[c]

LEMMA QueueStep ==
  ASSUME Core, [Next]_vars
  PROVE  \/ UNCHANGED s_queue /\ ~Taking
         \/ Taken
         \/ \E c \in Clients, m \in Letter : Added(c, m)
<1>1. Frames
  BY StepFrames DEF Core
<1>2. ASSUME Taking PROVE Taken
  <2>1. /\ server_pc = "receive" /\ s_queue # <<>> /\ s_queue' = Tail(s_queue)
        /\ UNCHANGED <<s_open, c_queue, c_open, threads, users>>
    BY <1>2 DEF Taking, Receive, ServerInit, ServerEcho, ServerList, Server2Many, Server2One,
                ServerStop
  <2> QED BY <1>2, <2>1 DEF Taken, threads, users
<1>3. ASSUME AwaitStop PROVE Taken
  BY <1>3 DEF AwaitStop, Taken, threads, users, numbering
<1>4. ASSUME NEW c \in Clients, SendInit(c) PROVE \E m \in Letter : Added(c, m)
  <2> DEFINE m == [type |-> "INIT", id |-> NoId, queue |-> c, args |-> {}]
  <2>1. m \in Letter
    BY Priorities DEF Letter
  <2>2. Added(c, m)
    BY <1>4 DEF SendInit, SendToServer, Added, HasRoom, Goto, server, numbering
  <2> QED BY <2>1, <2>2
<1>5. ASSUME NEW c \in Clients, SendCommand(c) PROVE \E m \in Letter : Added(c, m)
  <2>1. PICK type \in Commands, args \in SUBSET Id :
          SendToServer([type |-> type, id |-> c_id[c], queue |-> Nobody, args |-> args])
    BY <1>5 DEF SendCommand
  <2> DEFINE m == [type |-> type, id |-> c_id[c], queue |-> Nobody, args |-> args]
  <2>2. type \in Requests \cup Broadcasts /\ type \in Types
    BY ArgumentsAssumption DEF Types
  <2>3. m \in Letter
    BY <2>2, IdRange DEF Letter
  <2>4. c_id[c] # NoId
    BY <1>5 DEF SendCommand, Core, Control
  <2>5. UNCHANGED <<owner, c_id, server_pc, outbox, main_pc, exit_pc>>
    BY <1>5 DEF SendCommand, server, numbering, threads
  <2>6. Added(c, m)
    BY <1>5, <2>1, <2>2, <2>4, <2>5 DEF Added, SendToServer, HasRoom
  <2> QED BY <2>3, <2>6
<1>6. ASSUME NEW c \in Clients, SendStop(c) PROVE \E m \in Letter : Added(c, m)
  <2> DEFINE m == [type |-> "STOP", id |-> c_id[c], queue |-> Nobody, args |-> {}]
  <2>1. m \in Letter
    BY Priorities, IdRange DEF Letter
  <2>2. Added(c, m)
    BY <1>6 DEF SendStop, SendToServer, Added, HasRoom, Goto, server, numbering
  <2> QED BY <2>1, <2>2
<1> QED BY <1>1, <1>2, <1>3, <1>4, <1>5, <1>6 DEF Frames

-----------------------------------------------------------------------------
(* The steps of the parts of the invariant                                 *)

LEMMA OwnersStep == ASSUME Core, [Next]_vars PROVE Owners'
<1>1. \A k, m \in DOMAIN owner' : owner'[k] = owner'[m] => k = m
  <2>1. owner' = owner \/ (ServerInit /\ owner' # owner)
    BY StepFrames DEF Core, Frames, numbering
  <2> QED BY <2>1, NewId DEF Core, Owners
<1>2. ASSUME NEW c \in Clients, c_id'[c] \in Id
      PROVE  c_id'[c] \in DOMAIN owner' /\ owner'[c_id'[c]] = c
  <2>1. c_id'[c] \in DOMAIN owner /\ owner[c_id'[c]] = c
    BY <1>2, IdsStep, IdRange DEF Core, Owners
  <2> QED BY <2>1, OwnersGrow
<1>3. ASSUME NEW c \in Clients, c_id'[c] # NoId \/ c_queue'[c] # <<>>
      PROVE  c \in Given'
  <2>1. CASE c_id[c] # NoId \/ c_queue[c] # <<>>
    BY <2>1, OwnersGrow DEF Core, Owners
  <2>2. CASE c_id[c] = NoId /\ c_queue[c] = <<>>
    <3>1. c_id'[c] = NoId
      BY <2>2, IdsStep
    <3>2. PICK m \in Reply : Delivered(c, m)
      BY <1>3, <2>2, <3>1, MailStep DEF Read
    <3>3. CASE c \in Given
      BY <3>3, OwnersGrow
    <3>4. CASE 1 \in DOMAIN outbox /\ outbox[1].to = c
      <4>1. Sent(outbox[1]) /\ c # Nobody
        BY <3>4, ArgumentsAssumption DEF Core, Outgoing
      <4>2. c \in Given
        BY <3>4, <4>1 DEF Sent, Given
      <4> QED BY <4>2, OwnersGrow
    <3> QED BY <3>2, <3>3, <3>4 DEF Delivered
  <2> QED BY <2>1, <2>2
<1> QED BY <1>1, <1>2, <1>3 DEF Owners

LEMMA ControlStep == ASSUME Core, [Next]_vars PROVE Control'
<1>1. Frames
  BY StepFrames DEF Core
<1>2. server_pc' = "send" <=> outbox' # <<>>
  <2>1. CASE Taking
    <3>1. \/ \E msgs : Send(msgs)
          \/ Fail
      BY <2>1 DEF Taking, ServerInit, ServerEcho, ServerList, Server2Many, Server2One,
                  ServerStop, Answer
    <3> QED BY <3>1 DEF Send, Fail
  <2>2. CASE ServerSend
    BY <2>2, SendStep
  <2>3. CASE ServerInterrupt
    BY <2>3 DEF ServerInterrupt, Fail
  <2> QED BY <1>1, <2>1, <2>2, <2>3 DEF Frames, Core, Control
<1>3. server_pc' = "await" => clients' # <<>>
  <2>1. CASE Taking
    <3>1. (\E msgs : Send(msgs)) \/ Fail
      BY <2>1 DEF Taking, ServerInit, ServerEcho, ServerList, Server2Many, Server2One,
                  ServerStop, Answer
    <3> QED BY <3>1 DEF Send, Fail
  <2>2. CASE ServerSend
    BY <2>2, SendStep
  <2>3. CASE StopClient
    BY <2>3, StopStep
  <2>4. CASE ServerInterrupt \/ AwaitStop \/ RemoveServerQueue
    BY <2>4 DEF ServerInterrupt, Fail, AwaitStop, RemoveServerQueue
  <2>5. CASE UNCHANGED server_pc /\ ~Taking /\ ~AwaitStop
    BY <1>1, <2>5 DEF Frames, Taking, Core, Control
  <2> QED BY <1>1, <2>1, <2>2, <2>3, <2>4, <2>5 DEF Frames
<1> SUFFICES ASSUME NEW c \in Clients
             PROVE  /\ main_pc'[c] = "open" => exit_pc'[c] = "none"
                    /\ main_pc'[c] = "failed" => exit_pc'[c] = "gone"
                    /\ main_pc'[c] \in {"open", "init", "await", "failed"} => c_id'[c] = NoId
                    /\ main_pc'[c] \in {"register", "idle"} => c_id'[c] # NoId
                    /\ main_pc'[c] # "open" /\ ~c_open'[c] => exit_pc'[c] \in {"bye", "gone"}
  BY <1>2, <1>3 DEF Control
<1>4. MovesOn(c) /\ Cleans(c)
  BY <1>1 DEF Frames
<1>5. /\ main_pc[c] = "open" => exit_pc[c] = "none"
      /\ main_pc[c] = "failed" => exit_pc[c] = "gone"
      /\ main_pc[c] \in {"open", "init", "await", "failed"} => c_id[c] = NoId
      /\ main_pc[c] \in {"register", "idle"} => c_id[c] # NoId
      /\ main_pc[c] # "open" /\ ~c_open[c] => exit_pc[c] \in {"bye", "gone"}
  BY DEF Core, Control
<1>6. main_pc[c] = "open" => ~ReceiveOne(c)
  <2>1. c_id[c] = NoId => ~(receivers[c] > 0)
    BY DEF Core, Notification, Quiet
  <2> QED BY <1>5, <2>1 DEF ReceiveOne
<1>7. \/ c_open'[c] = c_open[c]
      \/ OpenQueues(c)
      \/ UnlinkQueue(c)
  BY <1>1 DEF Frames, OpenQueues, UnlinkQueue, Core, Typed
<1>8. OpenQueues(c) => /\ main_pc[c] = "open" /\ c_open'[c] = s_open
                       /\ s_open => main_pc'[c] = "init" /\ exit_pc'[c] = "none"
                       /\ ~s_open => main_pc'[c] = "failed" /\ exit_pc'[c] = "gone"
  BY DEF OpenQueues, Goto, Core, Typed
<1>9. UnlinkQueue(c) => exit_pc'[c] = "bye" /\ main_pc'[c] = main_pc[c] /\ exit_pc[c] = "unlink"
  BY DEF UnlinkQueue, Goto, Core, Typed
<1>10. AwaitId(c) => main_pc[c] = "await" /\ main_pc'[c] = "register"
  BY DEF AwaitId, Goto, Core, Typed
<1>11. \/ c_id'[c] = c_id[c] /\ ~AwaitId(c)
       \/ c_id'[c] # NoId /\ AwaitId(c)
  BY IdsStep
<1>12. c_open[c] \in BOOLEAN /\ s_open \in BOOLEAN
  BY DEF Core, Typed
<1>13. main_pc'[c] = "open" => main_pc[c] = "open" /\ ~OpenQueues(c)
  BY <1>4, <1>8 DEF MovesOn
<1>14. main_pc'[c] = "open" => exit_pc'[c] = "none"
  BY <1>4, <1>5, <1>6, <1>13 DEF Cleans
<1>15. main_pc'[c] = "failed" => exit_pc'[c] = "gone"
  BY <1>4, <1>5, <1>8 DEF MovesOn, Cleans
<1>16. main_pc'[c] # "open" /\ ~c_open'[c] => exit_pc'[c] \in {"bye", "gone"}
  <2>1. CASE OpenQueues(c)
    BY <1>8, <1>12, <2>1
  <2>2. CASE UnlinkQueue(c)
    BY <1>9, <2>2
  <2>3. CASE c_open'[c] = c_open[c] /\ ~OpenQueues(c)
    BY <1>4, <1>5, <2>3 DEF MovesOn, Cleans
  <2> QED BY <1>7, <2>1, <2>2, <2>3
<1>17. main_pc'[c] \in {"open", "init", "await", "failed"} => c_id'[c] = NoId
  BY <1>4, <1>5, <1>10, <1>11 DEF MovesOn
<1>18. main_pc'[c] \in {"register", "idle"} => c_id'[c] # NoId
  BY <1>4, <1>5, <1>11 DEF MovesOn
<1> QED BY <1>14, <1>15, <1>16, <1>17, <1>18

(* The threads of a client, and what its queue holds.                       *)
Threads(c) ==
  /\ notified[c] + receivers[c] <= Len(c_queue[c])
  /\ notified[c] <= 1 /\ (registered[c] => notified[c] = 0)
  /\ main_pc[c] = "idle" /\ exit_pc[c] = "none" => registered[c] \/ notified[c] = 1
  /\ c_id[c] = NoId \/ main_pc[c] = "register" => Quiet(c)

LEMMA NotificationStep == ASSUME Core, [Next]_vars PROVE Notification'
<1>1. Frames
  BY StepFrames DEF Core
<1> SUFFICES ASSUME NEW c \in Clients PROVE Threads(c)'
  BY DEF Notification, Threads, Quiet
<1>2. /\ c_queue[c] \in Seq(Reply) /\ Len(c_queue[c]) \in Nat
      /\ notified[c] \in Nat /\ receivers[c] \in Nat /\ registered[c] \in BOOLEAN
      /\ notified \in [Clients -> Nat] /\ receivers \in [Clients -> Nat]
      /\ registered \in [Clients -> BOOLEAN] /\ main_pc \in [Clients -> MainPC]
      /\ exit_pc \in [Clients -> ExitPC] /\ c_queue \in [Clients -> Seq(Reply)]
  BY DEF Core, Typed
<1>3. Threads(c)
  BY DEF Core, Notification, Threads
<1>4. MovesOn(c) /\ Cleans(c)
  BY <1>1 DEF Frames
(* Nothing but the moves of main_pc and exit_pc.                            *)
<1>5. ASSUME UNCHANGED <<notified, receivers, registered>>, ~Register(c),
             c_queue'[c] = c_queue[c], c_id'[c] = c_id[c], ~AwaitId(c)
      PROVE  Threads(c)'
  <2>1. main_pc'[c] \in {"idle", "register"} => main_pc'[c] = main_pc[c]
    BY <1>4, <1>5 DEF MovesOn
  <2>2. exit_pc'[c] = "none" => exit_pc[c] = "none"
    BY <1>4 DEF Cleans
  <2> QED BY <1>3, <1>5, <2>1, <2>2 DEF Threads, Quiet
<1>6. ASSUME NEW m \in Reply, Delivered(c, m) PROVE Threads(c)'
  <2>1. Len(c_queue'[c]) = Len(c_queue[c]) + 1
    BY <1>2, <1>6, InsertEffect DEF Delivered
  <2>2. UNCHANGED <<receivers, main_pc, exit_pc, c_id>>
    BY <1>6 DEF Delivered
  <2>3. CASE c_queue[c] = <<>> /\ registered[c]
    <3>1. notified'[c] = notified[c] + 1 /\ registered'[c] = FALSE
      BY <1>6, <2>3 DEF Delivered
    <3>2. notified[c] = 0 /\ ~(c_id[c] = NoId \/ main_pc[c] = "register")
      BY <1>3, <2>3 DEF Threads, Quiet
    <3>3. notified'[c] = 1 /\ 1 + receivers[c] <= Len(c_queue[c]) + 1
      BY <1>2, <1>3, <3>1, <3>2 DEF Threads
    <3> QED BY <2>1, <2>2, <3>1, <3>2, <3>3 DEF Threads, Quiet
  <2>4. CASE ~(c_queue[c] = <<>> /\ registered[c])
    <3>1. notified'[c] = notified[c] /\ registered'[c] = registered[c]
      BY <1>6, <2>4 DEF Delivered
    <3>2. notified[c] + receivers[c] <= Len(c_queue[c]) + 1
      BY <1>2, <1>3 DEF Threads
    <3> QED BY <1>3, <2>1, <2>2, <3>1, <3>2 DEF Threads, Quiet
  <2> QED BY <2>3, <2>4
<1>7. ASSUME Read(c) PROVE Threads(c)'
  <2>1. Len(c_queue'[c]) = Len(c_queue[c]) - 1 /\ Len(c_queue[c]) \in Nat \ {0}
    BY <1>2, <1>7, TailRemoveAt DEF Read
  <2>2. notified'[c] = notified[c] /\ registered'[c] = registered[c]
    BY <1>7 DEF Read
  <2>3. CASE AwaitId(c) /\ UNCHANGED <<receivers, exit_pc>> /\ main_pc'[c] = "register"
    <3>1. c_id[c] = NoId
      BY <2>3, IdsStep
    <3>2. Quiet(c)
      BY <1>3, <3>1 DEF Threads
    <3>3. Len(c_queue[c]) - 1 >= 0
      BY <2>1
    <3> QED BY <2>1, <2>2, <2>3, <3>2, <3>3 DEF Threads, Quiet
  <2>4. CASE /\ ReceiveOne(c) /\ receivers[c] > 0 /\ receivers'[c] = receivers[c] - 1
             /\ UNCHANGED <<main_pc, c_id>>
    <3>1. notified[c] + (receivers[c] - 1) <= Len(c_queue[c]) - 1
      BY <1>2, <1>3, <2>1 DEF Threads
    <3>2. ~(c_id[c] = NoId \/ main_pc[c] = "register")
      BY <1>3, <2>4 DEF Threads, Quiet
    <3>3. exit_pc'[c] = "none" => exit_pc[c] = "none"
      BY <1>4 DEF Cleans
    <3> QED BY <1>3, <2>1, <2>2, <2>4, <3>1, <3>2, <3>3 DEF Threads, Quiet
  <2> QED BY <1>7, <2>3, <2>4 DEF Read
<1>8. ASSUME NEW d \in Clients, Register(d) PROVE Threads(c)'
  <2>1. CASE d = c
    <3>1. /\ UNCHANGED <<c_queue, c_id, notified, receivers, exit_pc>>
          /\ registered'[c] = TRUE /\ main_pc'[c] = "idle" /\ main_pc[c] = "register"
      BY <1>2, <1>8, <2>1 DEF Register, Goto, queues
    <3>2. Quiet(c) /\ c_id[c] # NoId
      BY <1>3, <3>1 DEF Threads, Core, Control
    <3> QED BY <1>3, <3>1, <3>2 DEF Threads, Quiet
  <2>2. CASE d # c
    <3>1. UNCHANGED <<c_queue, c_id, notified, receivers, exit_pc>>
          /\ registered'[c] = registered[c] /\ main_pc'[c] = main_pc[c]
      BY <1>2, <1>8, <2>2 DEF Register, Goto, queues
    <3> QED BY <1>3, <3>1 DEF Threads, Quiet
  <2> QED BY <2>1, <2>2
<1>9. ASSUME NEW d \in Clients, Reregister(d) PROVE Threads(c)'
  <2>1. CASE d = c
    <3>1. /\ UNCHANGED <<c_queue, c_id, main_pc, exit_pc>> /\ notified[c] > 0
          /\ notified'[c] = notified[c] - 1 /\ receivers'[c] = receivers[c] + 1
          /\ registered'[c] = TRUE
      BY <1>2, <1>9, <2>1 DEF Reregister, queues
    <3>2. notified[c] = 1 /\ notified'[c] = 0
      BY <1>2, <1>3, <3>1 DEF Threads
    <3>3. 0 + (receivers[c] + 1) <= Len(c_queue[c])
      BY <1>2, <1>3, <3>2 DEF Threads
    <3>4. ~(c_id[c] = NoId \/ main_pc[c] = "register")
      BY <1>3, <3>1 DEF Threads, Quiet
    <3> QED BY <3>1, <3>2, <3>3, <3>4 DEF Threads, Quiet
  <2>2. CASE d # c
    <3>1. UNCHANGED <<c_queue, c_id, main_pc, exit_pc>>
          /\ registered'[c] = registered[c] /\ notified'[c] = notified[c]
          /\ receivers'[c] = receivers[c]
      BY <1>2, <1>9, <2>2 DEF Reregister, queues
    <3> QED BY <1>3, <3>1 DEF Threads, Quiet
  <2> QED BY <2>1, <2>2
<1>10. ASSUME NEW d \in Clients, CloseQueue(d) PROVE Threads(c)'
  <2>1. /\ UNCHANGED <<c_queue, c_id, main_pc, notified, receivers>>
        /\ registered'[c] \in {FALSE, registered[c]}
        /\ d = c => exit_pc'[c] = "unlink"
        /\ d # c => registered'[c] = registered[c] /\ exit_pc'[c] = exit_pc[c]
    BY <1>2, <1>10 DEF CloseQueue, Goto, queues
  <2> QED BY <1>3, <2>1 DEF Threads, Quiet
<1>11. ASSUME NEW d \in Clients, d # c, ReceiveOne(d) PROVE Threads(c)'
  <2>1. /\ UNCHANGED <<c_id, main_pc, notified, registered>>
        /\ c_queue'[c] = c_queue[c] /\ receivers'[c] = receivers[c]
        /\ exit_pc'[c] = exit_pc[c]
    BY <1>2, <1>11 DEF ReceiveOne, Exit, Goto, Core, Typed
  <2> QED BY <1>3, <2>1 DEF Threads, Quiet
<1>12. ASSUME ServerSend \/ StopClient, c_queue'[c] = c_queue[c] PROVE Threads(c)'
  <2>1. ~\E m \in Reply : Delivered(c, m)
    <3> SUFFICES ASSUME NEW m \in Reply, Delivered(c, m) PROVE FALSE
      OBVIOUS
    <3>1. Len(c_queue'[c]) = Len(c_queue[c]) + 1
      BY <1>2, InsertEffect DEF Delivered
    <3>2. Len(c_queue[c]) + 1 # Len(c_queue[c])
      BY <1>2
    <3> QED BY <1>12, <3>1, <3>2
  <2>2. /\ notified'[c] = notified[c] /\ registered'[c] = registered[c]
        /\ UNCHANGED <<receivers, main_pc, exit_pc, c_id>>
    <3>1. CASE ServerSend
      <4>1. CASE Head(outbox).to \in Clients /\ SendTo(Head(outbox).to, Head(outbox).msg)
        <5>1. Head(outbox).msg \in Reply
          BY <3>1, SendStep DEF Entry
        <5>2. c # Head(outbox).to
          BY <2>1, <3>1, <4>1, <5>1, SendStep, SentTo DEF Delivered
        <5> QED BY <3>1, <4>1, <5>1, <5>2, SendStep, SentTo
      <4> QED BY <3>1, <4>1, SendStep
    <3>2. CASE StopClient
      <4>1. c # Head(clients).queue
        BY <2>1, <3>2, StopStep, SentTo DEF Delivered, Serving
      <4> QED BY <3>2, <4>1, StopStep, SentTo
    <3> QED BY <1>12, <3>1, <3>2
  <2> QED BY <1>3, <1>12, <2>2 DEF Threads, Quiet
<1>13. ASSUME AwaitId(c) \/ ReceiveOne(c) PROVE Threads(c)'
  <2>1. ASSUME AwaitId(c) PROVE Read(c)
    BY <1>2, <2>1 DEF AwaitId, Goto, Read, server, numbering
  <2>2. ASSUME ReceiveOne(c) PROVE Read(c)
    BY <1>2, <2>2 DEF ReceiveOne, Read, server, numbering
  <2> QED BY <1>7, <1>13, <2>1, <2>2
<1>14. c_id'[c] = c_id[c] \/ AwaitId(c)
  BY IdsStep
<1>15. CASE c_queue'[c] = c_queue[c]
  BY <1>1, <1>5, <1>8, <1>9, <1>10, <1>11, <1>12, <1>13, <1>14, <1>15 DEF Frames
<1> QED BY <1>6, <1>7, <1>15, MailStep

LEMMA OnceStep == ASSUME Core, [Next]_vars PROVE Once'
<1>1. Frames
  BY StepFrames DEF Core
<1> SUFFICES ASSUME NEW c \in Clients
             PROVE  Count(s_queue', Knocks(c)) + (IF c \in Given' THEN 1 ELSE 0)
                      + (IF main_pc'[c] \in {"open", "init", "failed"} THEN 1 ELSE 0) <= 1
  BY DEF Once, Knocks
<1> DEFINE n == Count(s_queue, Knocks(c))
           given == IF c \in Given THEN 1 ELSE 0
           fresh == IF main_pc[c] \in {"open", "init", "failed"} THEN 1 ELSE 0
<1>2. s_queue \in Seq(Letter) /\ n \in Nat /\ n + given + fresh <= 1
  BY CountType DEF Core, Typed, Once
<1>3. main_pc'[c] \in {"open", "init", "failed"} => main_pc[c] \in {"open", "init", "failed"}
  BY <1>1 DEF Frames, MovesOn
<1>4. CASE owner' = owner /\ UNCHANGED s_queue
  BY <1>2, <1>3, <1>4 DEF Given
<1>5. CASE Taken
  <2>1. Count(s_queue', Knocks(c)) = n - (IF Request \in Knocks(c) THEN 1 ELSE 0)
    BY <1>2, <1>5, CountTail DEF Taken, Request
  <2>2. CASE owner' = owner
    BY <1>2, <1>3, <2>1, <2>2 DEF Given
  <2>3. CASE owner' # owner
    <3>1. ServerInit
      BY <1>1, <2>3 DEF Frames, numbering
    <3>2. Given' = Given \cup {Request.queue} /\ Request.queue \notin Given
      <4>1. /\ Request.queue \notin Given /\ DOMAIN owner' = 1 .. Len(owner) + 1
            /\ owner'[Len(owner) + 1] = Request.queue
            /\ \A k \in DOMAIN owner : owner'[k] = owner[k]
        BY <2>3, <3>1, NewId
      <4>2. \A k \in DOMAIN owner' : k = Len(owner) + 1 \/ k \in DOMAIN owner
        BY <4>1, IdRange
      <4>3. Len(owner) + 1 \in DOMAIN owner' /\ \A k \in DOMAIN owner : k \in DOMAIN owner'
        BY <4>1, IdRange
      <4> QED BY <4>1, <4>2, <4>3 DEF Given
    <3>3. CASE c = Request.queue
      <4>1. Request \in Knocks(c)
        BY <1>5, <3>1, <3>3, RequestIs DEF Knocks, ServerInit, Receive, Taken
      <4>2. given = 0
        BY <3>2, <3>3
      <4> QED BY <1>2, <1>3, <2>1, <3>2, <4>1, <4>2
    <3>4. CASE c # Request.queue
      <4>1. c \in Given' <=> c \in Given
        BY <3>2, <3>4
      <4> QED BY <1>2, <1>3, <2>1, <4>1
    <3> QED BY <3>3, <3>4
  <2> QED BY <2>2, <2>3
<1>6. ASSUME NEW d \in Clients, NEW m \in Letter, Added(d, m)
      PROVE  Count(s_queue', Knocks(c)) + (IF c \in Given' THEN 1 ELSE 0)
               + (IF main_pc'[c] \in {"open", "init", "failed"} THEN 1 ELSE 0) <= 1
  <2>1. Given' = Given
    BY <1>6 DEF Added, Given
  <2>2. Count(s_queue', Knocks(c)) = n + (IF m \in Knocks(c) THEN 1 ELSE 0)
    BY <1>2, <1>6, CountInsert DEF Added
  <2>3. CASE m \in Knocks(c)
    <3>1. m.type = "INIT" /\ m.queue = c
      BY <2>3 DEF Knocks
    <3>2. main_pc[c] = "init" /\ main_pc'[c] = "await"
      BY <1>6, <3>1 DEF Added, Requests, Broadcasts, Core, Typed
    <3> QED BY <1>2, <2>1, <2>2, <2>3, <3>2
  <2>4. CASE m \notin Knocks(c)
    BY <1>2, <1>3, <2>1, <2>2, <2>4
  <2> QED BY <2>3, <2>4
<1>7. UNCHANGED s_queue /\ ~Taking => owner' = owner
  BY <1>1 DEF Frames, Taking, numbering
<1> QED BY <1>4, <1>5, <1>6, <1>7, QueueStep

LEMMA LettersStep == ASSUME Core, [Next]_vars PROVE Letters'
<1>1. Frames
  BY StepFrames DEF Core
<1>2. ASSUME NEW m, Signed(m) PROVE Signed(m)'
  <2>1. ASSUME m.id \in DOMAIN owner, c_id[owner[m.id]] = m.id
        PROVE  /\ m.id \in DOMAIN owner' /\ c_id'[owner'[m.id]] = m.id
               /\ exit_pc[owner[m.id]] = "gone" => exit_pc'[owner'[m.id]] = "gone"
    <3>1. owner[m.id] \in Clients /\ m.id # NoId
      BY <2>1, IdRange
    <3>2. c_id'[owner[m.id]] = m.id
      BY <2>1, <3>1, IdsStep
    <3>3. exit_pc[owner[m.id]] = "gone" => exit_pc'[owner[m.id]] = "gone"
      BY <1>1, <3>1 DEF Frames, Cleans
    <3> QED BY <2>1, <3>2, <3>3, OwnersGrow
  <2>2. ~Serving => ~Serving'
    BY ServingStays
  <2>3. CASE m.type = "INIT" /\ m.id = NoId /\ m.queue \in Clients
    BY <2>3 DEF Signed
  <2>4. CASE /\ m.type # "INIT" /\ m.id \in DOMAIN owner /\ c_id[owner[m.id]] = m.id
             /\ m.type = "STOP" => exit_pc[owner[m.id]] = "gone"
    BY <2>1, <2>4 DEF Signed
  <2>5. CASE m.type # "INIT" /\ m.id = WrongId /\ ~Serving
    BY <2>2, <2>5 DEF Signed
  <2>6. CASE m.type = "STOP" /\ m.id = NoId
    BY <2>6 DEF Signed
  <2> QED BY <1>2, <2>3, <2>4, <2>5, <2>6 DEF Signed
<1>3. s_queue \in Seq(Letter) /\ \A i \in DOMAIN s_queue : Signed(s_queue[i])
  BY DEF Core, Letters, Typed
<1> SUFFICES ASSUME NEW j \in DOMAIN s_queue' PROVE \E m : m = s_queue'[j] /\ Signed(m)'
  <2>1. ASSUME NEW i, NEW m, m = s_queue'[i], Signed(m)' PROVE Signed(s_queue[i])'
    BY <2>1 DEF Signed
  <2> QED BY <2>1 DEF Letters
<1>4. CASE UNCHANGED s_queue
  BY <1>2, <1>3, <1>4
<1>5. CASE Taken
  <2>1. \E i \in DOMAIN s_queue : s_queue'[j] = s_queue[i]
    <3>1. /\ DOMAIN s_queue' = 1 .. Len(s_queue) - 1 /\ Len(s_queue) \in Nat
          /\ \A i \in 1 .. Len(s_queue) - 1 : s_queue'[i] = s_queue[i + 1]
      BY <1>3, <1>5, TailRemoveAt DEF Taken
    <3>2. DOMAIN s_queue = 1 .. Len(s_queue)
      BY <1>3
    <3>3. j + 1 \in 1 .. Len(s_queue)
      BY <3>1
    <3> QED BY <3>1, <3>2, <3>3
  <2> QED BY <1>2, <1>3, <2>1
<1>6. ASSUME NEW c \in Clients, NEW m \in Letter, Added(c, m)
      PROVE  \E n : n = s_queue'[j] /\ Signed(n)'
  <2>1. s_queue'[j] = m \/ \E i \in DOMAIN s_queue : s_queue'[j] = s_queue[i]
    BY <1>3, <1>6, InsertEffect DEF Added
  <2>2. Signed(m)'
    <3>1. UNCHANGED <<owner, c_id, server_pc>>
      BY <1>6 DEF Added
    <3>2. CASE m.type = "INIT" /\ m.queue = c /\ m.id = NoId
      BY <3>2 DEF Signed
    <3>3. CASE m.id = c_id[c] /\ m.type # "INIT" /\ (m.type = "STOP" => exit_pc'[c] = "gone")
               /\ (c_id[c] = NoId => m.type = "STOP")
      <4>1. CASE c_id[c] \in Id
        <5>1. c_id[c] \in DOMAIN owner /\ owner[c_id[c]] = c
          BY <4>1 DEF Core, Owners
        <5> QED BY <3>1, <3>3, <5>1 DEF Signed
      <4>2. CASE c_id[c] = WrongId
        <5>1. ~Serving
          BY <4>2 DEF Core, Mailed
        <5>2. ~Serving'
          BY <5>1, ServingStays
        <5> QED BY <3>1, <3>3, <4>2, <5>2 DEF Signed
      <4>3. CASE c_id[c] = NoId
        BY <3>3, <4>3 DEF Signed
      <4> QED BY <4>1, <4>2, <4>3, IdRange
    <3>4. CASE m.type \in Requests \cup Broadcasts /\ m.id = c_id[c] /\ c_id[c] # NoId
      <4>1. m.type # "INIT" /\ m.type # "STOP"
        BY <3>4 DEF Requests, Broadcasts
      <4> QED BY <3>3, <3>4, <4>1
    <3>5. CASE /\ exit_pc' = [exit_pc EXCEPT ![c] = "gone"]
               /\ m.type = "STOP" /\ m.id = c_id[c]
      <4>1. exit_pc'[c] = "gone" /\ m.type # "INIT"
        BY <3>5 DEF Core, Typed
      <4> QED BY <3>3, <3>5, <4>1
    <3> QED BY <1>6, <3>2, <3>4, <3>5 DEF Added
  <2> QED BY <1>2, <1>3, <2>1, <2>2
<1> QED BY <1>4, <1>5, <1>6, QueueStep

-----------------------------------------------------------------------------
(* The list of clients                                                     *)

(* Of the nodes only the friends change.                                    *)
Kept ==
  /\ clients' \in Seq(Node) /\ DOMAIN clients' = DOMAIN clients /\ owner' = owner
  /\ \A i \in DOMAIN clients :
       clients'[i].id = clients[i].id /\ clients'[i].queue = clients[i].queue

(* Of the message at place j after one has been taken from place i.         *)
Before(i, j) == IF j < i THEN j ELSE j + 1

(* The node at place i goes: that of the client that has stopped, or the    *)
(* first when the server leaves.                                            *)
Removed(i) ==
  /\ clients' \in Seq(Node) /\ owner' = owner
  /\ \A j \in DOMAIN clients' :
       Before(i, j) \in DOMAIN clients /\ clients'[j] = clients[Before(i, j)]
  /\ \A j, k \in DOMAIN clients' : Before(i, j) = Before(i, k) => j = k
  /\ \A k \in DOMAIN clients : k = i \/ \E j \in DOMAIN clients' : clients'[j] = clients[k]
  /\ \/ ServerStop /\ Request.type = "STOP" /\ s_queue # <<>> /\ clients[i].id = Request.id
     \/ ~Serving'

LEMMA RemoveNode ==
  ASSUME NEW nodes \in Seq(Node), NEW i \in DOMAIN nodes
  PROVE  LET rest == RemoveAt(nodes, i) IN
         /\ rest \in Seq(Node)
         /\ \A j \in DOMAIN rest : Before(i, j) \in DOMAIN nodes /\ rest[j] = nodes[Before(i, j)]
         /\ \A j, k \in DOMAIN rest : Before(i, j) = Before(i, k) => j = k
         /\ \A k \in DOMAIN nodes : k = i \/ \E j \in DOMAIN rest : rest[j] = nodes[k]
<1> DEFINE rest == RemoveAt(nodes, i)
<1>1. /\ rest \in Seq(Node) /\ DOMAIN rest = 1 .. Len(nodes) - 1
      /\ i \in 1 .. Len(nodes) /\ Len(nodes) \in Nat
      /\ \A j \in 1 .. Len(nodes) - 1 : rest[j] = IF j < i THEN nodes[j] ELSE nodes[j + 1]
  BY RemoveAtType
<1>2. DOMAIN nodes = 1 .. Len(nodes)
  OBVIOUS
<1> HIDE DEF rest
<1>3. ASSUME NEW j \in 1 .. Len(nodes) - 1
      PROVE  Before(i, j) \in 1 .. Len(nodes) /\ rest[j] = nodes[Before(i, j)]
  BY <1>1 DEF Before
<1>4. ASSUME NEW j \in 1 .. Len(nodes) - 1, NEW k \in 1 .. Len(nodes) - 1,
             Before(i, j) = Before(i, k)
      PROVE  j = k
  BY <1>1, <1>4 DEF Before
<1>5. ASSUME NEW k \in 1 .. Len(nodes), k # i
      PROVE  \E j \in 1 .. Len(nodes) - 1 : rest[j] = nodes[k]
  <2>1. CASE k < i
    <3>1. k \in 1 .. Len(nodes) - 1
      BY <1>1, <2>1
    <3> QED BY <1>1, <2>1, <3>1
  <2>2. CASE k > i
    <3>1. k - 1 \in 1 .. Len(nodes) - 1 /\ ~(k - 1 < i) /\ (k - 1) + 1 = k
      BY <1>1, <2>2
    <3>2. rest[k - 1] = nodes[(k - 1) + 1]
      BY <1>1, <3>1
    <3> QED BY <3>1, <3>2
  <2> QED BY <1>1, <1>5, <2>1, <2>2
<1> QED BY <1>1, <1>2, <1>3, <1>4, <1>5 DEF rest

LEMMA ListStep ==
  ASSUME Core, [Next]_vars
  PROVE  \/ Kept
         \/ \E i \in DOMAIN clients : Removed(i)
         \/ ServerInit /\ owner' # owner
<1>1. Frames
  BY StepFrames DEF Core
<1>2. clients \in Seq(Node) /\ DOMAIN clients = 1 .. Len(clients) /\ Len(clients) \in Nat
  BY DEF Core, Typed
<1>3. CASE UNCHANGED <<clients, owner>>
  BY <1>2, <1>3 DEF Kept
<1>4. CASE ServerInit
  BY <1>3, <1>4 DEF ServerInit, Fail, numbering
<1>5. CASE ServerList
  <2>1. owner' = owner
    BY <1>5 DEF ServerList, numbering
  <2>2. CASE clients' = [i \in DOMAIN clients |-> Befriend(clients[i])]
    <3>1. ASSUME NEW i \in DOMAIN clients
          PROVE  /\ Befriend(clients[i]) \in Node
                 /\ Befriend(clients[i]).id = clients[i].id
                 /\ Befriend(clients[i]).queue = clients[i].queue
      <4> DEFINE b == Request.type # "DEL" /\ clients[i].id \in Request.args
      <4>1. clients[i] \in Node
        BY <1>2
      <4>2. b \in BOOLEAN
        OBVIOUS
      <4> HIDE DEF b
      <4>3. [clients[i] EXCEPT !.friend = b] \in Node
            /\ [clients[i] EXCEPT !.friend = b].id = clients[i].id
            /\ [clients[i] EXCEPT !.friend = b].queue = clients[i].queue
        BY <4>1, <4>2 DEF Node
      <4>4. Befriend(clients[i]) = clients[i]
            \/ Befriend(clients[i]) = [clients[i] EXCEPT !.friend = b]
        BY DEF Befriend, b
      <4> QED BY <4>1, <4>3, <4>4
    <3>2. \A i \in DOMAIN clients : clients'[i] = Befriend(clients[i])
      BY <2>2
    <3>3. clients' \in Seq(Node) /\ DOMAIN clients' = DOMAIN clients
      <4>1. clients' = [i \in 1 .. Len(clients) |-> clients'[i]]
        BY <1>2, <2>2
      <4>2. \A i \in 1 .. Len(clients) : clients'[i] \in Node
        BY <1>2, <3>1, <3>2
      <4> QED BY <1>2, <4>1, <4>2
    <3> QED BY <2>1, <3>1, <3>2, <3>3 DEF Kept
  <2>3. CASE clients' = clients
    BY <1>3, <2>1, <2>3
  <2> QED BY <1>5, <2>2, <2>3 DEF ServerList
<1>6. CASE ServerStop
  <2>1. owner' = owner /\ Request.type = "STOP" /\ s_queue # <<>>
    BY <1>6 DEF ServerStop, Receive, numbering
  <2>2. CASE Find(Request.id) = {}
    BY <1>3, <1>6, <2>1, <2>2 DEF ServerStop
  <2>3. CASE Find(Request.id) # {}
    <3>1. PICK i \in Find(Request.id) : clients' = RemoveAt(clients, i)
      BY <1>6, <2>3 DEF ServerStop
    <3>2. i \in DOMAIN clients /\ clients[i].id = Request.id
      BY DEF Find
    <3>3. Removed(i)
      BY <1>2, <1>6, <2>1, <3>1, <3>2, RemoveNode DEF Removed
    <3> QED BY <3>2, <3>3
  <2> QED BY <2>2, <2>3
<1>7. CASE AwaitStop
  <2>1. /\ clients # <<>> /\ clients' = Tail(clients) /\ owner' = owner
        /\ ~Serving'
    BY <1>7 DEF AwaitStop, Core, Control, numbering, Serving
  <2>2. 1 \in DOMAIN clients /\ clients' = RemoveAt(clients, 1)
    BY <1>2, <2>1, TailRemoveAt
  <2>3. owner' = owner /\ ~Serving'
    BY <2>1
  <2> DEFINE i == 1
             rest == RemoveAt(clients, i)
  <2>4. i \in DOMAIN clients /\ clients' = rest
    BY <2>2
  <2> HIDE DEF i
  <2>5. /\ rest \in Seq(Node)
        /\ \A j \in DOMAIN rest :
             Before(i, j) \in DOMAIN clients /\ rest[j] = clients[Before(i, j)]
        /\ \A j, k \in DOMAIN rest : Before(i, j) = Before(i, k) => j = k
        /\ \A k \in DOMAIN clients : k = i \/ \E j \in DOMAIN rest : rest[j] = clients[k]
    BY <1>2, <2>4, RemoveNode
  <2> HIDE DEF rest
  <2>6. Removed(i)
    BY <2>3, <2>4, <2>5 DEF Removed
  <2> QED BY <2>4, <2>6
<1> QED BY <1>1, <1>3, <1>4, <1>5, <1>6, <1>7 DEF Frames, numbering

(* The list with the node the server has just added.                        *)
LEMMA AppendedList ==
  ASSUME Core, ServerInit, owner' # owner
  PROVE  /\ clients' \in Seq(Node) /\ Len(clients) \in Nat /\ DOMAIN clients = 1 .. Len(clients)
         /\ DOMAIN clients' = 1 .. Len(clients) + 1
         /\ \A i \in DOMAIN clients : clients'[i] = clients[i]
         /\ clients'[Len(clients) + 1] =
              [id |-> Len(owner) + 1, queue |-> Request.queue, friend |-> FALSE]
         /\ \A i \in DOMAIN clients' : i = Len(clients) + 1 \/ i \in DOMAIN clients
<1> DEFINE node == [id |-> Len(owner) + 1, queue |-> Request.queue, friend |-> FALSE]
<1>1. node \in Node
  BY NewId DEF Node
<1>2. clients' = Append(clients, node)
  BY NewId
<1>3. clients \in Seq(Node)
  BY DEF Core, Typed
<1> HIDE DEF node
<1>4. /\ clients' \in Seq(Node) /\ Len(clients) \in Nat /\ DOMAIN clients = 1 .. Len(clients)
      /\ DOMAIN clients' = 1 .. Len(clients) + 1
      /\ \A i \in 1 .. Len(clients) : clients'[i] = clients[i]
      /\ clients'[Len(clients) + 1] = node
  BY <1>1, <1>2, <1>3
<1>5. \A i \in 1 .. Len(clients) + 1 : i = Len(clients) + 1 \/ i \in 1 .. Len(clients)
  BY <1>4
<1> QED BY <1>4, <1>5 DEF node

LEMMA ListedStep == ASSUME Core, [Next]_vars PROVE Listed'
<1>1. Frames
  BY StepFrames DEF Core
<1>2. /\ \A i \in DOMAIN clients :
           clients[i].id \in DOMAIN owner /\ clients[i].queue = owner[clients[i].id]
      /\ \A i, j \in DOMAIN clients : clients[i].id = clients[j].id => i = j
      /\ Serving =>
           \A k \in DOMAIN owner :
             (\E i \in DOMAIN clients : clients[i].id = k) \/ exit_pc[owner[k]] = "gone"
  BY DEF Core, Listed
<1>3. Serving' => Serving
  BY ServingStays
<1>4. \A k \in DOMAIN owner : exit_pc[owner[k]] = "gone" => exit_pc'[owner[k]] = "gone"
  BY <1>1, IdRange DEF Frames, Cleans
<1>5. CASE Kept
  BY <1>2, <1>3, <1>4, <1>5 DEF Kept, Listed
<1>6. ASSUME NEW i \in DOMAIN clients, Removed(i) PROVE Listed'
  <2>1. /\ \A j \in DOMAIN clients' :
             /\ clients'[j].id \in DOMAIN owner'
             /\ clients'[j].queue = owner'[clients'[j].id]
        /\ \A j, k \in DOMAIN clients' : clients'[j].id = clients'[k].id => j = k
    BY <1>2, <1>6 DEF Removed
  <2>2. ASSUME Serving', NEW k \in DOMAIN owner'
        PROVE  (\E j \in DOMAIN clients' : clients'[j].id = k) \/ exit_pc'[owner'[k]] = "gone"
    <3>1. owner' = owner /\ ServerStop /\ Request.type = "STOP" /\ s_queue # <<>>
          /\ clients[i].id = Request.id
      BY <1>6, <2>2 DEF Removed
    <3>2. clients[i].id \in DOMAIN owner
      BY <1>2
    <3>3. exit_pc[owner[clients[i].id]] = "gone"
      BY <1>3, <2>2, <3>1, <3>2, RequestIs, IdRange DEF Signed
    <3>4. CASE k = clients[i].id
      BY <1>4, <3>1, <3>2, <3>3, <3>4
    <3>5. CASE k # clients[i].id
      BY <1>2, <1>3, <1>4, <1>6, <2>2, <3>1, <3>5 DEF Removed
    <3> QED BY <3>4, <3>5
  <2> QED BY <2>1, <2>2 DEF Listed
<1>7. CASE ServerInit /\ owner' # owner
  <2> DEFINE n == Len(clients)
             k == Len(owner) + 1
  <2>1. /\ clients'[n + 1].id = k /\ clients'[n + 1].queue = Request.queue
        /\ n + 1 \in DOMAIN clients'
        /\ \A i \in DOMAIN clients : clients'[i] = clients[i] /\ i \in DOMAIN clients'
        /\ \A i \in DOMAIN clients' : i = n + 1 \/ i \in DOMAIN clients
    BY <1>7, AppendedList
  <2>2. /\ k \in DOMAIN owner' /\ owner'[k] = Request.queue /\ k \notin DOMAIN owner
        /\ \A m \in DOMAIN owner : m \in DOMAIN owner' /\ owner'[m] = owner[m]
        /\ \A m \in DOMAIN owner' : m = k \/ m \in DOMAIN owner
    BY <1>7, NewId, IdRange
  <2> HIDE DEF n, k
  <2>3. \A j \in DOMAIN clients' :
          clients'[j].id \in DOMAIN owner' /\ clients'[j].queue = owner'[clients'[j].id]
    BY <1>2, <2>1, <2>2
  <2>4. \A i, j \in DOMAIN clients' : clients'[i].id = clients'[j].id => i = j
    BY <1>2, <2>1, <2>2
  <2>5. ASSUME Serving', NEW m \in DOMAIN owner'
        PROVE  (\E j \in DOMAIN clients' : clients'[j].id = m) \/ exit_pc'[owner'[m]] = "gone"
    BY <1>2, <1>3, <1>4, <2>1, <2>2, <2>5
  <2> QED BY <2>3, <2>4, <2>5 DEF Listed
<1> QED BY <1>5, <1>6, <1>7, ListStep

-----------------------------------------------------------------------------
(* What the server sends                                                   *)

(* What the handlers leave in the outbox.                                   *)
LEMMA HandlerSends ==
  ASSUME Core, Taking
  PROVE  /\ outbox = <<>> /\ Serving /\ s_queue # <<>> /\ UNCHANGED <<c_queue, c_id, exit_pc>>
         /\ \/ outbox' = <<>>
            \/ ServerInit /\ owner' # owner
            \/ /\ ServerEcho \/ ServerList
               /\ owner' = owner
               /\ \E i \in DOMAIN clients, type \in {"ECHO", "LIST"} :
                    /\ clients[i].id = Request.id
                    /\ outbox' = Tell(clients[i].queue, Message(type))
            \/ /\ Server2Many \/ Server2One
               /\ owner' = owner
               /\ outbox' \in Seq(Entry)
               /\ \A j \in DOMAIN outbox' :
                    /\ outbox'[j].to = Nobody
                       \/ \E i \in DOMAIN clients : outbox'[j].to = clients[i].queue
                    /\ \E type \in Broadcasts : outbox'[j].msg = Message(type)
<1>1. /\ server_pc = "receive" /\ s_queue # <<>>
      /\ UNCHANGED <<s_open, c_queue, c_open, threads, users>>
  BY DEF Taking, Receive, ServerInit, ServerEcho, ServerList, Server2Many, Server2One,
         ServerStop
<1>2. outbox = <<>> /\ Serving
  BY <1>1 DEF Core, Control, Serving
<1>3. UNCHANGED <<c_queue, c_id, exit_pc>>
  BY <1>1 DEF threads
<1>4. CASE ServerInit
  <2>1. Fail \/ owner' # owner
    <3>1. CASE c_open[Request.queue]
      <4>1. owner' = Append(owner, Request.queue) /\ owner \in Seq(Clients)
        BY <1>4, <3>1 DEF ServerInit, Core, Typed
      <4>2. owner' # owner
        BY <4>1, <1>4, <1>1 DEF Core, Typed
      <4> QED BY <4>2
    <3>2. CASE ~c_open[Request.queue]
      BY <1>4, <3>2 DEF ServerInit
    <3> QED BY <3>1, <3>2
  <2> QED BY <1>1, <1>2, <1>3, <1>4, <2>1 DEF Fail
<1>5. ASSUME NEW type \in {"ECHO", "LIST"}, Answer(type)
      PROVE  \/ outbox' = <<>>
             \/ \E i \in DOMAIN clients :
                  /\ clients[i].id = Request.id
                  /\ outbox' = Tell(clients[i].queue, Message(type))
  <2>1. CASE Find(Request.id) = {}
    BY <1>5, <2>1 DEF Answer, Fail
  <2>2. CASE Find(Request.id) # {}
    <3>1. PICK i \in Find(Request.id) :
            outbox' = Tell(clients[i].queue, Message(type))
      BY <1>5, <2>2 DEF Answer, Send
    <3> QED BY <3>1 DEF Find
  <2> QED BY <2>1, <2>2
<1>6. CASE ServerEcho
  BY <1>1, <1>2, <1>3, <1>5, <1>6 DEF ServerEcho, numbering
<1>7. CASE ServerList
  BY <1>1, <1>2, <1>3, <1>5, <1>7 DEF ServerList, numbering
<1>8. clients \in Seq(Node) /\ DOMAIN clients = 1 .. Len(clients) /\ Len(clients) \in Nat
  BY DEF Core, Typed
<1>a. \A i \in DOMAIN clients : clients[i].queue \in Clients
  <2>1. \A i \in DOMAIN clients : clients[i] \in Node
    BY <1>8
  <2> QED BY <2>1 DEF Node
<1>9. CASE Server2Many
  <2>1. Request.type \in Broadcasts
    BY <1>9 DEF Server2Many, Receive, Broadcasts
  <2>2. outbox' = [j \in 1 .. Len(clients) |->
                    [to  |-> IF Request.type = "2ALL" \/ clients[j].friend
                               THEN clients[j].queue ELSE Nobody,
                     msg |-> Message(Request.type)]]
    BY <1>9 DEF Server2Many, Send
  <2>3. \A j \in DOMAIN outbox' :
          /\ outbox'[j].to = Nobody
             \/ \E i \in DOMAIN clients : outbox'[j].to = clients[i].queue
          /\ outbox'[j].msg = Message(Request.type)
    BY <1>8, <2>2
  <2>4. outbox' \in Seq(Entry)
    <3>1. Message(Request.type) \in Reply
      BY <2>1 DEF Message, Reply, Types
    <3>2. ASSUME NEW j \in 1 .. Len(clients), NEW to, to = clients[j].queue \/ to = Nobody
          PROVE  [to |-> to, msg |-> Message(Request.type)] \in Entry
      <4>1. clients[j].queue \in Clients
        BY <1>8, <1>a
      <4> QED BY <3>1, <3>2, <4>1 DEF Entry
    <3>3. \A j \in 1 .. Len(clients) :
            [to  |-> IF Request.type = "2ALL" \/ clients[j].friend
                       THEN clients[j].queue ELSE Nobody,
             msg |-> Message(Request.type)] \in Entry
      BY <3>2
    <3> QED BY <1>8, <2>2, <3>3
  <2>5. owner' = owner
    BY <1>9 DEF Server2Many, numbering
  <2> QED BY <1>1, <1>2, <1>3, <1>9, <2>1, <2>3, <2>4, <2>5
<1>10. CASE Server2One
  <2> DEFINE named == {i \in DOMAIN clients : clients[i].id \in Request.args}
  <2>1. outbox' = IF named = {} THEN <<>>
                  ELSE Tell(clients[CHOOSE i \in named : TRUE].queue, Message("2ONE"))
    BY <1>10 DEF Server2One, Send
  <2>2. owner' = owner
    BY <1>10 DEF Server2One, numbering
  <2>3. CASE named # {}
    <3>1. PICK i \in named : outbox' = Tell(clients[i].queue, Message("2ONE"))
      BY <2>1, <2>3
    <3>2. "2ONE" \in Broadcasts /\ i \in DOMAIN clients
      BY DEF Broadcasts
    <3>3. outbox' = <<[to |-> clients[i].queue, msg |-> Message("2ONE")]>>
      BY <3>1 DEF Tell
    <3> HIDE DEF named
    <3>4. \A j \in DOMAIN outbox' :
            outbox'[j].to = clients[i].queue /\ outbox'[j].msg = Message("2ONE")
      BY <3>3
    <3>5. outbox' \in Seq(Entry)
      <4>1. clients[i].queue \in Clients
        BY <1>a, <3>2
      <4>2. Message("2ONE") \in Reply
        BY <3>2 DEF Message, Reply, Types
      <4>3. [to |-> clients[i].queue, msg |-> Message("2ONE")] \in Entry
        BY <4>1, <4>2 DEF Entry
      <4> QED BY <3>3, <4>3
    <3> QED BY <1>1, <1>2, <1>3, <1>10, <2>2, <3>2, <3>4, <3>5
  <2> QED BY <1>1, <1>2, <1>3, <2>1, <2>3
<1>11. CASE ServerStop
  BY <1>1, <1>2, <1>3, <1>11 DEF ServerStop, Send
<1> QED BY <1>4, <1>6, <1>7, <1>9, <1>10, <1>11 DEF Taking

LEMMA OutgoingStep == ASSUME Core, [Next]_vars PROVE Outgoing'
<1>1. Frames
  BY StepFrames DEF Core
<1> SUFFICES ASSUME NEW j \in DOMAIN outbox' PROVE \E e : e = outbox'[j] /\ Sent(e)'
  <2>1. ASSUME NEW i, NEW e, e = outbox'[i], Sent(e)' PROVE Sent(outbox[i])'
    BY <2>1 DEF Sent
  <2> QED BY <2>1 DEF Outgoing
<1>2. \A i \in DOMAIN outbox : Sent(outbox[i])
  BY DEF Core, Outgoing
<1>3. outbox \in Seq(Entry)
  BY DEF Core, Typed
<1>4. ASSUME NEW e \in Entry, Sent(e), e.msg.type # "INIT" PROVE Sent(e)'
  <2>1. e.to = Nobody \/ e.to \in Clients
    BY DEF Entry
  <2>2. e.to # Nobody => Introduced(e.to)' /\ e.to \in Given'
    BY <1>4, <2>1, IntroducedStays, OwnersGrow DEF Sent
  <2>3. e.msg.type \notin Broadcasts \cup {"INIT"} => c_id'[e.to] # NoId
    <3>1. e.msg.type \notin Broadcasts \cup {"INIT"} => e.to \in Clients /\ c_id[e.to] # NoId
      BY <1>4, <2>1 DEF Sent
    <3> QED BY <3>1, IdsStep
  <2> QED BY <1>4, <2>2, <2>3 DEF Sent
<1>5. CASE Taking
  <2>0. /\ outbox = <<>> /\ Serving /\ s_queue # <<>> /\ UNCHANGED <<c_queue, c_id, exit_pc>>
    BY <1>5, HandlerSends
  <2>1. \A i \in DOMAIN clients :
          Introduced(clients[i].queue) /\ clients[i].queue \in Given
          /\ clients[i].id \in DOMAIN owner /\ clients[i].queue = owner[clients[i].id]
    <3>1. \A c : ~Expected(c)
      BY <2>0 DEF Expected
    <3>2. \A i \in DOMAIN clients : Introduced(clients[i].queue)
      BY <2>0, <3>1 DEF Core, Presented
    <3>3. \A i \in DOMAIN clients :
            clients[i].id \in DOMAIN owner /\ clients[i].queue = owner[clients[i].id]
      BY DEF Core, Listed
    <3> QED BY <3>2, <3>3 DEF Given
  <2>2. CASE ServerInit /\ owner' # owner
    <3>0. PICK q, e : q = Request.queue
                      /\ e = [to |-> q, msg |-> [type |-> "INIT", id |-> Len(owner) + 1]]
      OBVIOUS
    <3>1. outbox' = <<e>>
      BY <2>2, <3>0, NewId
    <3>2. /\ Len(owner) + 1 \in DOMAIN owner' /\ owner'[Len(owner) + 1] = q
          /\ c_id[q] = NoId /\ c_queue[q] = <<>> /\ q \in Clients
      BY <2>2, <3>0, NewId, IdRange
    <3>3. ~Introduced(q)'
      BY <2>0, <3>2 DEF Introduced
    <3>4. /\ e.msg.type = "INIT" /\ e.to = q /\ q # Nobody /\ Len(outbox') = 1
          /\ e.msg.id \in DOMAIN owner' /\ owner'[e.msg.id] = e.to
      BY <3>0, <3>1, <3>2, ArgumentsAssumption
    <3>5. outbox'[j] = e
      BY <3>1
    <3>6. Sent(e)'
      BY <3>3, <3>4 DEF Sent
    <3> QED BY <3>5, <3>6
  <2>3. ASSUME owner' = owner, ServerEcho \/ ServerList,
               NEW i \in DOMAIN clients, NEW type \in {"ECHO", "LIST"},
               clients[i].id = Request.id, outbox' = Tell(clients[i].queue, Message(type))
        PROVE  \E e : e = outbox'[j] /\ Sent(e)'
    <3>0. PICK e : e = [to |-> clients[i].queue, msg |-> Message(type)]
      OBVIOUS
    <3>1. outbox'[j] = e
      BY <2>3, <3>0 DEF Tell
    <3>2. Request.type # "INIT" /\ Request.type # "STOP"
      BY <2>3 DEF ServerEcho, ServerList, Receive
    <3>3. c_id[clients[i].queue] # NoId
      BY <2>0, <2>1, <2>3, <3>2, RequestIs, IdRange DEF Signed
    <3>4. e.to = clients[i].queue /\ e.msg.type \in {"ECHO", "LIST"}
      BY <3>0 DEF Message
    <3>5. e.to \in Given' /\ Introduced(e.to)' /\ c_id'[e.to] # NoId /\ e.to # Nobody
      <4>1. clients[i].queue \in Clients
        BY <2>1, IdRange DEF Given
      <4>2. e.to \in Given' /\ e.to # Nobody
        BY <2>1, <2>3, <3>4, <4>1, ArgumentsAssumption DEF Given
      <4>3. c_id'[e.to] # NoId
        BY <2>0, <3>3, <3>4
      <4> QED BY <4>2, <4>3 DEF Introduced
    <3>6. Sent(e)'
      BY <3>4, <3>5 DEF Sent, Broadcasts
    <3> QED BY <3>1, <3>6
  <2>4. ASSUME owner' = owner,
               outbox'[j].to = Nobody \/ \E i \in DOMAIN clients : outbox'[j].to = clients[i].queue,
               \E type \in Broadcasts : outbox'[j].msg = Message(type)
        PROVE  \E e : e = outbox'[j] /\ Sent(e)'
    <3>0. PICK e : e = outbox'[j]
      OBVIOUS
    <3>1. e.msg.type \in Broadcasts
      BY <2>4, <3>0 DEF Message
    <3>2. e.to # Nobody => e.to \in Given' /\ Introduced(e.to)'
      BY <2>0, <2>1, <2>4, <3>0 DEF Given, Introduced
    <3>3. Sent(e)'
      BY <3>1, <3>2 DEF Sent, Broadcasts
    <3> QED BY <3>0, <3>3
  <2>5. CASE outbox' = <<>>
    BY <2>5
  <2> QED BY <1>5, <2>2, <2>3, <2>4, <2>5, HandlerSends
<1>6. CASE ServerSend
  <2>1. DOMAIN outbox' = 1 .. Len(outbox) - 1 /\ outbox'[j] = outbox[j + 1]
        /\ Len(outbox) \in Nat
    BY <1>3, <1>6, SendStep, TailRemoveAt
  <2>2. j + 1 \in DOMAIN outbox /\ Len(outbox) # 1
    BY <1>3, <2>1
  <2>3. Sent(outbox[j + 1]) /\ outbox[j + 1].msg.type # "INIT" /\ outbox[j + 1] \in Entry
    BY <1>2, <1>3, <2>2 DEF Sent
  <2> QED BY <1>4, <2>1, <2>3
<1>7. CASE ServerInterrupt
  BY <1>7 DEF ServerInterrupt, Fail
<1>8. CASE UNCHANGED outbox /\ ~Taking /\ ~ServerSend
  <2>0. PICK e : e = outbox[j]
    OBVIOUS
  <2>1. j \in DOMAIN outbox /\ e \in Entry /\ Sent(e) /\ outbox'[j] = e /\ outbox # <<>>
    BY <1>2, <1>3, <1>8, <2>0
  <2>2. e.to \in Clients \cup {Nobody}
    BY <2>1 DEF Entry
  <2>3. CASE e.msg.type = "INIT"
    <3>1. /\ Len(outbox) = 1 /\ e.msg.id \in DOMAIN owner /\ owner[e.msg.id] = e.to
          /\ c_id[e.to] = NoId /\ c_queue[e.to] = <<>> /\ e.to # Nobody
      BY <2>1, <2>3 DEF Sent, Introduced, Broadcasts
    <3>2. e.to \in Clients
      BY <2>2, <3>1
    <3>3. c_id'[e.to] = NoId
      BY <3>1, <3>2, IdsStep
    <3>4. ~StopClient
      BY <2>1, StopStep
    <3>5. c_queue'[e.to] = <<>>
      BY <1>8, <3>1, <3>2, <3>4, MailStep DEF Delivered, Read
    <3>6. e.msg.id \in DOMAIN owner' /\ owner'[e.msg.id] = e.to
      BY <3>1, OwnersGrow
    <3>7. Sent(e)'
      BY <1>8, <2>3, <3>1, <3>3, <3>5, <3>6 DEF Sent, Introduced
    <3> QED BY <2>1, <3>7
  <2>4. CASE e.msg.type # "INIT"
    BY <1>4, <2>1, <2>4
  <2> QED BY <2>3, <2>4
<1> QED BY <1>1, <1>5, <1>6, <1>7, <1>8 DEF Frames

LEMMA PresentedStep == ASSUME Core, [Next]_vars PROVE Presented'
<1>1. Frames
  BY StepFrames DEF Core
<1> SUFFICES ASSUME Serving', NEW j \in DOMAIN clients'
             PROVE  \E c : c = clients'[j].queue /\ (Introduced(c)' \/ Expected(c)')
  <2>1. ASSUME NEW i, NEW c, c = clients'[i].queue, Introduced(c)' \/ Expected(c)'
        PROVE  (Introduced(clients[i].queue) \/ Expected(clients[i].queue))'
    BY <2>1 DEF Introduced, Expected
  <2> QED BY <2>1 DEF Presented
<1>2. Serving
  BY ServingStays
<1>3. ASSUME NEW c \in Clients, Introduced(c) \/ Expected(c)
      PROVE  Introduced(c)' \/ Expected(c)'
  <2>1. CASE Introduced(c)
    BY <2>1, IntroducedStays
  <2>2. CASE Expected(c)
    <3>1. PICK i \in DOMAIN outbox : outbox[i].msg.type = "INIT" /\ outbox[i].to = c
      BY <2>2 DEF Expected
    <3>2. outbox \in Seq(Entry) /\ Len(outbox) = 1 /\ i = 1
      <4>1. Sent(outbox[i]) /\ outbox \in Seq(Entry)
        BY <3>1 DEF Core, Outgoing, Typed
      <4>2. Len(outbox) = 1
        BY <3>1, <4>1 DEF Sent
      <4> QED BY <4>1, <4>2
    <3>3. ~Taking /\ ~ServerInterrupt
      <4>1. outbox # <<>>
        <5> SUFFICES ASSUME outbox = <<>> PROVE FALSE
          OBVIOUS
        <5>1. i \in DOMAIN <<>>
          OBVIOUS
        <5> QED BY <5>1
      <4>2. ~Taking
        BY <4>1, HandlerSends
      <4>3. ServerInterrupt => server_pc' = "stop"
        BY DEF ServerInterrupt, Fail
      <4> QED BY <4>2, <4>3 DEF Serving
    <3>4. CASE UNCHANGED outbox
      BY <2>2, <3>4 DEF Expected
    <3>5. CASE ServerSend
      <4>1. /\ Head(outbox).to = c /\ c # Nobody /\ Head(outbox) \in Entry
            /\ SendTo(c, Head(outbox).msg)
        BY <3>1, <3>2, <3>5, SendStep, ArgumentsAssumption
      <4>2. Head(outbox).msg \in Reply
        BY <4>1 DEF Entry
      <4>5. c_queue'[c] = Insert(c_queue[c], Head(outbox).msg)
        <5>1. PICK m \in Reply : m = Head(outbox).msg
          BY <4>2
        <5>2. SendTo(c, m)
          BY <4>1, <5>1
        <5> QED BY <5>1, <5>2, SentTo
      <4>3. c_queue[c] \in Seq(Reply)
        BY DEF Core, Typed
      <4>4. c_queue'[c] # <<>>
        BY <4>2, <4>3, <4>5, InsertEffect
      <4> QED BY <4>4 DEF Introduced
    <3> QED BY <1>1, <3>3, <3>4, <3>5 DEF Frames
  <2> QED BY <1>3, <2>1, <2>2
<1>4. \A i \in DOMAIN clients : clients[i].queue \in Clients
  BY IdRange DEF Core, Listed
<1>5. ASSUME NEW i \in DOMAIN clients, clients'[j].queue = clients[i].queue
      PROVE  \E c : c = clients'[j].queue /\ (Introduced(c)' \/ Expected(c)')
  <2>1. PICK c \in Clients : c = clients[i].queue
    BY <1>4
  <2>2. Introduced(c) \/ Expected(c)
    BY <1>2, <2>1 DEF Core, Presented
  <2> QED BY <1>3, <1>5, <2>1, <2>2
<1>6. CASE Kept
  BY <1>5, <1>6 DEF Kept
<1>7. ASSUME NEW i \in DOMAIN clients, Removed(i)
      PROVE  \E c : c = clients'[j].queue /\ (Introduced(c)' \/ Expected(c)')
  BY <1>5, <1>7 DEF Removed
<1>8. CASE ServerInit /\ owner' # owner
  <2>1. CASE j \in DOMAIN clients
    BY <1>5, <1>8, <2>1, AppendedList
  <2>2. CASE j = Len(clients) + 1
    <3>1. PICK c \in Clients : c = Request.queue
      BY <1>8, NewId
    <3>2. clients'[j].queue = c
      BY <1>8, <2>2, <3>1, AppendedList
    <3>3. outbox' = <<[to |-> c, msg |-> [type |-> "INIT", id |-> Len(owner) + 1]]>>
      BY <1>8, <3>1, NewId
    <3>4. 1 \in DOMAIN outbox' /\ outbox'[1].msg.type = "INIT" /\ outbox'[1].to = c
      BY <3>3
    <3>5. Expected(c)'
      BY <3>4 DEF Expected
    <3> QED BY <3>2, <3>5
  <2> QED BY <1>8, <2>1, <2>2, AppendedList
<1> QED BY <1>6, <1>7, <1>8, ListStep

LEMMA MailedStep == ASSUME Core, [Next]_vars PROVE Mailed'
<1> SUFFICES ASSUME NEW c \in Clients
             PROVE  /\ \A i \in DOMAIN c_queue'[c] :
                         c_queue'[c][i].type = "INIT" =>
                           /\ c_queue'[c][i].id \in DOMAIN owner'
                           /\ owner'[c_queue'[c][i].id] = c
                    /\ Serving' => /\ c_id'[c] # WrongId
                                   /\ c_id'[c] = NoId /\ c_queue'[c] # <<>> =>
                                        c_queue'[c][1].type = "INIT"
  BY DEF Mailed
<1>1. c_queue[c] \in Seq(Reply)
  BY DEF Core, Typed
<1>2. /\ \A i \in DOMAIN c_queue[c] :
           c_queue[c][i].type = "INIT" =>
             c_queue[c][i].id \in DOMAIN owner /\ owner[c_queue[c][i].id] = c
      /\ Serving => /\ c_id[c] # WrongId
                    /\ c_id[c] = NoId /\ c_queue[c] # <<>> => c_queue[c][1].type = "INIT"
  BY DEF Core, Mailed
<1>3. \A i \in DOMAIN c_queue[c] :
        c_queue[c][i].type = "INIT" =>
          c_queue[c][i].id \in DOMAIN owner' /\ owner'[c_queue[c][i].id] = c
  BY <1>2, OwnersGrow
<1>4. Serving' => Serving
  BY ServingStays
<1>5. Serving' => c_id'[c] # WrongId
  BY <1>2, <1>4, IdsStep, IdRange
<1>6. c_id'[c] = NoId => c_id[c] = NoId
  BY IdsStep
<1>7. CASE c_queue'[c] = c_queue[c]
  BY <1>2, <1>3, <1>4, <1>5, <1>6, <1>7
<1>8. CASE Read(c)
  <2>1. /\ DOMAIN c_queue'[c] = 1 .. Len(c_queue[c]) - 1 /\ Len(c_queue[c]) \in Nat
        /\ \A i \in 1 .. Len(c_queue[c]) - 1 : c_queue'[c][i] = c_queue[c][i + 1]
    BY <1>1, <1>8, TailRemoveAt DEF Read
  <2>2. \A i \in 1 .. Len(c_queue[c]) - 1 : i + 1 \in DOMAIN c_queue[c]
    BY <1>1
  <2>3. c_id'[c] # NoId
    BY <1>8, ReadersKnown
  <2> QED BY <1>3, <1>5, <2>1, <2>2, <2>3
<1>9. ASSUME NEW m \in Reply, Delivered(c, m)
      PROVE  /\ \A i \in DOMAIN c_queue'[c] :
                  c_queue'[c][i].type = "INIT" =>
                    c_queue'[c][i].id \in DOMAIN owner' /\ owner'[c_queue'[c][i].id] = c
             /\ Serving' /\ c_id'[c] = NoId => c_queue'[c][1].type = "INIT"
  <2>1. /\ c_queue'[c] = Insert(c_queue[c], m) /\ UNCHANGED owner /\ UNCHANGED c_id
        /\ \/ m = Message("STOP") /\ ~Serving'
           \/ 1 \in DOMAIN outbox /\ outbox[1].to = c /\ outbox[1].msg = m
    BY <1>9 DEF Delivered
  <2>2. 1 \in DOMAIN outbox /\ outbox[1].to = c /\ outbox[1].msg = m => Sent(outbox[1])
    BY DEF Core, Outgoing
  <2>3. m.type = "INIT" => m.id \in DOMAIN owner /\ owner[m.id] = c
    BY <2>1, <2>2 DEF Sent, Message
  <2>4. \A i \in DOMAIN c_queue'[c] :
          c_queue'[c][i] = m \/ \E j \in DOMAIN c_queue[c] : c_queue'[c][i] = c_queue[c][j]
    BY <1>1, <2>1, InsertEffect
  <2>6. /\ c_queue[c] = <<>> => c_queue'[c][1] = m
        /\ c_queue[c] # <<>> /\ Priority[c_queue[c][1].type] >= Priority[m.type] =>
             c_queue'[c][1] = c_queue[c][1]
    <3> DEFINE q == c_queue[c]
               r == c_queue'[c]
    <3>1. q \in Seq(Reply) /\ r = Insert(q, m)
      BY <1>1, <2>1
    <3> HIDE DEF q, r
    <3>2. /\ q = <<>> => Insert(q, m)[1] = m
          /\ q # <<>> /\ Priority[q[1].type] >= Priority[m.type] => Insert(q, m)[1] = q[1]
      BY <3>1, InsertEffect
    <3> QED BY <3>1, <3>2 DEF q, r
  <2>5. ASSUME Serving', c_id'[c] = NoId PROVE c_queue'[c][1].type = "INIT"
    <3>1. Sent(outbox[1]) /\ outbox[1].to = c /\ outbox[1].msg = m /\ c # Nobody
      BY <2>1, <2>2, <2>5, ArgumentsAssumption
    <3>2. c_id[c] = NoId
      BY <2>1, <2>5
    <3>3. CASE c_queue[c] = <<>>
      <4>1. m.type = "INIT"
        BY <3>1, <3>2, <3>3 DEF Sent, Introduced
      <4> QED BY <2>6, <3>3, <4>1
    <3>4. CASE c_queue[c] # <<>>
      <4>1. c_queue[c][1].type = "INIT"
        BY <1>2, <1>4, <2>5, <3>2, <3>4
      <4>2. m.type \in Broadcasts
        BY <3>1, <3>2, <3>4 DEF Sent, Introduced
      <4>3. Priority[c_queue[c][1].type] >= Priority[m.type]
        <5>1. Priority[c_queue[c][1].type] = 7 /\ Priority[m.type] < 7
          BY <4>1, <4>2, Priorities
        <5>2. Priority[m.type] \in Nat
          BY <4>2, Priorities DEF Types
        <5> QED BY <5>1, <5>2
      <4>4. c_queue'[c][1] = c_queue[c][1]
        BY <2>6, <3>4, <4>3
      <4> QED BY <4>1, <4>4
    <3> QED BY <3>3, <3>4
  <2> QED BY <1>2, <2>1, <2>3, <2>4, <2>5
<1> QED BY <1>5, <1>7, <1>8, <1>9, MailStep

-----------------------------------------------------------------------------
(* The types                                                               *)

ServerTyped ==
  /\ server_pc \in {"receive", "send", "stop", "await", "gone"}
  /\ clients \in Seq(Node)
  /\ owner \in Seq(Clients) /\ clients_id_autoincrement = Len(owner) + 1
  /\ outbox \in Seq(Entry)

QueuesTyped ==
  /\ s_queue \in Seq(Letter) /\ Len(s_queue) <= Capacity
  /\ c_queue \in [Clients -> Seq(Reply)]
  /\ \A c \in Clients : Len(c_queue[c]) <= Capacity

ClientsTyped ==
  /\ s_open \in BOOLEAN /\ c_open \in [Clients -> BOOLEAN]
  /\ c_id \in [Clients -> Id \cup {NoId, WrongId}]
  /\ main_pc \in [Clients -> MainPC] /\ exit_pc \in [Clients -> ExitPC]
  /\ registered \in [Clients -> BOOLEAN]
  /\ notified \in [Clients -> Nat] /\ receivers \in [Clients -> Nat]
  /\ typed \in [Clients -> Nat] /\ asked \in [Clients -> Nat] /\ answered \in [Clients -> Nat]

LEMMA ServerTypedStep == ASSUME Core, [Next]_vars PROVE ServerTyped'
<1>1. Frames
  BY StepFrames DEF Core
<1>2. /\ server_pc \in {"receive", "send", "stop", "await", "gone"} /\ clients \in Seq(Node)
      /\ owner \in Seq(Clients) /\ clients_id_autoincrement = Len(owner) + 1
      /\ outbox \in Seq(Entry)
  BY DEF Core, Typed
<1>3. server_pc' \in {"receive", "send", "stop", "await", "gone"}
  <2>1. CASE Taking
    <3>1. (\E msgs : Send(msgs)) \/ Fail
      BY <2>1 DEF Taking, ServerInit, ServerEcho, ServerList, Server2Many, Server2One,
                  ServerStop, Answer
    <3> QED BY <3>1 DEF Send, Fail
  <2>2. CASE ServerSend
    BY <2>2, SendStep
  <2>3. CASE ServerInterrupt \/ StopClient \/ AwaitStop \/ RemoveServerQueue
    BY <2>3 DEF ServerInterrupt, Fail, StopClient, AwaitStop, RemoveServerQueue
  <2> QED BY <1>1, <1>2, <2>1, <2>2, <2>3 DEF Frames
<1>4. clients' \in Seq(Node)
  BY AppendedList, ListStep DEF Kept, Removed
<1>5. owner' \in Seq(Clients) /\ clients_id_autoincrement' = Len(owner') + 1
  <2>1. CASE ServerInit /\ owner' # owner
    <3>1. /\ owner' \in Seq(Clients) /\ Len(owner') = Len(owner) + 1
          /\ clients_id_autoincrement' = Len(owner) + 2 /\ Len(owner) \in Nat
      BY <2>1, NewId, IdRange
    <3>2. \A n \in Nat : (n + 1) + 1 = n + 2
      OBVIOUS
    <3> QED BY <3>1, <3>2
  <2>2. CASE UNCHANGED numbering
    BY <1>2, <2>2 DEF numbering
  <2>3. CASE ServerInit /\ owner' = owner
    <3>1. clients_id_autoincrement' = clients_id_autoincrement
      <4>1. CASE c_open[Request.queue]
        <5>1. owner' = Append(owner, Request.queue)
          BY <2>3, <4>1 DEF ServerInit
        <5>2. s_queue # <<>> /\ Request.type = "INIT"
          BY <2>3 DEF ServerInit, Receive
        <5>3. Request.queue \in Clients
          BY <5>2, RequestIs DEF Signed
        <5>4. Len(owner') = Len(owner) + 1 /\ Len(owner) \in Nat
          BY <1>2, <5>1, <5>3
        <5>5. \A n \in Nat : n + 1 # n
          OBVIOUS
        <5> QED BY <2>3, <5>4, <5>5
      <4>2. CASE ~c_open[Request.queue]
        BY <2>3, <4>2 DEF ServerInit, numbering
      <4> QED BY <4>1, <4>2
    <3> QED BY <1>2, <2>3, <3>1
  <2> QED BY <1>1, <2>1, <2>2, <2>3 DEF Frames
<1>6. outbox' \in Seq(Entry)
  <2>1. ASSUME NEW to \in Clients, NEW msg \in Reply, outbox' = <<[to |-> to, msg |-> msg]>>
        PROVE  outbox' \in Seq(Entry)
    <3>1. [to |-> to, msg |-> msg] \in Entry
      BY DEF Entry
    <3> QED BY <2>1, <3>1
  <2>2. CASE outbox' = <<>>
    BY <2>2
  <2>3. CASE ServerInit /\ owner' # owner
    <3>1. /\ Request.queue \in Clients /\ Len(owner) + 1 \in Id
          /\ outbox' = <<[to |-> Request.queue, msg |-> [type |-> "INIT", id |-> Len(owner) + 1]]>>
      BY <2>3, NewId
    <3>2. [type |-> "INIT", id |-> Len(owner) + 1] \in Reply
      BY <3>1, Priorities DEF Reply
    <3> QED BY <2>1, <3>1, <3>2
  <2>4. ASSUME NEW i \in DOMAIN clients, NEW type \in {"ECHO", "LIST"},
               outbox' = Tell(clients[i].queue, Message(type))
        PROVE  outbox' \in Seq(Entry)
    <3>1. clients[i].queue \in Clients
      BY IdRange DEF Core, Listed
    <3>2. Message(type) \in Reply
      BY Priorities DEF Message, Reply
    <3> QED BY <2>1, <2>4, <3>1, <3>2 DEF Tell
  <2>5. CASE Taking
    BY <2>2, <2>3, <2>4, <2>5, HandlerSends
  <2>6. CASE ServerSend
    BY <1>2, <2>6, SendStep, TailRemoveAt
  <2> QED BY <1>1, <1>2, <2>2, <2>5, <2>6 DEF Frames, ServerInterrupt, Fail
<1> QED BY <1>3, <1>4, <1>5, <1>6 DEF ServerTyped

LEMMA QueuesTypedStep == ASSUME Core, [Next]_vars PROVE QueuesTyped'
<1>1. Frames
  BY StepFrames DEF Core
<1>2. /\ s_queue \in Seq(Letter) /\ Len(s_queue) <= Capacity /\ Len(s_queue) \in Nat
      /\ c_queue \in [Clients -> Seq(Reply)] /\ Capacity \in Nat
      /\ \A c \in Clients : c_queue[c] \in Seq(Reply) /\ Len(c_queue[c]) <= Capacity
                            /\ Len(c_queue[c]) \in Nat
  BY ArgumentsAssumption DEF Core, Typed
<1>3. s_queue' \in Seq(Letter) /\ Len(s_queue') <= Capacity
  <2>1. CASE Taken
    <3>1. s_queue' \in Seq(Letter) /\ Len(s_queue') = Len(s_queue) - 1
      BY <1>2, <2>1, TailRemoveAt DEF Taken
    <3> QED BY <1>2, <3>1
  <2>2. ASSUME NEW c \in Clients, NEW m \in Letter, Added(c, m)
        PROVE  s_queue' \in Seq(Letter) /\ Len(s_queue') <= Capacity
    <3>1. s_queue' \in Seq(Letter) /\ Len(s_queue') = Len(s_queue) + 1
      BY <1>2, <2>2, InsertEffect DEF Added
    <3>2. Len(s_queue) < Capacity
      BY <2>2 DEF Added
    <3> QED BY <1>2, <3>1, <3>2
  <2> QED BY <1>2, <2>1, <2>2, QueueStep
<1>4. ASSUME NEW c \in Clients PROVE c_queue'[c] \in Seq(Reply) /\ Len(c_queue'[c]) <= Capacity
  <2>1. ASSUME NEW m \in Reply, Delivered(c, m)
        PROVE  c_queue'[c] \in Seq(Reply) /\ Len(c_queue'[c]) <= Capacity
    <3>1. c_queue'[c] \in Seq(Reply) /\ Len(c_queue'[c]) = Len(c_queue[c]) + 1
      BY <1>2, <2>1, InsertEffect DEF Delivered
    <3>2. Len(c_queue[c]) < Capacity
      BY <2>1 DEF Delivered
    <3> QED BY <1>2, <3>1, <3>2
  <2>2. CASE Read(c)
    <3>1. c_queue'[c] \in Seq(Reply) /\ Len(c_queue'[c]) = Len(c_queue[c]) - 1
      BY <1>2, <2>2, TailRemoveAt DEF Read
    <3> QED BY <1>2, <3>1
  <2> QED BY <1>2, <2>1, <2>2, MailStep
<1>5. c_queue' = [c \in Clients |-> c_queue'[c]]
  <2>1. CASE ServerSend
    <3>1. CASE Head(outbox).to \in Clients /\ SendTo(Head(outbox).to, Head(outbox).msg)
      BY <1>2, <3>1 DEF SendTo
    <3> QED BY <1>2, <2>1, <3>1, SendStep
  <2>2. CASE StopClient
    BY <1>2, <2>2 DEF StopClient, SendTo
  <2>3. ASSUME NEW c \in Clients, AwaitId(c) \/ ReceiveOne(c)
        PROVE  c_queue' = [d \in Clients |-> c_queue'[d]]
    BY <1>2, <2>3 DEF AwaitId, ReceiveOne
  <2>4. CASE UNCHANGED c_queue
    BY <1>2, <2>4
  <2> QED BY <1>1, <2>1, <2>2, <2>3, <2>4 DEF Frames
<1>6. c_queue' \in [Clients -> Seq(Reply)]
  BY <1>4, <1>5
<1> QED BY <1>3, <1>4, <1>6 DEF QueuesTyped

LEMMA ClientsTypedStep == ASSUME Core, [Next]_vars PROVE ClientsTyped'
<1>1. ClientsTyped
  BY DEF Core, Typed, ClientsTyped
<1> USE DEF ClientsTyped, queues, threads, users, server
<1>2. CASE UNCHANGED vars
  BY <1>1, <1>2 DEF vars
<1>3. CASE Taking
  <2>1. UNCHANGED <<s_open, c_open, threads, users>>
    BY <1>3 DEF Taking, Receive, ServerInit, ServerEcho, ServerList, Server2Many, Server2One,
                ServerStop
  <2> QED BY <1>1, <2>1
<1>4. ASSUME NEW d \in Clients, NEW m \in Reply, SendTo(d, m)
      PROVE  notified' \in [Clients -> Nat] /\ registered' \in [Clients -> BOOLEAN]
  BY <1>4, SentTo
<1>5. CASE ServerSend
  <2>1. notified' \in [Clients -> Nat] /\ registered' \in [Clients -> BOOLEAN]
    <3>1. Head(outbox).msg \in Reply
      BY <1>5, SendStep DEF Entry
    <3> QED BY <1>1, <1>4, <1>5, <3>1, SendStep
  <2> QED BY <1>1, <1>5, <2>1, SendStep
<1>6. CASE StopClient
  <2>1. notified' \in [Clients -> Nat] /\ registered' \in [Clients -> BOOLEAN]
    BY <1>4, <1>6, StopStep
  <2> QED BY <1>1, <1>6, <2>1, StopStep
<1>7. CASE AwaitStop \/ ServerInterrupt
  BY <1>1, <1>7 DEF AwaitStop, ServerInterrupt
<1>8. CASE RemoveServerQueue
  BY <1>1, <1>8 DEF RemoveServerQueue
<1>9. ASSUME NEW c \in Clients, OpenQueues(c) PROVE ClientsTyped'
  BY <1>1, <1>9 DEF OpenQueues, Goto, MainPC, ExitPC
<1>10. ASSUME NEW c \in Clients, SendInit(c) PROVE ClientsTyped'
  BY <1>1, <1>10 DEF SendInit, Goto, MainPC
<1>11. ASSUME NEW c \in Clients, AwaitId(c) PROVE ClientsTyped'
  <2>1. c_id'[c] \in Id \cup {NoId, WrongId}
    BY <1>11, IdsStep, IdRange
  <2>2. c_id' = [c_id EXCEPT ![c] = c_id'[c]]
    BY <1>1, <1>11 DEF AwaitId
  <2>3. c_id' \in [Clients -> Id \cup {NoId, WrongId}]
    BY <1>1, <2>1, <2>2
  <2>4. main_pc' \in [Clients -> MainPC]
    BY <1>1, <1>11 DEF AwaitId, Goto, MainPC
  <2>5. UNCHANGED <<s_open, c_open, exit_pc, registered, notified, receivers, users>>
    BY <1>11 DEF AwaitId
  <2> QED BY <1>1, <2>3, <2>4, <2>5
<1>12. ASSUME NEW c \in Clients, Register(c) PROVE ClientsTyped'
  BY <1>1, <1>12 DEF Register, Goto, MainPC
<1>13. ASSUME NEW c \in Clients, SendCommand(c) PROVE ClientsTyped'
  <2>1. asked' = asked \/ asked' = [asked EXCEPT ![c] = @ + 1]
    BY <1>13 DEF SendCommand
  <2>2. asked' \in [Clients -> Nat]
    BY <1>1, <2>1
  <2>3. typed' \in [Clients -> Nat]
    BY <1>1, <1>13 DEF SendCommand
  <2>4. UNCHANGED <<s_open, c_open, threads, answered>>
    BY <1>13 DEF SendCommand
  <2> QED BY <1>1, <2>2, <2>3, <2>4
<1>14. ASSUME NEW c \in Clients, Leave(c) PROVE ClientsTyped'
  BY <1>1, <1>14 DEF Leave, Exit, Goto, MainPC, ExitPC
<1>15. ASSUME NEW c \in Clients, Interrupt(c) PROVE ClientsTyped'
  BY <1>1, <1>15 DEF Interrupt, Goto, MainPC, ExitPC
<1>16. ASSUME NEW c \in Clients, Reregister(c) PROVE ClientsTyped'
  BY <1>1, <1>16 DEF Reregister
<1>17. ASSUME NEW c \in Clients, ReceiveOne(c) PROVE ClientsTyped'
  <2>1. receivers' \in [Clients -> Nat]
    BY <1>1, <1>17 DEF ReceiveOne
  <2>2. exit_pc' \in [Clients -> ExitPC]
    BY <1>1, <1>17 DEF ReceiveOne, Exit, Goto, ExitPC
  <2>3. answered' \in [Clients -> Nat]
    <3>1. answered' = answered \/ answered' = [answered EXCEPT ![c] = @ + 1]
      BY <1>17 DEF ReceiveOne
    <3> QED BY <1>1, <3>1
  <2>4. UNCHANGED <<s_open, c_open, c_id, main_pc, registered, notified, typed, asked>>
    BY <1>17 DEF ReceiveOne
  <2> QED BY <1>1, <2>1, <2>2, <2>3, <2>4
<1>18. ASSUME NEW c \in Clients, CloseQueue(c) PROVE ClientsTyped'
  BY <1>1, <1>18 DEF CloseQueue, Goto, ExitPC
<1>19. ASSUME NEW c \in Clients, UnlinkQueue(c) PROVE ClientsTyped'
  BY <1>1, <1>19 DEF UnlinkQueue, Goto, ExitPC
<1>20. ASSUME NEW c \in Clients, SendStop(c) PROVE ClientsTyped'
  BY <1>1, <1>20 DEF SendStop, Goto, ExitPC
<1> HIDE DEF ClientsTyped, queues, threads, users, server
<1> QED BY <1>2, <1>3, <1>5, <1>6, <1>7, <1>8, <1>9, <1>10, <1>11, <1>12, <1>13, <1>14,
    <1>15, <1>16, <1>17, <1>18, <1>19, <1>20
    DEF Next, ServerStep, MainStep, ReceiverStep, CleanupStep, UserStep, Taking

LEMMA CoreInit == Init => Core
<1> SUFFICES ASSUME Init PROVE Core
  OBVIOUS
<1>1. Typed
  <2>1. ServerTyped
    BY DEF Init, ServerTyped
  <2>2. QueuesTyped
    BY ArgumentsAssumption DEF Init, QueuesTyped
  <2>3. ClientsTyped
    BY DEF Init, ClientsTyped, MainPC, ExitPC
  <2> QED BY <2>1, <2>2, <2>3 DEF Typed, ServerTyped, QueuesTyped, ClientsTyped
<1>2. Control
  BY DEF Init, Control
<1>3. Owners
  BY DEF Init, Owners, NoId, Id
<1>4. Notification
  BY DEF Init, Notification, Quiet
<1>5. Once
  <2> SUFFICES ASSUME NEW c \in Clients
               PROVE  Count(s_queue, Knocks(c)) + (IF c \in Given THEN 1 ELSE 0)
                        + (IF main_pc[c] \in {"open", "init", "failed"} THEN 1 ELSE 0) <= 1
    BY DEF Once
  <2>1. Count(s_queue, Knocks(c)) = 0
    <3>1. s_queue = <<>> /\ s_queue \in Seq(Letter) /\ \A i \in DOMAIN s_queue : FALSE
      BY DEF Init
    <3> QED BY <3>1, CountNone
  <2>2. c \notin Given
    BY DEF Init, Given
  <2> QED BY <2>1, <2>2
<1>6. Letters /\ Listed /\ Outgoing /\ Presented
  BY DEF Init, Letters, Listed, Outgoing, Presented
<1>7. Mailed
  BY IdRange, <1>1 DEF Init, Mailed, NoId, WrongId
<1> QED BY <1>1, <1>2, <1>3, <1>4, <1>5, <1>6, <1>7 DEF Core

(* The inductive invariant: the id of a client is on its way, or where it   *)
(* belongs, and the threads of a client are accounted for.                  *)
THEOREM CoreInvariant == Spec => []Core
<1>1. Core /\ [Next]_vars => Core'
  <2> SUFFICES ASSUME Core, [Next]_vars PROVE Core'
    OBVIOUS
  <2>1. Typed'
    BY ServerTypedStep, QueuesTypedStep, ClientsTypedStep DEF Typed, ServerTyped, QueuesTyped,
       ClientsTyped
  <2> QED BY <2>1, NotificationStep, ControlStep, OwnersStep, OnceStep, LettersStep, ListedStep,
             OutgoingStep, PresentedStep, MailedStep DEF Core
<1> QED BY CoreInit, <1>1, PTL DEF Spec

-----------------------------------------------------------------------------
(* Nobody is answered without having asked                                 *)

LEMMA AccountsType ==
  Core => \A c \in Clients :
            /\ Unheard(c) \in Nat /\ Due(c) \in Nat /\ Unread(c) \in Nat
            /\ answered[c] \in Nat /\ asked[c] \in Nat /\ typed[c] \in Nat
<1> SUFFICES ASSUME Core, NEW c \in Clients
             PROVE  /\ Unheard(c) \in Nat /\ Due(c) \in Nat /\ Unread(c) \in Nat
                    /\ answered[c] \in Nat /\ asked[c] \in Nat /\ typed[c] \in Nat
  OBVIOUS
<1>1. /\ c_queue[c] \in Seq(Reply) /\ outbox \in Seq(Entry) /\ s_queue \in Seq(Letter)
      /\ answered[c] \in Nat /\ asked[c] \in Nat /\ typed[c] \in Nat
  BY DEF Core, Typed
<1>2. Unheard(c) \in Nat
  BY <1>1, CountType DEF Unheard
<1>3. Due(c) \in Nat
  BY <1>1, CountType DEF Due
<1>4. Unread(c) \in Nat
  BY <1>1, CountType DEF Unread
<1> QED BY <1>1, <1>2, <1>3, <1>4

(* Only who sends a command counts a request, only a receiver an answer.    *)
LEMMA CountersStep ==
  ASSUME Core, [Next]_vars, NEW c \in Clients
  PROVE  /\ answered'[c] = answered[c] \/ ReceiveOne(c)
         /\ (asked'[c] = asked[c] /\ typed'[c] = typed[c]) \/ SendCommand(c)
<1>1. Frames
  BY StepFrames DEF Core
<1>2. /\ answered \in [Clients -> Nat] /\ asked \in [Clients -> Nat]
      /\ typed \in [Clients -> Nat]
  BY DEF Core, Typed
<1>3. ASSUME NEW d \in Clients, ReceiveOne(d), d # c PROVE answered'[c] = answered[c]
  <2>1. answered' = answered \/ answered' = [answered EXCEPT ![d] = @ + 1]
    BY <1>3 DEF ReceiveOne
  <2> QED BY <1>2, <1>3, <2>1
<1>4. ASSUME NEW d \in Clients, SendCommand(d), d # c
      PROVE  asked'[c] = asked[c] /\ typed'[c] = typed[c]
  <2>1. asked' = asked \/ asked' = [asked EXCEPT ![d] = @ + 1]
    BY <1>4 DEF SendCommand
  <2>2. typed' = [typed EXCEPT ![d] = @ + 1]
    BY <1>4 DEF SendCommand
  <2> QED BY <1>2, <1>4, <2>1, <2>2
<1> QED BY <1>1, <1>3, <1>4 DEF Frames

(* A message is taken from the server's queue: the requests of the others   *)
(* stay, and the answer to one of c's own takes its place.                  *)
LEMMA TakingAccounts ==
  ASSUME Core, [Next]_vars, Taking, NEW c \in Clients
  PROVE  /\ Unheard(c)' = Unheard(c) /\ Due(c) = 0
         /\ \/ Due(c)' = 0 /\ (Unread(c)' = Unread(c) \/ Unread(c)' = Unread(c) - 1)
            \/ Due(c)' = 1 /\ Unread(c)' = Unread(c) - 1
<1>1. /\ outbox = <<>> /\ s_queue # <<>> /\ Request = s_queue[1] /\ Request = Head(s_queue)
      /\ 1 \in DOMAIN s_queue /\ UNCHANGED <<c_queue, c_id>>
      /\ s_queue \in Seq(Letter) /\ Request \in Letter /\ Signed(Request)
  BY HandlerSends, RequestIs DEF Request
<1>2. s_queue' = Tail(s_queue)
  BY DEF Taking, Receive, ServerInit, ServerEcho, ServerList, Server2Many, Server2One,
         ServerStop
<1>3. Unheard(c)' = Unheard(c)
  BY <1>1 DEF Unheard
<1>4. Due(c) = 0
  BY <1>1, CountNone DEF Due
<1>5. /\ Unread(c) \in Nat
      /\ Unread(c)' = Unread(c)
           - (IF c_id[c] \in Id /\ Request \in RequestsOf(c_id[c]) THEN 1 ELSE 0)
  <2>1. CASE c_id[c] \notin Id
    BY <1>1, <2>1 DEF Unread
  <2>2. CASE c_id[c] \in Id
    <3>1. Count(s_queue, RequestsOf(c_id[c])) \in Nat
      BY <1>1, CountType
    <3>2. Count(Tail(s_queue), RequestsOf(c_id[c])) = Count(s_queue, RequestsOf(c_id[c]))
            - (IF Request \in RequestsOf(c_id[c]) THEN 1 ELSE 0)
      BY <1>1, CountTail
    <3> QED BY <1>1, <1>2, <2>2, <3>1, <3>2 DEF Unread
  <2> QED BY <2>1, <2>2
<1>6. CASE \A i \in DOMAIN outbox' : outbox'[i] \notin AnswersTo(c)
  <2>1. Due(c)' = 0
    BY <1>6, CountNone DEF Due
  <2> QED BY <1>3, <1>4, <1>5, <2>1
<1>7. ASSUME NEW i \in DOMAIN clients, NEW type \in {"ECHO", "LIST"}, ServerEcho \/ ServerList,
             clients[i].id = Request.id, outbox' = Tell(clients[i].queue, Message(type)),
             clients[i].queue = c
      PROVE  Due(c)' = 1 /\ Unread(c)' = Unread(c) - 1
  <2>1. Request.type \in Requests
    BY <1>7 DEF ServerEcho, ServerList, Receive, Requests
  <2>2. clients[i].id \in DOMAIN owner /\ owner[clients[i].id] = c
    BY <1>7 DEF Core, Listed
  <2>3. Request.type # "INIT" /\ Request.type # "STOP"
    BY <2>1 DEF Requests
  <2>4. c_id[c] = Request.id /\ c_id[c] \in Id
    BY <1>1, <1>7, <2>2, <2>3, IdRange DEF Signed
  <2>5. Request \in RequestsOf(c_id[c])
    BY <1>1, <2>1, <2>4 DEF RequestsOf
  <2>6. Unread(c)' = Unread(c) - 1
    BY <1>5, <2>4, <2>5
  <2> DEFINE e == [to |-> c, msg |-> Message(type)]
  <2>7. e \in AnswersTo(c)
    BY Priorities DEF AnswersTo, Entry, Answers, Message, Reply
  <2>8. outbox' = <<e>>
    BY <1>7 DEF Tell
  <2> HIDE DEF e
  <2>9. Due(c)' = 1
    BY <2>7, <2>8, CountOne DEF Due
  <2> QED BY <2>6, <2>9
<1>8. ASSUME NEW i \in DOMAIN clients, NEW type, clients[i].queue # c,
             outbox' = Tell(clients[i].queue, Message(type))
      PROVE  \A j \in DOMAIN outbox' : outbox'[j] \notin AnswersTo(c)
  <2>1. \A j \in DOMAIN outbox' : outbox'[j].to = clients[i].queue
    BY <1>8 DEF Tell
  <2> QED BY <1>8, <2>1 DEF AnswersTo
<1>9. ASSUME \A j \in DOMAIN outbox' : \E type \in Broadcasts : outbox'[j].msg = Message(type)
      PROVE  \A j \in DOMAIN outbox' : outbox'[j] \notin AnswersTo(c)
  <2>1. \A j \in DOMAIN outbox' : outbox'[j].msg.type \in Broadcasts
    <3>1. \A type : Message(type).type = type
      BY DEF Message
    <3> QED BY <1>9, <3>1
  <2> QED BY <2>1 DEF AnswersTo, Answers, Broadcasts
<1>10. ASSUME ServerInit, owner' # owner
       PROVE  \A j \in DOMAIN outbox' : outbox'[j] \notin AnswersTo(c)
  <2>1. \A j \in DOMAIN outbox' : outbox'[j].msg.type = "INIT"
    BY <1>10, NewId
  <2> QED BY <2>1 DEF AnswersTo, Answers
<1>11. CASE outbox' = <<>>
  BY <1>6, <1>11
<1> QED BY <1>3, <1>4, <1>6, <1>7, <1>8, <1>9, <1>10, <1>11, HandlerSends

(* A send: an answer of c's goes from the outbox to its queue.              *)
LEMMA SendAccounts ==
  ASSUME Core, ServerSend, NEW c \in Clients
  PROVE  /\ Unread(c)' = Unread(c)
         /\ \/ Due(c)' = Due(c) - 1 /\ Unheard(c)' = Unheard(c) + 1
            \/ Unheard(c)' = Unheard(c) /\ Due(c)' \in {Due(c), Due(c) - 1}
<1> DEFINE e == Head(outbox)
<1>1. outbox # <<>> /\ outbox \in Seq(Entry) /\ e \in Entry /\ outbox' = Tail(outbox)
      /\ c_queue \in [Clients -> Seq(Reply)] /\ c_queue[c] \in Seq(Reply)
  BY SendStep DEF Core, Typed
<1>2. Unread(c)' = Unread(c)
  BY SendStep DEF Unread
<1>3. /\ Due(c) \in Nat /\ Unheard(c) \in Nat
      /\ Count(Tail(outbox), AnswersTo(c)) = Due(c) - (IF e \in AnswersTo(c) THEN 1 ELSE 0)
  BY <1>1, CountTail, AccountsType DEF Due
<1>4. Due(c)' = Due(c) - (IF e \in AnswersTo(c) THEN 1 ELSE 0)
  BY <1>1, <1>3 DEF Due
<1>5. CASE UNCHANGED c_queue
  BY <1>2, <1>3, <1>4, <1>5 DEF Unheard
<1>6. CASE e.to \in Clients /\ SendTo(e.to, e.msg)
  <2>1. e.msg \in Reply
    BY <1>1 DEF Entry
  <2>2. CASE e.to = c
    <3>1. c_queue'[c] = Insert(c_queue[c], e.msg)
      BY <1>6, <2>1, <2>2, SentTo
    <3>2. Unheard(c)' = Unheard(c) + (IF e.msg \in Answers THEN 1 ELSE 0)
      BY <1>1, <2>1, <3>1, CountInsert, SMTT(30) DEF Unheard
    <3>3. e \in AnswersTo(c) <=> e.msg \in Answers
      BY <1>1, <2>2 DEF AnswersTo
    <3> QED BY <1>2, <1>3, <1>4, <3>2, <3>3
  <2>3. CASE e.to # c
    <3>1. c_queue'[c] = c_queue[c] /\ e \notin AnswersTo(c)
      BY <1>6, <2>1, <2>3, SentTo DEF AnswersTo
    <3> QED BY <1>2, <1>3, <1>4, <3>1 DEF Unheard
  <2> QED BY <2>2, <2>3
<1> HIDE DEF e
<1> QED BY <1>5, <1>6, SendStep DEF e

(* The requests of c in the server's queue: added when c asks, none when c  *)
(* gets its id.                                                             *)
LEMMA UnreadStep ==
  ASSUME Core, [Next]_vars, NEW c \in Clients, ~Taking
  PROVE  \/ Unread(c)' \in {Unread(c), Unread(c) - 1} /\ asked'[c] \in {asked[c], asked[c] + 1}
         \/ Unread(c)' = Unread(c) + 1 /\ asked'[c] = asked[c] + 1
<1>1. /\ s_queue \in Seq(Letter) /\ asked \in [Clients -> Nat] /\ typed \in [Clients -> Nat]
      /\ NoId \notin Id /\ WrongId \notin Id
  BY IdRange DEF Core, Typed
<1>2. Unread(c) \in Nat
  BY AccountsType
<1>3. asked'[c] \in {asked[c], asked[c] + 1}
  <2>1. SendCommand(c) => asked' = asked \/ asked' = [asked EXCEPT ![c] = @ + 1]
    BY DEF SendCommand
  <2> QED BY <1>1, <2>1, CountersStep
<1>4. CASE AwaitId(c)
  <2>1. /\ s_queue' = s_queue /\ c_id[c] = NoId
        /\ c_id'[c] = WrongId \/ (c_id'[c] \in DOMAIN owner /\ owner[c_id'[c]] = c)
    BY <1>4, IdsStep
  <2>2. Unread(c) = 0
    BY <1>1, <2>1 DEF Unread
  <2>3. CASE c_id'[c] = WrongId
    <3>1. Unread(c)' = 0
      BY <1>1, <2>3 DEF Unread
    <3> QED BY <1>3, <2>2, <3>1
  <2>4. CASE c_id'[c] \in DOMAIN owner /\ owner[c_id'[c]] = c
    <3>1. PICK k \in DOMAIN owner : k = c_id'[c] /\ owner[k] = c
      BY <2>4
    <3>2. k # NoId /\ k # WrongId
      BY <3>1, IdRange
    <3>3. \A i \in DOMAIN s_queue : s_queue[i] \notin RequestsOf(k)
      <4> SUFFICES ASSUME NEW i \in DOMAIN s_queue, s_queue[i] \in RequestsOf(k) PROVE FALSE
        OBVIOUS
      <4>1. /\ s_queue[i].type # "INIT" /\ s_queue[i].type # "STOP" /\ s_queue[i].id = k
            /\ Signed(s_queue[i])
        BY DEF RequestsOf, Requests, Core, Letters
      <4>2. c_id[owner[k]] = k
        BY <3>2, <4>1 DEF Signed
      <4> QED BY <2>1, <3>1, <3>2, <4>2
    <3>4. Count(s_queue, RequestsOf(k)) = 0
      BY <3>3, CountNone
    <3>5. Unread(c)' = 0
      BY <2>1, <3>1, <3>4 DEF Unread
    <3> QED BY <1>3, <2>2, <3>5
  <2> QED BY <2>1, <2>3, <2>4
<1>5. CASE ~AwaitId(c) /\ UNCHANGED s_queue
  <2>1. c_id'[c] = c_id[c]
    BY <1>5, IdsStep
  <2> QED BY <1>3, <1>5, <2>1 DEF Unread
<1>6. CASE Taken
  <2>1. c_id'[c] = c_id[c] /\ s_queue' = Tail(s_queue) /\ s_queue # <<>>
    BY <1>6 DEF Taken
  <2>2. /\ Count(s_queue, RequestsOf(c_id[c])) \in Nat
        /\ Count(Tail(s_queue), RequestsOf(c_id[c])) = Count(s_queue, RequestsOf(c_id[c]))
             - (IF Head(s_queue) \in RequestsOf(c_id[c]) THEN 1 ELSE 0)
    BY <1>1, <2>1, CountTail, CountType
  <2>3. Unread(c)' \in {Unread(c), Unread(c) - 1}
    BY <2>1, <2>2 DEF Unread
  <2> QED BY <1>3, <2>3
<1>7. ASSUME NEW d \in Clients, NEW m \in Letter, Added(d, m)
      PROVE  \/ Unread(c)' = Unread(c)
             \/ Unread(c)' = Unread(c) + 1 /\ asked'[c] = asked[c] + 1
  <2>1. c_id'[c] = c_id[c] /\ s_queue' = Insert(s_queue, m)
    BY <1>7 DEF Added
  <2>2. /\ Count(s_queue, RequestsOf(c_id[c])) \in Nat
        /\ Count(s_queue', RequestsOf(c_id[c])) = Count(s_queue, RequestsOf(c_id[c]))
             + (IF m \in RequestsOf(c_id[c]) THEN 1 ELSE 0)
    BY <1>1, <2>1, CountInsert
  <2>3. CASE m \notin RequestsOf(c_id[c]) \/ c_id[c] \notin Id
    BY <2>1, <2>2, <2>3 DEF Unread
  <2>4. CASE m \in RequestsOf(c_id[c]) /\ c_id[c] \in Id
    <3>1. m.type \in Requests /\ m.id = c_id[c] /\ m.type # "INIT" /\ m.type # "STOP"
      BY <2>4 DEF RequestsOf, Requests
    <3>2. SendCommand(d) /\ c_id[d] = c_id[c]
      BY <1>7, <3>1 DEF Added
    <3>3. c = d
      BY <2>4, <3>2 DEF Core, Owners
    <3>4. PICK type \in Commands, args \in SUBSET Id :
            /\ s_queue' = Insert(s_queue, [type |-> type, id |-> c_id[c], queue |-> Nobody,
                                           args |-> args])
            /\ asked' = IF type \in Requests THEN [asked EXCEPT ![c] = @ + 1] ELSE asked
      BY <3>2, <3>3 DEF SendCommand, SendToServer
    <3>5. Unread(c)' = Unread(c) + 1
      BY <2>1, <2>2, <2>4 DEF Unread
    <3>6. type \in Requests
      <4> DEFINE n == [type |-> type, id |-> c_id[c], queue |-> Nobody, args |-> args]
      <4> SUFFICES ASSUME type \notin Requests PROVE FALSE
        OBVIOUS
      <4>1. n \in Letter
        BY ArgumentsAssumption, IdRange DEF Letter, Types
      <4>2. n \notin RequestsOf(c_id[c])
        BY DEF RequestsOf
      <4>3. s_queue' = Insert(s_queue, n)
        BY <3>4
      <4> HIDE DEF n
      <4>4. Count(s_queue', RequestsOf(c_id[c])) = Count(s_queue, RequestsOf(c_id[c])) + 0
        BY <1>1, <4>1, <4>2, <4>3, CountInsert
      <4> QED BY <2>2, <2>4, <4>4
    <3> QED BY <1>1, <3>4, <3>5, <3>6
  <2> QED BY <2>3, <2>4
<1>8. ASSUME NEW d \in Clients, NEW m \in Letter, Added(d, m)
      PROVE  \/ Unread(c)' = Unread(c) /\ asked'[c] \in {asked[c], asked[c] + 1}
             \/ Unread(c)' = Unread(c) + 1 /\ asked'[c] = asked[c] + 1
  BY <1>3, <1>7, <1>8
<1> QED BY <1>4, <1>5, <1>6, <1>8, QueueStep

(* The answers in c's own queue: one fewer when the receiver counts it.     *)
LEMMA UnheardStep ==
  ASSUME Core, [Next]_vars, NEW c \in Clients, ~ServerSend
  PROVE  \/ answered'[c] = answered[c] /\ Unheard(c)' \in {Unheard(c), Unheard(c) - 1}
         \/ answered'[c] = answered[c] + 1 /\ Unheard(c)' = Unheard(c) - 1
<1>1. c_queue[c] \in Seq(Reply) /\ answered \in [Clients -> Nat] /\ Unheard(c) \in Nat
  BY AccountsType DEF Core, Typed
<1>2. answered'[c] = answered[c] \/ ReceiveOne(c)
  BY CountersStep
<1>3. CASE ReceiveOne(c)
  <2>1. /\ c_queue[c] # <<>> /\ c_queue'[c] = Tail(c_queue[c])
        /\ answered' = IF Head(c_queue[c]).type \in {"ECHO", "LIST"}
                         THEN [answered EXCEPT ![c] = @ + 1] ELSE answered
    BY <1>1, <1>3 DEF ReceiveOne, Core, Typed
  <2>2. Head(c_queue[c]) \in Reply
    BY <1>1, <2>1, TailRemoveAt
  <2>3. Head(c_queue[c]) \in Answers <=> Head(c_queue[c]).type \in {"ECHO", "LIST"}
    BY <2>2 DEF Answers
  <2>4. Unheard(c)' = Unheard(c) - (IF Head(c_queue[c]) \in Answers THEN 1 ELSE 0)
    BY <1>1, <2>1, CountTail DEF Unheard
  <2>5. CASE Head(c_queue[c]).type \in {"ECHO", "LIST"}
    <3>1. answered'[c] = answered[c] + 1
      BY <1>1, <2>1, <2>5
    <3> QED BY <2>3, <2>4, <2>5, <3>1
  <2>6. CASE Head(c_queue[c]).type \notin {"ECHO", "LIST"}
    BY <1>1, <2>1, <2>3, <2>4, <2>6
  <2> QED BY <2>5, <2>6
<1>4. CASE c_queue'[c] = c_queue[c] /\ ~ReceiveOne(c)
  BY <1>2, <1>4 DEF Unheard
<1>5. ASSUME NEW m \in Reply, Delivered(c, m), ~ReceiveOne(c)
      PROVE  Unheard(c)' = Unheard(c)
  <2>1. c_queue'[c] = Insert(c_queue[c], m) /\ m.type = "STOP"
    BY <1>5 DEF Delivered, Message
  <2>2. m \notin Answers
    BY <2>1 DEF Answers
  <2>3. Unheard(c)' = Unheard(c) + 0
    BY <1>1, <2>1, <2>2, CountInsert DEF Unheard
  <2> QED BY <1>1, <2>3
<1>6. ASSUME Read(c) PROVE Unheard(c)' \in {Unheard(c), Unheard(c) - 1}
  <2>1. Unheard(c)' = Unheard(c) - (IF Head(c_queue[c]) \in Answers THEN 1 ELSE 0)
    BY <1>1, <1>6, CountTail DEF Unheard, Read
  <2> QED BY <1>1, <2>1
<1> QED BY <1>2, <1>3, <1>4, <1>5, <1>6, MailStep

LEMMA AccountsStep == ASSUME Core, Accounts, [Next]_vars PROVE Accounts'
<1>1. Frames
  BY StepFrames DEF Core
<1> SUFFICES ASSUME NEW c \in Clients
             PROVE  /\ answered'[c] + Unheard(c)' + Due(c)' + Unread(c)' <= asked'[c]
                    /\ asked'[c] <= typed'[c] /\ typed'[c] <= MaxCommands
  BY DEF Accounts
<1> DEFINE a == answered[c]
           r == Unheard(c)
           d == Due(c)
           u == Unread(c)
           n == asked[c]
           t == typed[c]
<1>2. /\ r \in Nat /\ d \in Nat /\ u \in Nat /\ a \in Nat /\ n \in Nat /\ t \in Nat
      /\ a + r + d + u <= n /\ n <= t /\ t <= MaxCommands /\ MaxCommands \in Nat
  BY AccountsType, ArgumentsAssumption DEF Accounts
<1>3. asked'[c] <= typed'[c] /\ typed'[c] <= MaxCommands
  <2>1. CASE asked'[c] = n /\ typed'[c] = t
    BY <1>2, <2>1
  <2>2. CASE SendCommand(c)
    <3>1. asked' = asked \/ asked' = [asked EXCEPT ![c] = @ + 1]
      BY <2>2 DEF SendCommand
    <3>2. typed' = [typed EXCEPT ![c] = @ + 1] /\ t < MaxCommands
      BY <2>2 DEF SendCommand
    <3>3. asked \in [Clients -> Nat] /\ typed \in [Clients -> Nat]
      BY DEF Core, Typed
    <3>4. asked'[c] \in {n, n + 1} /\ typed'[c] = t + 1
      BY <3>1, <3>2, <3>3
    <3> HIDE DEF n, t
    <3>5. n <= t + 1 /\ n + 1 <= t + 1 /\ t + 1 <= MaxCommands
      BY <1>2, <3>2
    <3> QED BY <3>4, <3>5
  <2> QED BY <2>1, <2>2, CountersStep
<1>4. CASE Taking
  <2>1. answered'[c] = a /\ asked'[c] = n
    BY <1>4 DEF Taking, Receive, ServerInit, ServerEcho, ServerList, Server2Many, Server2One,
                ServerStop, users
  <2>2. /\ Unheard(c)' = r /\ d = 0
        /\ \/ Due(c)' = 0 /\ (Unread(c)' = u \/ Unread(c)' = u - 1)
           \/ Due(c)' = 1 /\ Unread(c)' = u - 1
    BY <1>4, TakingAccounts
  <2> HIDE DEF a, r, d, u, n, t
  <2>3. /\ d = 0 => a + r + 0 + u <= n /\ a + r + 0 + (u - 1) <= n
        /\ a + r + 1 + (u - 1) <= n
    BY <1>2
  <2> QED BY <1>2, <1>3, <2>1, <2>2, <2>3
<1>5. CASE ServerSend
  <2>1. answered'[c] = a /\ asked'[c] = n /\ Unread(c)' = u
    BY <1>5, SendStep, SendAccounts
  <2>2. \/ Due(c)' = d - 1 /\ Unheard(c)' = r + 1
        \/ Unheard(c)' = r /\ Due(c)' \in {d, d - 1}
    BY <1>5, SendAccounts
  <2> HIDE DEF a, r, d, u, n, t
  <2>3. a + (r + 1) + (d - 1) + u <= n /\ a + r + (d - 1) + u <= n
    BY <1>2
  <2> QED BY <1>2, <1>3, <2>1, <2>2, <2>3
<1>6. CASE ~Taking /\ ~ServerSend
  <2>1. Due(c)' \in {d, 0}
    <3>1. CASE outbox' = outbox
      BY <3>1 DEF Due
    <3>2. CASE outbox' = <<>>
      BY <3>2, CountNone DEF Due
    <3> QED BY <1>1, <1>6, <3>1, <3>2 DEF Frames, ServerInterrupt, Fail
  <2>2. \/ Unread(c)' \in {u, u - 1} /\ asked'[c] \in {n, n + 1}
        \/ Unread(c)' = u + 1 /\ asked'[c] = n + 1
    BY <1>6, UnreadStep
  <2>3. \/ answered'[c] = a /\ Unheard(c)' \in {r, r - 1}
        \/ answered'[c] = a + 1 /\ Unheard(c)' = r - 1
    BY <1>6, UnheardStep
  <2> HIDE DEF a, r, d, u, n, t
  <2>4. \A x \in {d, 0}, y \in {u, u - 1}, z \in {n, n + 1} :
          /\ a + r + x + y <= z /\ a + (r - 1) + x + y <= z
          /\ (a + 1) + (r - 1) + x + y <= z
    BY <1>2
  <2>5. \A x \in {d, 0} :
          /\ a + r + x + (u + 1) <= n + 1 /\ a + (r - 1) + x + (u + 1) <= n + 1
          /\ (a + 1) + (r - 1) + x + (u + 1) <= n + 1
    BY <1>2
  <2>6. CASE Unread(c)' \in {u, u - 1} /\ asked'[c] \in {n, n + 1}
    BY <1>3, <2>1, <2>3, <2>4, <2>6
  <2>7. CASE Unread(c)' = u + 1 /\ asked'[c] = n + 1
    BY <1>3, <2>1, <2>3, <2>5, <2>7
  <2> QED BY <2>2, <2>6, <2>7
<1> QED BY <1>4, <1>5, <1>6

LEMMA AccountsInit == Init => Accounts
<1> SUFFICES ASSUME Init, NEW c \in Clients
             PROVE  /\ answered[c] + Unheard(c) + Due(c) + Unread(c) <= asked[c]
                    /\ asked[c] <= typed[c] /\ typed[c] <= MaxCommands
  BY DEF Accounts
<1>1. Unheard(c) = 0 /\ Due(c) = 0 /\ Unread(c) = 0
  BY CountNone DEF Init, Unheard, Due, Unread
<1>2. answered[c] = 0 /\ asked[c] = 0 /\ typed[c] = 0
  BY DEF Init
<1> QED BY <1>1, <1>2, ArgumentsAssumption

(* A client is never given more answers than it has asked for.              *)
THEOREM AccountsInvariant == Spec => []Accounts
<1>1. Accounts /\ Core /\ [Next]_vars => Accounts'
  BY AccountsStep
<1> QED BY CoreInvariant, AccountsInit, <1>1, PTL DEF Spec

-----------------------------------------------------------------------------
(* What the runs check                                                     *)

(* The types of the variables, and the bounds: the queues hold no more than *)
(* they can, there are no more ids and nodes than clients, a client has no  *)
(* more threads than messages, and none is answered more often than it has  *)
(* asked.                                                                   *)
THEOREM TypesHold == Spec => []TypeOK
<1>1. Core /\ Accounts => TypeOK
  <2> SUFFICES ASSUME Core, Accounts PROVE TypeOK
    OBVIOUS
  <2>1. Typed
    BY DEF Core
  <2>2. Len(owner) \in Nat /\ Len(owner) <= Cardinality(Clients) /\ Cardinality(Clients) \in Nat
    BY <2>1, DistinctLength, ArgumentsAssumption, IdRange DEF Typed, Core, Owners
  <2>3. clients_id_autoincrement \in 1 .. Cardinality(Clients) + 1
    BY <2>1, <2>2 DEF Typed
  <2>4. Len(clients) <= Cardinality(Clients)
    <3> DEFINE n == Len(clients)
               users_of == [i \in 1 .. n |-> clients[i].queue]
    <3>1. clients \in Seq(Node) /\ n \in Nat /\ DOMAIN clients = 1 .. n
      BY <2>1 DEF Typed
    <3>2. \A i \in 1 .. n : clients[i].queue \in Clients
      BY <3>1, IdRange DEF Core, Listed
    <3>3. \A i, j \in 1 .. n : clients[i].queue = clients[j].queue => i = j
      <4>1. \A i \in 1 .. n :
              clients[i].id \in DOMAIN owner /\ clients[i].queue = owner[clients[i].id]
        BY <3>1 DEF Core, Listed
      <4>2. \A k, m \in DOMAIN owner : owner[k] = owner[m] => k = m
        BY DEF Core, Owners
      <4>3. \A i, j \in 1 .. n : clients[i].id = clients[j].id => i = j
        BY <3>1 DEF Core, Listed
      <4> QED BY <4>1, <4>2, <4>3
    <3> HIDE DEF n
    <3>4. users_of \in Seq(Clients) /\ Len(users_of) = n /\ DOMAIN users_of = 1 .. n
          /\ \A i \in 1 .. n : users_of[i] = clients[i].queue
      BY <3>1, <3>2
    <3> HIDE DEF users_of
    <3>5. \A i, j \in DOMAIN users_of : users_of[i] = users_of[j] => i = j
      BY <3>3, <3>4
    <3> QED BY <3>4, <3>5, DistinctLength, ArgumentsAssumption DEF n
  <2>5. \A i \in DOMAIN outbox :
          outbox[i].to \in Clients \cup {Nobody} /\ outbox[i].msg \in Reply
    <3>1. \A i \in DOMAIN outbox : outbox[i] \in Entry
      BY <2>1 DEF Typed
    <3> QED BY <3>1 DEF Entry
  <2>6. notified \in [Clients -> 0 .. 1] /\ receivers \in [Clients -> 0 .. Capacity]
    <3>1. ASSUME NEW c \in Clients
          PROVE  notified[c] \in 0 .. 1 /\ receivers[c] \in 0 .. Capacity
      <4>1. /\ notified[c] \in Nat /\ receivers[c] \in Nat /\ Len(c_queue[c]) \in Nat
            /\ Len(c_queue[c]) <= Capacity /\ Capacity \in Nat
        BY <2>1, ArgumentsAssumption DEF Typed
      <4>2. notified[c] + receivers[c] <= Len(c_queue[c]) /\ notified[c] <= 1
        BY DEF Core, Notification
      <4> QED BY <4>1, <4>2
    <3> QED BY <2>1, <3>1 DEF Typed
  <2>7. ASSUME NEW c \in Clients
        PROVE  /\ typed[c] \in 0 .. MaxCommands /\ asked[c] \in 0 .. MaxCommands
               /\ answered[c] \in 0 .. MaxCommands
    <3>1. /\ Unheard(c) \in Nat /\ Due(c) \in Nat /\ Unread(c) \in Nat
          /\ answered[c] \in Nat /\ asked[c] \in Nat /\ typed[c] \in Nat
          /\ answered[c] + Unheard(c) + Due(c) + Unread(c) <= asked[c]
          /\ asked[c] <= typed[c] /\ typed[c] <= MaxCommands
      BY AccountsType DEF Accounts
    <3> QED BY <3>1, ArgumentsAssumption
  <2>8. /\ typed \in [Clients -> 0 .. MaxCommands] /\ asked \in [Clients -> 0 .. MaxCommands]
        /\ answered \in [Clients -> 0 .. MaxCommands]
    BY <2>1, <2>7 DEF Typed
  <2>9. \A c \in Clients : c_queue[c] \in Seq(Reply) /\ Len(c_queue[c]) <= Capacity
    BY <2>1 DEF Typed
  <2> QED BY <2>1, <2>3, <2>4, <2>5, <2>6, <2>8, <2>9 DEF TypeOK, Typed
<1> QED BY <1>1, CoreInvariant, AccountsInvariant, PTL

(* mq_receive never blocks a thread that has been notified, and no thread   *)
(* takes what was meant for another: the queue holds a message for each.    *)
THEOREM ReceiversHaveMail == Spec => []EveryReceiverHasMail
<1>1. Core => EveryReceiverHasMail
  BY DEF Core, Notification, EveryReceiverHasMail
<1> QED BY <1>1, CoreInvariant, PTL

(* No client that stays is ever without a registration, or a thread that is *)
(* about to renew it, and never has both.                                   *)
THEOREM NobodyIsForgotten == Spec => []StaysRegistered
<1>1. Core => StaysRegistered
  <2> SUFFICES ASSUME Core, NEW c \in Clients, main_pc[c] = "idle", exit_pc[c] = "none"
               PROVE  registered[c] <=> notified[c] = 0
    BY DEF StaysRegistered
  <2>1. /\ registered[c] => notified[c] = 0
        /\ registered[c] \/ notified[c] = 1
        /\ registered[c] \in BOOLEAN
    BY DEF Core, Notification, Typed
  <2> QED BY <2>1
<1> QED BY <1>1, CoreInvariant, PTL

(* As long as the server serves, the id a client takes from its queue is    *)
(* the one the server has listed it with: no other message comes first.     *)
THEOREM IdsFromTheServer == Spec => []IdFromServer
<1>1. Core => IdFromServer
  <2> SUFFICES ASSUME Core, server_pc \in {"receive", "send"}, NEW c \in Clients, c_id[c] # NoId
               PROVE  /\ c_id[c] # WrongId
                      /\ \A i \in DOMAIN clients : clients[i].queue = c => clients[i].id = c_id[c]
    BY DEF IdFromServer
  <2>1. c_id[c] # WrongId
    BY DEF Core, Mailed, Serving
  <2>2. c_id[c] \in Id
    BY <2>1, IdRange
  <2>3. c_id[c] \in DOMAIN owner /\ owner[c_id[c]] = c
    BY <2>2 DEF Core, Owners
  <2>4. \A i \in DOMAIN clients : clients[i].queue = c => clients[i].id = c_id[c]
    BY <2>3 DEF Core, Listed, Owners
  <2> QED BY <2>1, <2>4
<1> QED BY <1>1, CoreInvariant, PTL

(* The request that makes a handler fail is the INIT of a client that has   *)
(* unlinked its queue since, or comes from one that has sent its STOP.      *)
THEOREM OnlyTheDepartedFail == Spec => FailsOnlyForTheDeparted
<1> DEFINE A == server_pc = "receive" /\ server_pc' = "stop" /\ s_queue' # s_queue =>
                  \E c \in Clients : exit_pc[c] # "none" /\ Request.id \in {c_id[c], NoId}
<1>1. Core /\ [Next]_vars => A
  <2> SUFFICES ASSUME Core, [Next]_vars, server_pc = "receive", server_pc' = "stop",
                      s_queue' # s_queue
               PROVE  \E c \in Clients : exit_pc[c] # "none" /\ Request.id \in {c_id[c], NoId}
    OBVIOUS
  <2>1. Taking
    <3>1. Frames
      BY StepFrames DEF Core
    <3>2. ~ServerSend /\ ~StopClient /\ ~AwaitStop /\ ~RemoveServerQueue
      BY DEF ServerSend, StopClient, AwaitStop, RemoveServerQueue
    <3>3. ~ServerInterrupt
      BY DEF ServerInterrupt, queues
    <3> QED BY <3>1, <3>2, <3>3 DEF Frames
  <2>2. s_queue # <<>> /\ Serving
    BY <2>1, HandlerSends
  <2>3. Signed(Request) /\ Request \in Letter /\ Request = s_queue[1] /\ 1 \in DOMAIN s_queue
        /\ s_queue \in Seq(Letter)
    BY <2>2, RequestIs
  <2>4. CASE ServerInit
    <3>1. Request.type = "INIT" /\ ~c_open[Request.queue]
      BY <2>4 DEF ServerInit, Receive, Send
    <3>2. Request.id = NoId /\ Request.queue \in Clients
      BY <2>3, <3>1 DEF Signed
    <3> DEFINE c == Request.queue
    <3>3. main_pc[c] # "open"
      <4>1. Request \in Knocks(c)
        BY <2>3, <3>1 DEF Knocks
      <4>2. Count(s_queue, Knocks(c)) \in Nat /\ Count(s_queue, Knocks(c)) >= 1
        BY <2>3, <4>1, CountType
      <4>3. Count(s_queue, Knocks(c)) + (IF c \in Given THEN 1 ELSE 0)
              + (IF main_pc[c] \in {"open", "init", "failed"} THEN 1 ELSE 0) <= 1
        BY <3>2 DEF Core, Once
      <4> QED BY <4>2, <4>3
    <3>4. exit_pc[c] \in {"bye", "gone"}
      BY <3>1, <3>2, <3>3 DEF Core, Control
    <3> QED BY <3>2, <3>4
  <2>5. CASE ServerEcho \/ ServerList
    <3>1. Request.type # "INIT" /\ Request.type # "STOP"
      BY <2>5 DEF ServerEcho, ServerList, Receive
    <3>2. Find(Request.id) = {}
      BY <2>5 DEF ServerEcho, ServerList, Answer, Send
    <3>3. Request.id \in DOMAIN owner /\ c_id[owner[Request.id]] = Request.id
      BY <2>2, <2>3, <3>1 DEF Signed
    <3>4. exit_pc[owner[Request.id]] = "gone"
      BY <2>2, <3>2, <3>3 DEF Core, Listed, Find
    <3> QED BY <3>3, <3>4, IdRange
  <2>6. CASE Server2Many \/ Server2One \/ ServerStop
    <3>1. \E msgs : Send(msgs)
      BY <2>6 DEF Server2Many, Server2One, ServerStop
    <3> QED BY <3>1 DEF Send
  <2> QED BY <2>1, <2>4, <2>5, <2>6 DEF Taking
<1>2. FailsOnlyForTheDeparted <=> [][A]_vars
  BY PTL DEF FailsOnlyForTheDeparted
<1> QED BY <1>1, <1>2, CoreInvariant, PTL DEF Spec

-----------------------------------------------------------------------------
(* The program implements the chat room                                    *)

RoomPresence == [c \in Clients |-> Presence(c)]

(* The users notice nothing.                                                *)
Unseen == UNCHANGED <<Door, owner, c_id, RoomPresence, asked, answered>>

LEMMA UnseenStutters == Unseen => UNCHANGED Room!vars
BY DEF Unseen, RoomPresence, Room!vars

(* What the server does leaves the clients where they are.                  *)
LEMMA ServerImplements ==
  ASSUME Core, [Next]_vars, ServerStep \/ ServerInterrupt
  PROVE  [Room!Next]_(Room!vars)
<1>1. Frames
  BY StepFrames DEF Core
<1>2. UNCHANGED <<c_id, exit_pc, asked, answered>>
  <2>1. CASE Taking
    BY <2>1 DEF Taking, Receive, ServerInit, ServerEcho, ServerList, Server2Many, Server2One,
                ServerStop, threads, users
  <2>2. CASE ServerSend
    BY <2>2, SendStep
  <2>3. CASE StopClient
    BY <2>3, StopStep
  <2>4. CASE AwaitStop \/ RemoveServerQueue \/ ServerInterrupt
    BY <2>4 DEF AwaitStop, RemoveServerQueue, ServerInterrupt, threads, users
  <2> QED BY <2>1, <2>2, <2>3, <2>4 DEF ServerStep, Taking
<1>3. UNCHANGED <<c_id, RoomPresence, asked, answered>>
  BY <1>2 DEF RoomPresence, Presence
<1>4. ASSUME owner' = owner, Door' = Door PROVE UNCHANGED Room!vars
  BY <1>3, <1>4, UnseenStutters DEF Unseen
<1>5. ASSUME owner' = owner, Door = "open", Door' = "closing" PROVE Room!Next
  <2>1. Room!Close
    BY <1>3, <1>5 DEF Room!Close, RoomPresence
  <2> QED BY <2>1 DEF Room!Next
<1>6. CASE Taking
  <2>1. server_pc = "receive" /\ server_pc' \in {"receive", "send", "stop"}
    BY <1>6 DEF Taking, Receive, ServerInit, ServerEcho, ServerList, Server2Many, Server2One,
                ServerStop, Answer, Send, Fail
  <2>2. Door = "open" /\ Door' \in {"open", "closing"}
    BY <2>1 DEF Door
  <2>3. CASE owner' = owner
    BY <1>4, <1>5, <2>2, <2>3
  <2>4. CASE owner' # owner
    <3>1. ServerInit
      BY <1>1, <1>6, <2>4 DEF Frames, numbering
    <3>2. PICK q \in Clients : q \notin Given /\ owner' = Append(owner, q) /\ server_pc' = "send"
      BY <2>4, <3>1, NewId
    <3>3. Door' = "open"
      BY <3>2 DEF Door
    <3>4. Room!Admit(q)
      BY <1>3, <2>2, <3>2, <3>3 DEF Room!Admit, Room!Admitted, RoomPresence, Given
    <3> QED BY <3>4 DEF Room!Next
  <2> QED BY <2>3, <2>4
<1>7. CASE ServerSend
  <2>1. owner' = owner /\ server_pc = "send" /\ server_pc' \in {"receive", "send"}
    BY <1>7, SendStep
  <2>2. Door' = Door
    BY <2>1 DEF Door
  <2> QED BY <1>4, <2>1, <2>2
<1>8. CASE StopClient \/ AwaitStop
  <2>1. /\ owner' = owner
        /\ server_pc \in {"stop", "await"} /\ server_pc' \in {"stop", "await"}
    BY <1>8 DEF StopClient, AwaitStop, numbering
  <2>2. Door' = Door
    BY <2>1 DEF Door
  <2> QED BY <1>4, <2>1, <2>2
<1>9. CASE RemoveServerQueue
  <2>1. owner' = owner /\ Door = "closing" /\ Door' = "closed"
    BY <1>9 DEF RemoveServerQueue, Door, numbering
  <2>2. Room!Shut
    BY <1>3, <2>1 DEF Room!Shut, RoomPresence
  <2> QED BY <2>2 DEF Room!Next
<1>10. CASE ServerInterrupt
  <2>1. owner' = owner /\ server_pc \in {"receive", "send"} /\ server_pc' = "stop"
    BY <1>10, ArgumentsAssumption DEF ServerInterrupt, Fail, numbering
  <2>2. Door = "open" /\ Door' = "closing"
    BY <2>1 DEF Door
  <2> QED BY <1>5, <2>1, <2>2
<1> QED BY <1>6, <1>7, <1>8, <1>9, <1>10 DEF ServerStep, Taking

(* Client c goes, or nobody notices.                                        *)
LEMMA DepartImplements ==
  ASSUME Core, NEW c \in Clients, UNCHANGED <<server_pc, owner, c_id, asked, answered>>,
         NEW to \in {"close", "unlink", "bye", "gone"},
         \/ exit_pc' = exit_pc
         \/ exit_pc[c] # "gone" /\ exit_pc' = Goto(exit_pc, c, to)
  PROVE  [Room!Next]_(Room!vars)
<1>1. Door' = Door
  BY DEF Door
<1>2. exit_pc \in [Clients -> ExitPC]
  BY DEF Core, Typed
<1>3. CASE Presence(c)' = Presence(c)
  <2>1. \A d \in Clients : Presence(d)' = Presence(d)
    BY <1>2, <1>3 DEF Presence, Goto
  <2> QED BY <1>1, <2>1, UnseenStutters DEF Unseen, RoomPresence
<1>4. CASE Presence(c)' # Presence(c)
  <2>1. exit_pc[c] # "gone" /\ exit_pc' = Goto(exit_pc, c, to)
    BY <1>4 DEF Presence
  <2>2. exit_pc'[c] = to /\ \A d \in Clients : d # c => exit_pc'[d] = exit_pc[d]
    BY <1>2, <2>1 DEF Goto
  <2>3. /\ Presence(c) # "left" /\ Presence(c)' \in {"leaving", "left"}
        /\ \A d \in Clients : d # c => Presence(d)' = Presence(d)
    BY <2>1, <2>2 DEF Presence
  <2>4. RoomPresence' = [RoomPresence EXCEPT ![c] = Presence(c)']
    BY <2>3 DEF RoomPresence
  <2>5. RoomPresence[c] = Presence(c) /\ RoomPresence'[c] = Presence(c)'
    BY DEF RoomPresence
  <2>6. Room!Depart(c)
    BY <1>1, <1>4, <2>3, <2>4, <2>5 DEF Room!Depart, RoomPresence
  <2> QED BY <2>6 DEF Room!Next
<1> QED BY <1>3, <1>4

(* What a client does, its users and the signals it gets.                   *)
LEMMA ClientImplements ==
  ASSUME Core, Accounts, [Next]_vars, NEW c \in Clients,
         \/ MainStep(c) \/ ReceiverStep(c) \/ CleanupStep(c)
         \/ SendCommand(c) \/ Leave(c) \/ Interrupt(c)
  PROVE  [Room!Next]_(Room!vars)
<1>1. /\ c_id \in [Clients -> Id \cup {NoId, WrongId}] /\ exit_pc \in [Clients -> ExitPC]
      /\ asked \in [Clients -> Nat] /\ answered \in [Clients -> Nat]
  BY DEF Core, Typed
(* Most steps are seen by nobody, unless the client goes.                   *)
<1>2. ASSUME UNCHANGED <<server_pc, owner, exit_pc>>
      PROVE  Door' = Door /\ RoomPresence' = RoomPresence
  BY <1>2 DEF Door, RoomPresence, Presence
<1>3. CASE AwaitId(c)
  <2>1. /\ c_id[c] = NoId
        /\ \/ c_id'[c] \in DOMAIN owner /\ owner[c_id'[c]] = c
           \/ c_id'[c] = WrongId /\ ~Serving
    BY <1>3, IdsStep
  <2>2. /\ UNCHANGED <<server_pc, owner, exit_pc, asked, answered>> /\ exit_pc[c] = "none"
        /\ \E id : c_id' = [c_id EXCEPT ![c] = id]
    BY <1>3 DEF AwaitId, server, numbering, users
  <2>3. c_id' = [c_id EXCEPT ![c] = c_id'[c]]
    BY <1>1, <2>2
  <2>4. WrongId \notin DOMAIN owner
    BY IdRange
  <2>5. RoomPresence[c] = "here"
    BY <2>2 DEF RoomPresence, Presence
  <2>6. c_id'[c] = WrongId => Door # "open"
    <3>1. ~Serving => Door # "open"
      BY DEF Door, Serving, Core, Typed
    <3> QED BY <2>1, <2>4, <3>1
  <2>7. Room!Learn(c)
    BY <1>2, <2>1, <2>2, <2>3, <2>4, <2>5, <2>6 DEF Room!Learn, RoomPresence
  <2> QED BY <2>7 DEF Room!Next
<1>4. CASE SendCommand(c)
  <2>1. /\ main_pc[c] = "idle" /\ exit_pc[c] # "gone"
        /\ UNCHANGED <<server_pc, owner, exit_pc, c_id, answered>>
        /\ asked' = asked \/ asked' = [asked EXCEPT ![c] = @ + 1]
    BY <1>4 DEF SendCommand, Running, server, numbering, threads
  <2>2. CASE asked' = asked
    BY <1>2, <2>1, <2>2, UnseenStutters DEF Unseen
  <2>3. CASE asked' = [asked EXCEPT ![c] = @ + 1]
    <3>1. RoomPresence[c] # "left" /\ c_id[c] # NoId
      BY <2>1 DEF RoomPresence, Presence, Core, Control
    <3>2. Room!Ask(c)
      BY <1>2, <2>1, <2>3, <3>1 DEF Room!Ask, RoomPresence
    <3> QED BY <3>2 DEF Room!Next
  <2> QED BY <2>1, <2>2, <2>3
<1>5. CASE ReceiveOne(c)
  <2>1. /\ c_queue[c] # <<>> /\ exit_pc[c] # "gone"
        /\ UNCHANGED <<server_pc, owner, c_id, asked>>
        /\ IF Head(c_queue[c]).type = "STOP" THEN Exit(c) ELSE UNCHANGED exit_pc
        /\ answered' = IF Head(c_queue[c]).type \in {"ECHO", "LIST"}
                         THEN [answered EXCEPT ![c] = @ + 1] ELSE answered
    BY <1>5 DEF ReceiveOne, server, numbering
  <2>2. CASE Head(c_queue[c]).type \in {"ECHO", "LIST"}
    <3>1. UNCHANGED exit_pc /\ answered' = [answered EXCEPT ![c] = @ + 1]
      BY <2>1, <2>2
    <3>2. c_queue[c] \in Seq(Reply)
      BY DEF Core, Typed
    <3>3. 1 \in DOMAIN c_queue[c] /\ c_queue[c][1] \in Answers
      BY <2>1, <2>2, <3>2, TailRemoveAt DEF Answers
    <3>4. Unheard(c) >= 1
      BY <3>2, <3>3, CountType DEF Unheard
    <3>5. answered[c] < asked[c]
      BY <3>4, AccountsType DEF Accounts
    <3>6. Room!Answer(c)
      BY <1>2, <2>1, <3>1, <3>5 DEF Room!Answer, RoomPresence
    <3> QED BY <3>6 DEF Room!Next
  <2>3. CASE Head(c_queue[c]).type \notin {"ECHO", "LIST"}
    <3>1. answered' = answered
      BY <2>1, <2>3
    <3>2. \E to \in {"close", "gone"} : exit_pc' = exit_pc \/ exit_pc' = Goto(exit_pc, c, to)
      BY <2>1 DEF Exit
    <3> QED BY <2>1, <3>1, <3>2, DepartImplements
  <2> QED BY <2>2, <2>3
<1>6. CASE SendInit(c) \/ Register(c) \/ Reregister(c)
  <2>1. UNCHANGED <<server_pc, owner, exit_pc, c_id, asked, answered>>
    BY <1>6 DEF SendInit, Register, Reregister, server, numbering, users
  <2> QED BY <1>2, <2>1, UnseenStutters DEF Unseen
<1>7. CASE \/ OpenQueues(c) \/ Leave(c) \/ Interrupt(c)
           \/ CloseQueue(c) \/ UnlinkQueue(c) \/ SendStop(c)
  <2>1. UNCHANGED <<server_pc, owner, c_id, asked, answered>>
    BY <1>7 DEF OpenQueues, Leave, Interrupt, CloseQueue, UnlinkQueue, SendStop,
       server, numbering, users
  <2>2. exit_pc[c] # "gone"
    BY <1>7 DEF OpenQueues, Leave, Interrupt, CloseQueue, UnlinkQueue, SendStop, Running
  <2>3. \E to \in {"close", "unlink", "bye", "gone"} :
          exit_pc' = exit_pc \/ exit_pc' = Goto(exit_pc, c, to)
    BY <1>7 DEF OpenQueues, Leave, Interrupt, CloseQueue, UnlinkQueue, SendStop, Exit
  <2> QED BY <2>1, <2>2, <2>3, DepartImplements
<1> QED BY <1>3, <1>4, <1>5, <1>6, <1>7 DEF MainStep, ReceiverStep, CleanupStep

(* The chat over POSIX queues is a chat room, too, but for its end: numbers *)
(* are given, learnt and used as in ChatRoom, and nobody is answered without *)
(* having asked, for any users, any room in the queues and any signals.     *)
THEOREM ChatRoomCorrect == Spec => ImplementsChatRoom
<1>1. Init => Room!Init
  <2> SUFFICES ASSUME Init PROVE Room!Init
    OBVIOUS
  <2>1. Door = "open"
    BY DEF Init, Door
  <2>2. \A c \in Clients : Presence(c) = "here"
    BY DEF Init, Presence
  <2> QED BY <2>1, <2>2 DEF Init, Room!Init
<1>2. Core /\ Accounts /\ [Next]_vars => [Room!Next]_(Room!vars)
  <2> SUFFICES ASSUME Core, Accounts, [Next]_vars PROVE [Room!Next]_(Room!vars)
    OBVIOUS
  <2>1. CASE UNCHANGED vars
    <3>1. UNCHANGED <<server_pc, owner, exit_pc, c_id, asked, answered>>
      BY <2>1 DEF vars, server, numbering, threads, users
    <3>2. UNCHANGED <<Door, RoomPresence>>
      BY <3>1 DEF Door, RoomPresence, Presence
    <3> QED BY <3>1, <3>2, UnseenStutters DEF Unseen
  <2>2. CASE ServerStep \/ ServerInterrupt
    BY <2>2, ServerImplements
  <2>3. ASSUME NEW c \in Clients,
               \/ MainStep(c) \/ ReceiverStep(c) \/ CleanupStep(c)
               \/ SendCommand(c) \/ Leave(c) \/ Interrupt(c)
        PROVE  [Room!Next]_(Room!vars)
    BY <2>3, ClientImplements
  <2> QED BY <2>1, <2>2, <2>3 DEF Next, UserStep
<1> QED BY <1>1, <1>2, CoreInvariant, AccountsInvariant, PTL
        DEF Spec, ImplementsChatRoom, Room!Spec

=============================================================================
