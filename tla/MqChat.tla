------------------------------- MODULE MqChat -------------------------------
(***************************************************************************)
(* The chat of cw06/zad2, over POSIX queues.  Three things set it apart    *)
(* from the chat over System V queues (module Chat):                       *)
(*                                                                         *)
(*  - a queue is ordered by priority, the type of the message;             *)
(*  - a client is one process.  mq_notify starts a thread of it when a     *)
(*    message arrives in its queue while that is empty, once for each      *)
(*    registration; the thread registers again, receives one message and   *)
(*    ends;                                                                *)
(*  - a queue that has been unlinked works on for whoever has it open.     *)
(*                                                                         *)
(* What users type is abstracted to the type of the command and the        *)
(* clients it names; texts are left out.                                   *)
(***************************************************************************)
EXTENDS Integers, Sequences, FiniteSets, SequencesExt

CONSTANTS
  Clients,         \* the client programs, each started at most once
  Nobody,          \* owner of a queue that is not a client's
  Capacity,        \* messages a queue holds (10 by default)
  Commands,        \* the commands users type
  MaxCommands,     \* how many of them each client sends: a bound
  Leaving,         \* may users type STOP or end the input?
  ServerSignals,   \* where SIGINT may find the server
  ClientSignals    \* may clients receive SIGINT?

Requests == {"ECHO", "LIST", "FRIENDS", "ADD", "DEL"}
Broadcasts == {"2ALL", "2FRIENDS", "2ONE"}

(* With two clients stop() frees the right node, or none.                   *)
ASSUME ArgumentsAssumption ==
  /\ IsFiniteSet(Clients) /\ Cardinality(Clients) \in 1 .. 2
  /\ Nobody \notin Clients
  /\ Capacity \in Nat \ {0} /\ MaxCommands \in Nat
  /\ Commands \subseteq Requests \cup Broadcasts
  /\ ServerSignals \subseteq {"receive", "send"}
  /\ {Leaving, ClientSignals} \subseteq BOOLEAN

Id == 1 .. Cardinality(Clients)

(* c_id before the server's answer, and when the client has taken another   *)
(* message for that answer.                                                 *)
NoId == -1
WrongId == 0

Types == {"STOP", "INIT"} \cup Requests \cup Broadcasts

Priority ==
  [type \in Types |->
     CASE type = "STOP"    -> 10
       [] type = "LIST"    -> 9
       [] type = "FRIENDS" -> 8
       [] type = "INIT"    -> 7
       [] type = "ECHO"    -> 6
       [] type = "ADD"     -> 5
       [] type = "DEL"     -> 4
       [] type = "2ALL"    -> 3
       [] type = "2FRIENDS" -> 2
       [] type = "2ONE"    -> 1]

Message(type) == [type |-> type, id |-> NoId]

VARIABLES
  server_pc, clients, clients_id_autoincrement,
  owner,                \* the clients that have been given the ids: a history
  outbox,               \* the mq_send calls the current handler has still to make
  s_queue, s_open,      \* the server's queue, and whether its name exists
  c_queue, c_open,      \* the clients' queues, and whether their names exist
  c_id,
  main_pc,              \* the thread that executes commands
  exit_pc,              \* the thread in cleanup
  registered,           \* is mq_notify armed?
  notified,             \* threads that have still to register
  receivers,            \* threads that have still to receive
  typed, asked, answered

numbering == <<clients_id_autoincrement, owner>>
server == <<server_pc, clients, numbering, outbox>>
queues == <<s_queue, s_open, c_queue, c_open>>
threads == <<c_id, main_pc, exit_pc, registered, notified, receivers>>
users == <<typed, asked, answered>>
vars == <<server, queues, threads, users>>

MainPC == {"open", "init", "await", "register", "idle", "leaving", "failed"}

ExitPC == {"none", "close", "unlink", "bye", "gone"}

Init ==
  /\ server_pc = "receive" /\ clients = <<>>
  /\ clients_id_autoincrement = 1 /\ owner = <<>> /\ outbox = <<>>
  /\ s_queue = <<>> /\ s_open = TRUE
  /\ c_queue = [c \in Clients |-> <<>>] /\ c_open = [c \in Clients |-> FALSE]
  /\ c_id = [c \in Clients |-> NoId]
  /\ main_pc = [c \in Clients |-> "open"] /\ exit_pc = [c \in Clients |-> "none"]
  /\ registered = [c \in Clients |-> FALSE]
  /\ notified = [c \in Clients |-> 0] /\ receivers = [c \in Clients |-> 0]
  /\ typed = [c \in Clients |-> 0]
  /\ asked = [c \in Clients |-> 0] /\ answered = [c \in Clients |-> 0]

-----------------------------------------------------------------------------
(* mq_send and mq_notify                                                   *)

HasRoom(queue) == Len(queue) < Capacity

(* Mistake: in order of arrival.                                            *)
Insert_last(queue, msg) == Append(queue, msg)

(* Behind as many messages as have the same or a higher priority.           *)
Insert(queue, msg) ==
  LET ahead == {i \in DOMAIN queue : Priority[queue[i].type] >= Priority[msg.type]}
  IN  InsertAt(queue, Cardinality(ahead) + 1, msg)

SendTo(c, msg) ==
  LET notify == c_queue[c] = <<>> /\ registered[c] IN
  /\ HasRoom(c_queue[c])
  /\ c_queue' = [c_queue EXCEPT ![c] = Insert(@, msg)]
  /\ notified' = IF notify THEN [notified EXCEPT ![c] = @ + 1] ELSE notified
  /\ registered' = IF notify THEN [registered EXCEPT ![c] = FALSE] ELSE registered

-----------------------------------------------------------------------------
(* server.c                                                                *)

Find(id) == {i \in DOMAIN clients : clients[i].id = id}

Request == Head(s_queue)

Tell(queue, msg) == <<[to |-> queue, msg |-> msg]>>

Receive(types) ==
  /\ server_pc = "receive" /\ s_queue # <<>> /\ Request.type \in types
  /\ s_queue' = Tail(s_queue)
  /\ UNCHANGED <<s_open, c_queue, c_open, threads, users>>

Send(msgs) ==
  /\ outbox' = msgs
  /\ server_pc' = IF msgs = <<>> THEN "receive" ELSE "send"

(* exit: its handler is cleanup, which stops the clients.                   *)
Fail == outbox' = <<>> /\ server_pc' = "stop"

Answer(type) ==
  IF Find(Request.id) = {} THEN Fail
  ELSE Send(Tell(clients[CHOOSE i \in Find(Request.id) : TRUE].queue, Message(type)))

(* Mistake: the id is taken from the counter twice, for list and message.   *)
ServerInit_twice ==
  /\ Receive({"INIT"})
  /\ IF c_open[Request.queue]
       THEN /\ clients' = Append(clients, [id     |-> clients_id_autoincrement,
                                           queue  |-> Request.queue,
                                           friend |-> FALSE])
            /\ clients_id_autoincrement' = clients_id_autoincrement + 2
            /\ owner' = Append(owner, Request.queue)
            /\ Send(Tell(Request.queue, [type |-> "INIT",
                                         id   |-> clients_id_autoincrement + 1]))
       ELSE Fail /\ UNCHANGED <<clients, numbering>>

(* A client that has unlinked its queue already ends the server.            *)
ServerInit ==
  /\ Receive({"INIT"})
  /\ IF c_open[Request.queue]
       THEN /\ clients' = Append(clients, [id     |-> clients_id_autoincrement,
                                           queue  |-> Request.queue,
                                           friend |-> FALSE])
            /\ clients_id_autoincrement' = clients_id_autoincrement + 1
            /\ owner' = Append(owner, Request.queue)
            /\ Send(Tell(Request.queue, [type |-> "INIT", id |-> clients_id_autoincrement]))
       ELSE Fail /\ UNCHANGED <<clients, numbering>>

ServerEcho ==
  /\ Receive({"ECHO"})
  /\ Answer("ECHO")
  /\ UNCHANGED <<clients, numbering>>

Befriend(node) ==
  IF Request.type = "FRIENDS" \/ node.id \in Request.args
    THEN [node EXCEPT !.friend = Request.type # "DEL" /\ node.id \in Request.args]
    ELSE node

(* FRIENDS, ADD and DEL change the friends and answer like LIST.            *)
ServerList ==
  /\ Receive({"LIST", "FRIENDS", "ADD", "DEL"})
  /\ clients' = IF Request.type = "LIST" THEN clients
                ELSE [i \in DOMAIN clients |-> Befriend(clients[i])]
  /\ Answer("LIST")
  /\ UNCHANGED numbering

(* send_2many: one turn of the loop for every node; a turn that passes over *)
(* a client that is not a friend sends to Nobody.                           *)
Server2Many ==
  /\ Receive({"2ALL", "2FRIENDS"})
  /\ Send([i \in 1 .. Len(clients) |->
            [to  |-> IF Request.type = "2ALL" \/ clients[i].friend
                       THEN clients[i].queue ELSE Nobody,
             msg |-> Message(Request.type)]])
  /\ UNCHANGED <<clients, numbering>>

Server2One ==
  /\ Receive({"2ONE"})
  /\ LET named == {i \in DOMAIN clients : clients[i].id \in Request.args} IN
     Send(IF named = {} THEN <<>>
          ELSE Tell(clients[CHOOSE i \in named : TRUE].queue, Message("2ONE")))
  /\ UNCHANGED <<clients, numbering>>

(* Mistake: the first client is removed, whoever has stopped.               *)
ServerStop_first ==
  /\ Receive({"STOP"})
  /\ clients' = IF clients = <<>> THEN <<>> ELSE Tail(clients)
  /\ Send(<<>>)
  /\ UNCHANGED numbering

(* stop; with two clients the node it frees is never one that is left.      *)
ServerStop ==
  /\ Receive({"STOP"})
  /\ LET at == Find(Request.id) IN
     clients' = IF at = {} THEN clients ELSE RemoveAt(clients, CHOOSE i \in at : TRUE)
  /\ Send(<<>>)
  /\ UNCHANGED numbering

(* The server has every queue of its list open, so that a send only blocks. *)
ServerSend ==
  /\ server_pc = "send"
  /\ LET to == Head(outbox).to IN
     \/ to # Nobody /\ SendTo(to, Head(outbox).msg)
     \/ to = Nobody /\ UNCHANGED <<c_queue, notified, registered>>
  /\ Send(Tail(outbox))
  /\ UNCHANGED <<clients, numbering, s_queue, s_open, c_open, c_id,
                 main_pc, exit_pc, receivers, users>>

ServerInterrupt ==
  /\ server_pc \in ServerSignals
  /\ Fail
  /\ UNCHANGED <<clients, numbering, queues, threads, users>>

StopClient ==
  /\ server_pc = "stop" /\ clients # <<>>
  /\ SendTo(Head(clients).queue, Message("STOP"))
  /\ server_pc' = "await"
  /\ UNCHANGED <<clients, numbering, outbox, s_queue, s_open, c_open,
                 c_id, main_pc, exit_pc, receivers, users>>

(* Whatever comes first is taken for the STOP; another type is only noted.  *)
AwaitStop ==
  /\ server_pc = "await" /\ s_queue # <<>>
  /\ s_queue' = Tail(s_queue)
  /\ clients' = Tail(clients)
  /\ server_pc' = "stop"
  /\ UNCHANGED <<numbering, outbox, s_open, c_queue, c_open, threads,
                 users>>

RemoveServerQueue ==
  /\ server_pc = "stop" /\ clients = <<>>
  /\ s_open' = FALSE
  /\ server_pc' = "gone"
  /\ UNCHANGED <<clients, numbering, outbox, s_queue, c_queue, c_open,
                 threads, users>>

-----------------------------------------------------------------------------
(* client.c: the main thread                                               *)

Goto(pcs, c, to) == [pcs EXCEPT ![c] = to]

Running(c) == exit_pc[c] # "gone"

(* A client that finds no server returns, and its cleanup finds nothing.    *)
OpenQueues(c) ==
  /\ main_pc[c] = "open" /\ exit_pc[c] = "none"
  /\ c_open' = [c_open EXCEPT ![c] = s_open]
  /\ main_pc' = Goto(main_pc, c, IF s_open THEN "init" ELSE "failed")
  /\ exit_pc' = IF s_open THEN exit_pc ELSE Goto(exit_pc, c, "gone")
  /\ UNCHANGED <<server, s_queue, s_open, c_queue, c_id, registered, notified,
                 receivers, users>>

SendToServer(msg) ==
  /\ HasRoom(s_queue)
  /\ s_queue' = Insert(s_queue, msg)

SendInit(c) ==
  /\ main_pc[c] = "init" /\ exit_pc[c] = "none"
  /\ SendToServer([type |-> "INIT", id |-> NoId, queue |-> c, args |-> {}])
  /\ main_pc' = Goto(main_pc, c, "await")
  /\ UNCHANGED <<server, s_open, c_queue, c_open, c_id, exit_pc, registered,
                 notified, receivers, users>>

(* Mistake: what comes last is taken for the id.                            *)
AwaitId_last(c) ==
  /\ main_pc[c] = "await" /\ exit_pc[c] = "none" /\ c_queue[c] # <<>>
  /\ LET last == c_queue[c][Len(c_queue[c])] IN
     c_id' = [c_id EXCEPT ![c] = IF last.type = "INIT" THEN last.id ELSE WrongId]
  /\ c_queue' = [c_queue EXCEPT ![c] = SubSeq(@, 1, Len(@) - 1)]
  /\ main_pc' = Goto(main_pc, c, "register")
  /\ UNCHANGED <<server, s_queue, s_open, c_open, exit_pc, registered, notified,
                 receivers, users>>

(* Whatever comes first is taken for the id.                                *)
AwaitId(c) ==
  /\ main_pc[c] = "await" /\ exit_pc[c] = "none" /\ c_queue[c] # <<>>
  /\ c_id' = [c_id EXCEPT ![c] = IF Head(c_queue[c]).type = "INIT"
                                   THEN Head(c_queue[c]).id ELSE WrongId]
  /\ c_queue' = [c_queue EXCEPT ![c] = Tail(@)]
  /\ main_pc' = Goto(main_pc, c, "register")
  /\ UNCHANGED <<server, s_queue, s_open, c_open, exit_pc, registered, notified,
                 receivers, users>>

Register(c) ==
  /\ main_pc[c] = "register" /\ exit_pc[c] = "none"
  /\ registered' = [registered EXCEPT ![c] = TRUE]
  /\ main_pc' = Goto(main_pc, c, "idle")
  /\ UNCHANGED <<server, queues, c_id, exit_pc, notified, receivers, users>>

(* The main thread reads commands on while another is in cleanup.           *)
SendCommand(c) ==
  /\ main_pc[c] = "idle" /\ Running(c) /\ typed[c] < MaxCommands
  /\ \E type \in Commands, args \in SUBSET Id :
       /\ type \in {"ADD", "DEL"} => args # {}
       /\ type = "2ONE" => Cardinality(args) <= 1
       /\ type \in {"ECHO", "LIST", "2ALL", "2FRIENDS"} => args = {}
       /\ SendToServer([type |-> type, id |-> c_id[c], queue |-> Nobody,
                        args |-> args])
       /\ asked' = IF type \in Requests THEN [asked EXCEPT ![c] = @ + 1] ELSE asked
  /\ typed' = [typed EXCEPT ![c] = @ + 1]
  /\ UNCHANGED <<server, s_open, c_queue, c_open, threads, answered>>

(* exit calls cleanup.  A second call while the first runs is undefined: it *)
(* may wait, or end the process there and then.                             *)
Exit(c) ==
  \/ exit_pc[c] = "none" /\ exit_pc' = Goto(exit_pc, c, "close")
  \/ exit_pc[c] # "none" /\ exit_pc' \in {exit_pc, Goto(exit_pc, c, "gone")}

(* STOP and the end of the input.                                           *)
Leave(c) ==
  /\ Leaving /\ main_pc[c] = "idle" /\ Running(c)
  /\ Exit(c)
  /\ main_pc' = Goto(main_pc, c, "leaving")
  /\ UNCHANGED <<server, queues, c_id, registered, notified, receivers, users>>

(* The handler runs cleanup, in the main thread or in another; what is      *)
(* closed already makes it give up.                                         *)
Interrupt(c) ==
  /\ ClientSignals /\ Running(c) /\ exit_pc[c] # "close"
  /\ main_pc[c] # "open"
  /\ exit_pc' = Goto(exit_pc, c, IF exit_pc[c] = "none" THEN "close" ELSE "gone")
  /\ main_pc' \in {main_pc, Goto(main_pc, c, "leaving")}
  /\ UNCHANGED <<server, queues, c_id, registered, notified, receivers, users>>

-----------------------------------------------------------------------------
(* client.c: receiver, on a thread of its own                              *)

(* Mistake: the thread does not register again.                             *)
Reregister_forgotten(c) ==
  /\ notified[c] > 0 /\ exit_pc[c] \in {"none", "close"}
  /\ notified' = [notified EXCEPT ![c] = @ - 1]
  /\ receivers' = [receivers EXCEPT ![c] = @ + 1]
  /\ UNCHANGED <<server, queues, c_id, main_pc, exit_pc, registered, users>>

Reregister(c) ==
  /\ notified[c] > 0 /\ exit_pc[c] \in {"none", "close"}
  /\ notified' = [notified EXCEPT ![c] = @ - 1]
  /\ receivers' = [receivers EXCEPT ![c] = @ + 1]
  /\ registered' = [registered EXCEPT ![c] = TRUE]
  /\ UNCHANGED <<server, queues, c_id, main_pc, exit_pc, users>>

(* Mistake: the thread loops instead of receiving one message.              *)
ReceiveOne_all(c) ==
  /\ receivers[c] > 0 /\ c_queue[c] # <<>> /\ exit_pc[c] \in {"none", "close"}
  /\ c_queue' = [c_queue EXCEPT ![c] = Tail(@)]
  /\ IF Head(c_queue[c]).type = "STOP" THEN Exit(c) ELSE UNCHANGED exit_pc
  /\ UNCHANGED <<server, s_queue, s_open, c_open, c_id, main_pc, registered, notified,
                 receivers, users>>

ReceiveOne(c) ==
  /\ receivers[c] > 0 /\ c_queue[c] # <<>> /\ exit_pc[c] \in {"none", "close"}
  /\ receivers' = [receivers EXCEPT ![c] = @ - 1]
  /\ c_queue' = [c_queue EXCEPT ![c] = Tail(@)]
  /\ LET type == Head(c_queue[c]).type IN
     /\ IF type = "STOP" THEN Exit(c) ELSE UNCHANGED exit_pc
     /\ answered' = IF type \in {"ECHO", "LIST"}
                      THEN [answered EXCEPT ![c] = @ + 1] ELSE answered
  /\ UNCHANGED <<server, s_queue, s_open, c_open, c_id, main_pc, registered, notified,
                 typed, asked>>

-----------------------------------------------------------------------------
(* client.c: cleanup                                                       *)

(* Closing the queue withdraws the registration.                            *)
CloseQueue(c) ==
  /\ exit_pc[c] = "close"
  /\ exit_pc' = Goto(exit_pc, c, "unlink")
  /\ registered' = [registered EXCEPT ![c] = FALSE]
  /\ UNCHANGED <<server, queues, c_id, main_pc, notified, receivers, users>>

UnlinkQueue(c) ==
  /\ exit_pc[c] = "unlink"
  /\ c_open' = [c_open EXCEPT ![c] = FALSE]
  /\ exit_pc' = Goto(exit_pc, c, "bye")
  /\ UNCHANGED <<server, s_queue, s_open, c_queue, c_id, main_pc, registered, notified,
                 receivers, users>>

SendStop(c) ==
  /\ exit_pc[c] = "bye"
  /\ SendToServer([type |-> "STOP", id |-> c_id[c], queue |-> Nobody, args |-> {}])
  /\ exit_pc' = Goto(exit_pc, c, "gone")
  /\ UNCHANGED <<server, s_open, c_queue, c_open, c_id, main_pc, registered, notified,
                 receivers, users>>

-----------------------------------------------------------------------------
ServerStep ==
  \/ ServerInit \/ ServerEcho \/ ServerList \/ Server2Many \/ Server2One \/ ServerStop
  \/ ServerSend \/ StopClient \/ AwaitStop \/ RemoveServerQueue

MainStep(c) == OpenQueues(c) \/ SendInit(c) \/ AwaitId(c) \/ Register(c)

ReceiverStep(c) == Reregister(c) \/ ReceiveOne(c)

CleanupStep(c) == CloseQueue(c) \/ UnlinkQueue(c) \/ SendStop(c)

UserStep ==
  \/ ServerInterrupt
  \/ \E c \in Clients : SendCommand(c) \/ Leave(c) \/ Interrupt(c)

Next ==
  \/ ServerStep
  \/ \E c \in Clients : MainStep(c) \/ ReceiverStep(c) \/ CleanupStep(c)
  \/ UserStep

Spec == Init /\ [][Next]_vars

(* Every thread runs on; what the users do is left to them.  Waiting for    *)
(* room in a queue is first come, first served.                             *)
FairSpec ==
  /\ Spec
  /\ WF_vars(ServerStep)
  /\ \A c \in Clients :
       /\ WF_vars(MainStep(c)) /\ WF_vars(ReceiverStep(c)) /\ WF_vars(CleanupStep(c))
       /\ SF_vars(SendInit(c)) /\ SF_vars(SendStop(c))

-----------------------------------------------------------------------------
(* A message to the server; queue is that of an INIT.                       *)
Letter ==
  [type : Types, id : Id \cup {NoId, WrongId}, queue : Clients \cup {Nobody},
   args : SUBSET Id]

(* A message to a client.                                                   *)
Reply == [type : Types, id : Id \cup {NoId}]

Node == [id : Id, queue : Clients, friend : BOOLEAN]

TypeOK ==
  /\ server_pc \in {"receive", "send", "stop", "await", "gone"}
  /\ clients \in Seq(Node) /\ Len(clients) <= Cardinality(Clients)
  /\ clients_id_autoincrement \in 1 .. Cardinality(Clients) + 1
  /\ \A i \in DOMAIN outbox :
       outbox[i].to \in Clients \cup {Nobody} /\ outbox[i].msg \in Reply
  /\ s_queue \in Seq(Letter) /\ Len(s_queue) <= Capacity
  /\ \A c \in Clients : c_queue[c] \in Seq(Reply) /\ Len(c_queue[c]) <= Capacity
  /\ s_open \in BOOLEAN /\ c_open \in [Clients -> BOOLEAN]
  /\ c_id \in [Clients -> Id \cup {NoId, WrongId}]
  /\ main_pc \in [Clients -> MainPC] /\ exit_pc \in [Clients -> ExitPC]
  /\ registered \in [Clients -> BOOLEAN]
  /\ notified \in [Clients -> 0 .. 1]
  /\ receivers \in [Clients -> 0 .. Capacity]
  /\ \A count \in {typed, asked, answered} : count \in [Clients -> 0 .. MaxCommands]

(* While a client runs, every thread of it that has been notified finds a   *)
(* message: mq_receive blocks none of them, and none takes what was meant   *)
(* for another.                                                             *)
EveryReceiverHasMail ==
  \A c \in Clients : notified[c] + receivers[c] <= Len(c_queue[c])

(* A client that listens to its users is registered for notification, or    *)
(* has a thread that is about to be.                                        *)
StaysRegistered ==
  \A c \in Clients : main_pc[c] = "idle" /\ exit_pc[c] = "none" =>
    (registered[c] <=> notified[c] = 0)

(* "receive client id from server": while the server serves, the number a   *)
(* client takes for its id is the one the server has given it.  When it     *)
(* leaves, its STOP may overtake the id.                                    *)
IdFromServer ==
  server_pc \in {"receive", "send"} =>
    \A c \in Clients : c_id[c] # NoId =>
      /\ c_id[c] # WrongId
      /\ \A i \in DOMAIN clients : clients[i].queue = c => clients[i].id = c_id[c]

(* Only what a client has sent that is leaving makes the server end without *)
(* a signal.                                                                *)
FailsOnlyForTheDeparted ==
  [][server_pc = "receive" /\ server_pc' = "stop" /\ s_queue' # s_queue =>
       \E c \in Clients : exit_pc[c] # "none" /\ Request.id \in {c_id[c], NoId}]_vars

-----------------------------------------------------------------------------
(* What the users see of this program.                                      *)
Presence(c) ==
  CASE exit_pc[c] = "none" -> "here" [] exit_pc[c] = "gone" -> "left" [] OTHER -> "leaving"

Door ==
  CASE server_pc \in {"receive", "send"} -> "open"
    [] server_pc \in {"stop", "await"} -> "closing"
    [] server_pc = "gone" -> "closed"

Room == INSTANCE ChatRoom WITH
          door     <- Door,
          numbered <- owner,
          number   <- c_id,
          presence <- [c \in Clients |-> Presence(c)],
          NoNumber <- NoId, WrongNumber <- WrongId, Orderly <- FALSE

(* Server and clients are a chat room, but for its end: the STOP of the     *)
(* server may overtake a number, and the server does not wait for all.      *)
ImplementsChatRoom == Room!Spec

-----------------------------------------------------------------------------
(* "register msg notification handler": a client that stays gets whatever   *)
(* is in its queue.                                                         *)
RequestsAnswered ==
  \A c \in Clients : \A n \in 1 .. MaxCommands :
    asked[c] >= n ~> answered[c] >= n
=============================================================================
