-------------------------------- MODULE Chat --------------------------------
(***************************************************************************)
(* The chat of cw06/zad1: one server and its clients exchange messages     *)
(* through System V queues.  The server owns one queue, every client owns  *)
(* another.  A client is two processes: the parent sends the commands, the *)
(* child, forked when the server has assigned an id, receives; when the    *)
(* server says STOP the child signals the parent with SIGUSR1.  A client   *)
(* that leaves kills its child, removes its queue and sends STOP; a server *)
(* that is interrupted stops its clients one by one and waits for the STOP *)
(* of each.                                                                *)
(*                                                                         *)
(* msgsnd blocks while the queue is full and fails when it is gone.  What  *)
(* users type is abstracted to the type of the command and the client it   *)
(* names; texts, and the type of a message on its way to a client, which   *)
(* is the number of the queue, are left out.                               *)
(***************************************************************************)
EXTENDS Integers, Sequences, FiniteSets, SequencesExt

CONSTANTS
  Clients,         \* the client programs, each started at most once
  Nobody,          \* owner of a queue that is not a client's
  Capacity,        \* messages a queue holds (3 with the limits of Linux)
  Commands,        \* the commands users type
  Named,           \* the ids they name in them
  MaxCommands,     \* how many of them are typed in all: a bound
  Leaving,         \* may users type STOP or end the input?
  ServerSignals,   \* where SIGINT may find the server
  ClientSignals,   \* may clients receive SIGINT?
  EarlySignals     \* may a signal find a client without its handlers?

Requests == {"ECHO", "LIST", "FRIENDS", "ADD", "DEL"}
Broadcasts == {"2ALL", "2FRIENDS", "2ONE"}

(* With at most three clients no struct client is allocated after one has   *)
(* been freed wrongly, so what malloc returns then does not matter.         *)
ASSUME ArgumentsAssumption ==
  /\ IsFiniteSet(Clients) /\ Cardinality(Clients) \in 1 .. 3
  /\ Nobody \notin Clients
  /\ Capacity \in Nat \ {0} /\ MaxCommands \in Nat
  /\ Commands \subseteq Requests \cup Broadcasts
  /\ ServerSignals \subseteq {"receive", "send"}
  /\ Named \subseteq 1 .. Cardinality(Clients)
  /\ {Leaving, ClientSignals, EarlySignals} \subseteq BOOLEAN

Id == 1 .. Cardinality(Clients)

(* A message to the server; queue is that of an INIT, id that of the rest.  *)
Request ==
  [type : {"INIT", "STOP"} \cup Requests \cup Broadcasts,
   id : Id \cup {0}, queue : Clients \cup {Nobody}, args : SUBSET Id]

(* A message to a client.                                                   *)
Reply == [type : {"ID", "ECHO", "LIST", "2ONE", "2MANY", "STOP"}, id : Id \cup {0}]

Node == [id : Id \cup {0}, queue : Clients \cup {Nobody}, friend : BOOLEAN]

(* What the allocator leaves of a node that has been freed.                 *)
Freed == [id |-> 0, queue |-> Nobody, friend |-> FALSE]

VARIABLES
  server_pc,      \* where the server is
  clients,        \* the list of clients
  clients_id_autoincrement,
  owner,          \* the clients that have been given the ids: a history
  outbox,         \* the msgsnd calls the current handler has still to make
  s_queue, s_open,      \* the server's queue, and whether it exists
  c_queue, c_open,      \* the clients' queues, and whether they exist
  c_id,           \* the id of each client, 0 before it has one
  parent_pc, child_pc,
  pending,        \* is SIGUSR1 pending for the parent?
  masked,         \* the signals whose handlers the parent is running
  typed,          \* commands typed, by all users
  asked, answered       \* those that call for an answer, and the answers

numbering == <<clients_id_autoincrement, owner>>
server == <<server_pc, clients, numbering, outbox>>
queues == <<s_queue, s_open, c_queue, c_open>>
client == <<c_id, parent_pc, child_pc, pending, masked, typed, asked, answered>>
vars == <<server, queues, client>>

ServerPC == {"receive", "send", "stop", "await", "gone", "failed", "aborted"}

ParentPC == {"init", "knock", "await", "register", "idle", "kill", "remove", "bye",
             "gone", "dead"}

ChildPC == {"none", "listening", "told", "gone"}

Init ==
  /\ server_pc = "receive" /\ clients = <<>>
  /\ clients_id_autoincrement = 1 /\ owner = <<>> /\ outbox = <<>>
  /\ s_queue = <<>> /\ s_open = TRUE
  /\ c_queue = [c \in Clients |-> <<>>] /\ c_open = [c \in Clients |-> FALSE]
  /\ c_id = [c \in Clients |-> 0]
  /\ parent_pc = [c \in Clients |-> "init"]
  /\ child_pc = [c \in Clients |-> "none"]
  /\ pending = [c \in Clients |-> FALSE]
  /\ masked = [c \in Clients |-> {}]
  /\ typed = 0
  /\ asked = [c \in Clients |-> 0] /\ answered = [c \in Clients |-> 0]

Alive(c) == parent_pc[c] \notin {"gone", "dead"}

Goto(pcs, c, to) == [pcs EXCEPT ![c] = to]

(* msgsnd blocks until the queue has room.                                  *)
HasRoom(queue) == Len(queue) < Capacity

-----------------------------------------------------------------------------
(* server.c: the main loop and the handlers of the messages                *)

Find(id) == {i \in DOMAIN clients : clients[i].id = id}

Tell(node, msg) == <<[to |-> node.queue, msg |-> msg]>>

Message(type) == [type |-> type, id |-> 0]

Receive(types) ==
  /\ server_pc = "receive" /\ s_queue # <<>>
  /\ Head(s_queue).type \in types
  /\ s_queue' = Tail(s_queue)
  /\ UNCHANGED <<c_queue, c_open, client>>

(* The sends of a handler; the server receives again when they are done.    *)
Send(msgs) ==
  /\ outbox' = msgs
  /\ server_pc' = IF msgs = <<>> THEN "receive" ELSE "send"
  /\ UNCHANGED s_open

(* exit(EXIT_FAILURE): exit_handler removes the queue and nothing else.     *)
Fail ==
  /\ server_pc' = "failed"
  /\ outbox' = <<>>
  /\ s_open' = FALSE

(* Mistake: the answer goes to the first client of the list.                *)
Answer_first(id, type) ==
  IF Find(id) # {} THEN Send(Tell(Head(clients), Message(type))) ELSE Fail

(* echo and list: an answer to a client that must be known.                 *)
Answer(id, type) ==
  IF Find(id) # {}
    THEN Send(Tell(clients[CHOOSE i \in Find(id) : TRUE], Message(type)))
    ELSE Fail

(* Mistake: the id is taken from the counter twice, for list and message.   *)
ServerInit_twice ==
  /\ Receive({"INIT"})
  /\ clients' = Append(clients, [id     |-> clients_id_autoincrement,
                                 queue  |-> Head(s_queue).queue,
                                 friend |-> FALSE])
  /\ clients_id_autoincrement' = clients_id_autoincrement + 2
  /\ owner' = Append(owner, Head(s_queue).queue)
  /\ Send(<<[to  |-> Head(s_queue).queue,
             msg |-> [type |-> "ID", id |-> clients_id_autoincrement + 1]]>>)

ServerInit ==
  /\ Receive({"INIT"})
  /\ clients' = Append(clients, [id     |-> clients_id_autoincrement,
                                 queue  |-> Head(s_queue).queue,
                                 friend |-> FALSE])
  /\ clients_id_autoincrement' = clients_id_autoincrement + 1
  /\ owner' = Append(owner, Head(s_queue).queue)
  /\ Send(<<[to  |-> Head(s_queue).queue,
             msg |-> [type |-> "ID", id |-> clients_id_autoincrement]]>>)

ServerEcho ==
  /\ Receive({"ECHO"})
  /\ Answer(Head(s_queue).id, "ECHO")
  /\ UNCHANGED <<clients, numbering>>

ServerList ==
  /\ Receive({"LIST"})
  /\ Answer(Head(s_queue).id, "LIST")
  /\ UNCHANGED <<clients, numbering>>

(* modify: unknown ids are skipped.                                         *)
Befriend(nodes, ids, friend) ==
  [i \in DOMAIN nodes |->
     IF nodes[i].id \in ids THEN [nodes[i] EXCEPT !.friend = friend] ELSE nodes[i]]

ServerFriends ==
  /\ Receive({"FRIENDS"})
  /\ clients' = Befriend(Befriend(clients, Id, FALSE), Head(s_queue).args, TRUE)
  /\ Answer(Head(s_queue).id, "LIST")
  /\ UNCHANGED numbering

ServerModify ==
  /\ Receive({"ADD", "DEL"})
  /\ clients' = Befriend(clients, Head(s_queue).args, Head(s_queue).type = "ADD")
  /\ Answer(Head(s_queue).id, "LIST")
  /\ UNCHANGED numbering

(* send_2many: one turn of the loop for every node; a turn that passes over *)
(* a client that is not a friend sends to Nobody.                           *)
Server2Many ==
  /\ Receive({"2ALL", "2FRIENDS"})
  /\ Send([i \in 1 .. Len(clients) |->
            [to  |-> IF Head(s_queue).type = "2ALL" \/ clients[i].friend
                       THEN clients[i].queue ELSE Nobody,
             msg |-> Message("2MANY")]])
  /\ UNCHANGED <<clients, numbering>>

Server2One ==
  /\ Receive({"2ONE"})
  /\ LET to == {i \in DOMAIN clients : clients[i].id \in Head(s_queue).args} IN
     Send(IF to = {} THEN <<>>
          ELSE Tell(clients[CHOOSE i \in to : TRUE], Message("2ONE")))
  /\ UNCHANGED <<clients, numbering>>

(* Mistake: the first client is removed, whoever has stopped.               *)
ServerStop_first ==
  /\ Receive({"STOP"})
  /\ clients' = IF clients = <<>> THEN <<>> ELSE Tail(clients)
  /\ Send(<<>>)
  /\ UNCHANGED numbering

(* stop: of a node that is not the first, the successor is freed instead.   *)
ServerStop ==
  /\ Receive({"STOP"})
  /\ LET at == Find(Head(s_queue).id) IN
     clients' =
       IF at = {} THEN clients
       ELSE LET i == CHOOSE j \in at : TRUE IN
            IF i = 1 \/ i = Len(clients)
              THEN RemoveAt(clients, i)
              ELSE [RemoveAt(clients, i) EXCEPT ![i] = Freed]
  /\ Send(<<>>)
  /\ UNCHANGED numbering

Exists(queue) == queue # Nobody /\ c_open[queue]

(* Mistake: a broadcast that fails ends the server as well.                 *)
ServerSend_strict ==
  /\ server_pc = "send"
  /\ LET to == Head(outbox).to  msg == Head(outbox).msg IN
     \/ /\ Exists(to) /\ HasRoom(c_queue[to])
        /\ c_queue' = [c_queue EXCEPT ![to] = Append(@, msg)]
        /\ Send(Tail(outbox))
     \/ ~Exists(to) /\ Fail /\ UNCHANGED c_queue
  /\ UNCHANGED <<clients, numbering, s_queue, c_open, client>>

(* The next msgsnd of a handler.  Only send_2one and send_2many carry on    *)
(* when it fails.                                                           *)
ServerSend ==
  /\ server_pc = "send"
  /\ LET to == Head(outbox).to  msg == Head(outbox).msg IN
     \/ /\ Exists(to) /\ HasRoom(c_queue[to])
        /\ c_queue' = [c_queue EXCEPT ![to] = Append(@, msg)]
        /\ Send(Tail(outbox))
     \/ /\ ~Exists(to)
        /\ IF msg.type \in {"2ONE", "2MANY"} THEN Send(Tail(outbox)) ELSE Fail
        /\ UNCHANGED c_queue
  /\ UNCHANGED <<clients, numbering, s_queue, c_open, client>>

-----------------------------------------------------------------------------
(* server.c: sigint_handler and cleanup                                    *)

ServerInterrupt ==
  /\ server_pc \in ServerSignals
  /\ server_pc' = "stop" /\ outbox' = <<>>
  /\ UNCHANGED <<clients, numbering, queues, client>>

StopClient ==
  /\ server_pc = "stop" /\ clients # <<>>
  /\ LET to == Head(clients).queue IN
     \/ /\ Exists(to) /\ HasRoom(c_queue[to])
        /\ c_queue' = [c_queue EXCEPT ![to] = Append(@, Message("STOP"))]
     \/ ~Exists(to) /\ UNCHANGED c_queue
  /\ server_pc' = "await"
  /\ UNCHANGED <<clients, numbering, outbox, s_queue, s_open,
                 c_open, client>>

Stops == {i \in DOMAIN s_queue : s_queue[i].type = "STOP"}

(* Mistake: the server does not wait for the STOP of the client.            *)
AwaitStop_never ==
  /\ server_pc = "await"
  /\ clients' = Tail(clients)
  /\ server_pc' = "stop"
  /\ UNCHANGED <<numbering, outbox, queues, client>>

(* Any STOP will do, and nothing but a STOP.  To free a node for the second *)
(* time may abort the server, which then leaves its queue behind.           *)
AwaitStop ==
  /\ server_pc = "await"
  /\ \E first \in Stops :
       /\ \A i \in Stops : first <= i
       /\ s_queue' = RemoveAt(s_queue, first)
  /\ clients' = Tail(clients)
  /\ \/ server_pc' = "stop"
     \/ Head(clients) = Freed /\ server_pc' = "aborted"
  /\ UNCHANGED <<numbering, outbox, s_open, c_queue, c_open,
                 client>>

RemoveServerQueue ==
  /\ server_pc = "stop" /\ clients = <<>>
  /\ s_open' = FALSE
  /\ server_pc' = "gone"
  /\ UNCHANGED <<clients, numbering, outbox, s_queue, c_queue,
                 c_open, client>>

-----------------------------------------------------------------------------
(* client.c: main up to the fork                                           *)

(* The server's queue must exist before the client makes its own.           *)
OpenQueues(c) ==
  /\ parent_pc[c] = "init"
  /\ c_open' = [c_open EXCEPT ![c] = s_open]
  /\ parent_pc' = Goto(parent_pc, c, IF s_open THEN "knock" ELSE "dead")
  /\ UNCHANGED <<server, s_queue, s_open, c_queue, c_id, child_pc, pending, masked,
                 typed, asked, answered>>

(* A client that finds the server gone returns; no handler is registered,   *)
(* so that its queue stays.                                                 *)
SendInit(c) ==
  /\ parent_pc[c] = "knock"
  /\ \/ /\ s_open /\ HasRoom(s_queue)
        /\ s_queue' = Append(s_queue, [type |-> "INIT", id |-> 0, queue |-> c,
                                       args |-> {}])
        /\ parent_pc' = Goto(parent_pc, c, "await")
     \/ ~s_open /\ parent_pc' = Goto(parent_pc, c, "dead") /\ UNCHANGED s_queue
  /\ UNCHANGED <<server, s_open, c_queue, c_open, c_id, child_pc, pending, masked,
                 typed, asked, answered>>

(* The parent asks for a message of the type of its own queue: a STOP from  *)
(* the server stays for the child.                                          *)
Mail(c) == {i \in DOMAIN c_queue[c] : c_queue[c][i].type # "STOP"}

AwaitId(c) ==
  /\ parent_pc[c] = "await"
  /\ \E first \in Mail(c) :
       /\ \A i \in Mail(c) : first <= i
       /\ c_id' = [c_id EXCEPT ![c] = c_queue[c][first].id]
       /\ c_queue' = [c_queue EXCEPT ![c] = RemoveAt(@, first)]
  /\ child_pc' = Goto(child_pc, c, "listening")
  /\ parent_pc' = Goto(parent_pc, c, "register")
  /\ UNCHANGED <<server, s_queue, s_open, c_open, pending, masked, typed, asked,
                 answered>>

Register(c) ==
  /\ parent_pc[c] = "register"
  /\ parent_pc' = Goto(parent_pc, c, "idle")
  /\ UNCHANGED <<server, queues, c_id, child_pc, pending, masked, typed, asked,
                 answered>>

-----------------------------------------------------------------------------
(* client.c: the commands and the end of a client                          *)

(* A signal is handled before the parent's next step.                       *)
Running(c, pc) ==
  /\ parent_pc[c] = pc
  /\ pending[c] => "SIGUSR1" \in masked[c]

SendCommand(c) ==
  /\ Running(c, "idle") /\ typed < MaxCommands
  /\ \E type \in Commands, args \in SUBSET Named :
       /\ type \in {"ADD", "DEL"} => args # {}
       /\ type = "2ONE" => Cardinality(args) = 1
       /\ type \in {"ECHO", "LIST", "2ALL", "2FRIENDS"} => args = {}
       /\ \/ /\ s_open /\ HasRoom(s_queue)
             /\ s_queue' = Append(s_queue, [type |-> type, id |-> c_id[c],
                                            queue |-> Nobody, args |-> args])
             /\ asked' = IF type \in Requests
                           THEN [asked EXCEPT ![c] = @ + 1] ELSE asked
             /\ UNCHANGED parent_pc
          \/ /\ ~s_open
             /\ parent_pc' = Goto(parent_pc, c, "kill")
             /\ UNCHANGED <<s_queue, asked>>
  /\ typed' = typed + 1
  /\ UNCHANGED <<server, s_open, c_queue, c_open, c_id, child_pc, pending, masked,
                 answered>>

(* STOP and the end of the input: exit calls cleanup.                       *)
Leave(c) ==
  /\ Leaving /\ Running(c, "idle")
  /\ parent_pc' = Goto(parent_pc, c, "kill")
  /\ UNCHANGED <<server, queues, c_id, child_pc, pending, masked, typed, asked,
                 answered>>

(* cleanup, 1: the child dies of SIGINT, but a kill it is about to make may  *)
(* still get through.                                                       *)
KillChild(c) ==
  /\ Running(c, "kill")
  /\ \/ child_pc' = Goto(child_pc, c, "gone")
     \/ child_pc[c] = "told" /\ UNCHANGED child_pc
  /\ parent_pc' = Goto(parent_pc, c, "remove")
  /\ UNCHANGED <<server, queues, c_id, pending, masked, typed, asked, answered>>

(* Mistake: the server is not told.                                         *)
RemoveQueue_silently(c) ==
  /\ Running(c, "remove")
  /\ c_open' = [c_open EXCEPT ![c] = FALSE]
  /\ c_queue' = [c_queue EXCEPT ![c] = <<>>]
  /\ parent_pc' = Goto(parent_pc, c, "gone")
  /\ UNCHANGED <<server, s_queue, s_open, c_id, child_pc, pending, masked, typed,
                 asked, answered>>

(* cleanup, 2: a cleanup that interrupts another finds the queue removed    *)
(* and ends the client there.                                               *)
RemoveQueue(c) ==
  /\ Running(c, "remove")
  /\ c_open' = [c_open EXCEPT ![c] = FALSE]
  /\ c_queue' = [c_queue EXCEPT ![c] = <<>>]
  /\ parent_pc' = Goto(parent_pc, c, IF c_open[c] THEN "bye" ELSE "gone")
  /\ UNCHANGED <<server, s_queue, s_open, c_id, child_pc, pending, masked, typed,
                 asked, answered>>

(* cleanup, 3.                                                              *)
SendStop(c) ==
  /\ Running(c, "bye")
  /\ \/ /\ s_open /\ HasRoom(s_queue)
        /\ s_queue' = Append(s_queue, [type |-> "STOP", id |-> c_id[c],
                                       queue |-> Nobody, args |-> {}])
     \/ ~s_open /\ UNCHANGED s_queue
  /\ parent_pc' = Goto(parent_pc, c, "gone")
  /\ UNCHANGED <<server, s_open, c_queue, c_open, c_id, child_pc, pending, masked,
                 typed, asked, answered>>

(* Each handler is blocked while it runs itself, but not while the other    *)
(* one does, and no handler returns.  Before registration the signal kills. *)
Deliver(c, signal) ==
  /\ Alive(c) /\ signal \notin masked[c]
  /\ IF parent_pc[c] \in {"init", "knock", "await", "register"}
       THEN EarlySignals /\ parent_pc' = Goto(parent_pc, c, "dead")
       ELSE parent_pc' = Goto(parent_pc, c, "kill")
  /\ masked' = [masked EXCEPT ![c] = @ \cup {signal}]

HandleUSR1(c) ==
  /\ pending[c]
  /\ Deliver(c, "SIGUSR1")
  /\ pending' = [pending EXCEPT ![c] = FALSE]
  /\ UNCHANGED <<server, queues, c_id, child_pc, typed, asked, answered>>

(* Ctrl+C reaches the child as well, a signal to the parent does not.       *)
HandleINT(c) ==
  /\ ClientSignals
  /\ Deliver(c, "SIGINT")
  /\ \E child \in {child_pc[c], "gone"} :
       /\ child_pc[c] = "none" => child = "none"
       /\ child_pc' = Goto(child_pc, c, child)
  /\ UNCHANGED <<server, queues, c_id, pending, typed, asked, answered>>

-----------------------------------------------------------------------------
(* client.c: the child                                                     *)

ChildReceive(c) ==
  /\ child_pc[c] = "listening" /\ c_queue[c] # <<>>
  /\ LET type == Head(c_queue[c]).type IN
     /\ child_pc' = IF type = "STOP" THEN Goto(child_pc, c, "told") ELSE child_pc
     /\ answered' = IF type \in {"ECHO", "LIST"}
                      THEN [answered EXCEPT ![c] = @ + 1] ELSE answered
  /\ c_queue' = [c_queue EXCEPT ![c] = Tail(@)]
  /\ UNCHANGED <<server, s_queue, s_open, c_open, c_id, parent_pc, pending, masked,
                 typed, asked>>

ChildSignals(c) ==
  /\ child_pc[c] = "told"
  /\ child_pc' = Goto(child_pc, c, "gone")
  /\ pending' = [pending EXCEPT ![c] = Alive(c)]
  /\ UNCHANGED <<server, queues, c_id, parent_pc, masked, typed, asked, answered>>

-----------------------------------------------------------------------------
ServerStep ==
  \/ ServerInit \/ ServerEcho \/ ServerList \/ ServerFriends \/ ServerModify
  \/ Server2Many \/ Server2One \/ ServerStop \/ ServerSend
  \/ StopClient \/ AwaitStop \/ RemoveServerQueue

ParentStep(c) ==
  \/ OpenQueues(c) \/ SendInit(c) \/ AwaitId(c) \/ Register(c)
  \/ KillChild(c) \/ RemoveQueue(c) \/ SendStop(c) \/ HandleUSR1(c)

ChildStep(c) == ChildReceive(c) \/ ChildSignals(c)

(* What users and their terminals do.                                       *)
UserStep ==
  \/ ServerInterrupt
  \/ \E c \in Clients : SendCommand(c) \/ Leave(c) \/ HandleINT(c)

Next ==
  \/ ServerStep
  \/ \E c \in Clients : ParentStep(c) \/ ChildStep(c)
  \/ UserStep

Spec == Init /\ [][Next]_vars

(* Every process runs on; what the users do is left to them.  The kernel    *)
(* serves those that wait for room in a queue first come, first served, so  *)
(* that one that waits again and again gets through: strong fairness.       *)
FairSpec ==
  /\ Spec
  /\ WF_vars(ServerStep)
  /\ \A c \in Clients :
       /\ WF_vars(ParentStep(c)) /\ WF_vars(ChildStep(c))
       /\ SF_vars(SendInit(c)) /\ SF_vars(SendStop(c))

-----------------------------------------------------------------------------
TypeOK ==
  /\ server_pc \in ServerPC
  /\ clients \in Seq(Node) /\ Len(clients) <= Cardinality(Clients)
  /\ clients_id_autoincrement \in 1 .. Cardinality(Clients) + 1
  /\ \A i \in DOMAIN outbox :
       outbox[i].to \in Clients \cup {Nobody} /\ outbox[i].msg \in Reply
  /\ s_queue \in Seq(Request) /\ Len(s_queue) <= Capacity
  /\ s_open \in BOOLEAN
  /\ \A c \in Clients : c_queue[c] \in Seq(Reply) /\ Len(c_queue[c]) <= Capacity
  /\ c_open \in [Clients -> BOOLEAN]
  /\ c_id \in [Clients -> Id \cup {0}]
  /\ parent_pc \in [Clients -> ParentPC]
  /\ child_pc \in [Clients -> ChildPC]
  /\ pending \in [Clients -> BOOLEAN]
  /\ masked \in [Clients -> SUBSET {"SIGINT", "SIGUSR1"}]
  /\ typed \in 0 .. MaxCommands
  /\ asked \in [Clients -> 0 .. MaxCommands]
  /\ answered \in [Clients -> 0 .. MaxCommands]

(* stop() frees the successor of the client that has left, which stays in   *)
(* the list unless it was the last.                                         *)
ListIsAllocated == \A i \in DOMAIN clients : clients[i] # Freed

(* Whoever sends the server anything but INIT is, when the message is read, *)
(* in the list under its own id and with its own queue, and nobody is sent  *)
(* the answer of another: "Client ID not found" cannot happen, as long as   *)
(* the list itself is sound.                                                *)
KnownSender ==
  server_pc \in {"receive", "send"} /\ ListIsAllocated =>
    \A i \in DOMAIN s_queue : s_queue[i].type # "INIT" =>
      \E j \in DOMAIN clients :
        /\ Find(s_queue[i].id) = {j}
        /\ c_id[clients[j].queue] = s_queue[i].id

(* While the list is sound, the server ends with a failure only because a   *)
(* client left without waiting for the answer to what it had asked.         *)
FailsOnlyForTheDeparted ==
  server_pc = "failed" /\ ListIsAllocated =>
    \E c \in Clients : ~c_open[c] /\ c_id[c] # 0 /\ asked[c] > answered[c]

(* A server that was interrupted leaves last: each client that has got its  *)
(* id is at its end by then, whichever STOP the server took for whose.      *)
ServerLeavesLast ==
  server_pc = "gone" => \A c \in Clients : c_id[c] # 0 => ~Alive(c)

-----------------------------------------------------------------------------
(* What the users see of this program.  A client is leaving when its queue  *)
(* is gone.                                                                 *)
Presence(c) ==
  IF ~Alive(c) THEN "left" ELSE IF c_id[c] # 0 /\ ~c_open[c] THEN "leaving" ELSE "here"

Door ==
  CASE server_pc \in {"receive", "send"} -> "open"
    [] server_pc \in {"stop", "await"} -> "closing"
    [] server_pc = "gone" -> "closed"
    [] OTHER -> "broken"

Room == INSTANCE ChatRoom WITH
          door     <- Door,
          numbered <- owner,
          number   <- c_id,
          presence <- [c \in Clients |-> Presence(c)],
          NoNumber <- 0, WrongNumber <- -1, Orderly <- TRUE

(* Server and clients are a chat room: whatever is interrupted where, each  *)
(* client learns the number that it alone was given, is answered only what  *)
(* it has asked, and the server ends after all, unless one who has begun to *)
(* leave brings it down.                                                    *)
ImplementsChatRoom == Room!Spec

-----------------------------------------------------------------------------
(* While nobody leaves, a command that calls for an answer is answered,     *)
(* unless the server is interrupted first.                                  *)
RequestsAnswered ==
  \A c \in Clients : \A n \in 1 .. MaxCommands :
    asked[c] >= n ~> answered[c] >= n \/ server_pc \in {"stop", "await", "gone"}

(* A client that the server has listed and that will never send its STOP:   *)
(* its own child has told it of the end of the server before it had a       *)
(* handler for that, or the server was interrupted before it had sent it    *)
(* its id.                                                                  *)
Lost(c) ==
  \/ parent_pc[c] = "dead" /\ c_id[c] # 0
  \/ parent_pc[c] = "await" /\ Mail(c) = {}

(* "receive STOP msg from client": an interrupted server comes to its end,  *)
(* unless it is left waiting for the STOP of such a client.                 *)
ServerLeaves ==
  server_pc = "stop" ~>
    \/ server_pc = "gone"
    \/ server_pc = "await" /\ \E i \in DOMAIN owner : Lost(owner[i])
=============================================================================
