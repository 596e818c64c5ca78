------------------------------ MODULE ChatRoom ------------------------------
(***************************************************************************)
(* What the chats of cw06 promise to their users, who know nothing of      *)
(* queues, processes and signals.                                          *)
(*                                                                         *)
(* The room admits each client at most once and numbers them in the order  *)
(* in which it admits them.  A client learns its own number before it asks *)
(* for anything, and is answered no more often than it has asked.  The     *)
(* room closes for good; it breaks down only after somebody it had         *)
(* admitted has begun to leave.                                            *)
(*                                                                         *)
(* Modules Chat (System V queues) and MqChat (POSIX queues) implement this *)
(* specification (ImplementsChatRoom in each).                             *)
(***************************************************************************)
EXTENDS Integers, Sequences

CONSTANTS
  Clients,
  NoNumber,      \* the number of a client that has yet to learn its own
  WrongNumber,   \* what a client may take for its number
  Orderly        \* is a closing room as careful as an open one?

VARIABLES
  door,       \* "open", "closing", "closed" or "broken"
  numbered,   \* the clients that have been admitted, in this order
  number,     \* what each client takes for its number
  presence,   \* "here", "leaving" or "left"
  asked, answered   \* how often each client has asked and been answered

vars == <<door, numbered, number, presence, asked, answered>>

Admitted == {numbered[k] : k \in DOMAIN numbered}

Init ==
  /\ door = "open"
  /\ numbered = <<>>
  /\ number = [c \in Clients |-> NoNumber]
  /\ presence = [c \in Clients |-> "here"]
  /\ asked = [c \in Clients |-> 0] /\ answered = [c \in Clients |-> 0]

Admit(c) ==
  /\ door = "open" /\ c \notin Admitted
  /\ numbered' = Append(numbered, c)
  /\ UNCHANGED <<door, number, presence, asked, answered>>

(* Only in a room that is not orderly, and not before it closes, may a      *)
(* client be mistaken.                                                      *)
Learn(c) ==
  /\ presence[c] = "here" /\ number[c] = NoNumber
  /\ \E k \in DOMAIN numbered \cup {WrongNumber} :
       /\ k \in DOMAIN numbered => numbered[k] = c
       /\ k = WrongNumber => ~Orderly /\ door # "open"
       /\ number' = [number EXCEPT ![c] = k]
  /\ UNCHANGED <<door, numbered, presence, asked, answered>>

Ask(c) ==
  /\ presence[c] # "left" /\ number[c] # NoNumber
  /\ asked' = [asked EXCEPT ![c] = @ + 1]
  /\ UNCHANGED <<door, numbered, number, presence, answered>>

Answer(c) ==
  /\ answered[c] < asked[c]
  /\ answered' = [answered EXCEPT ![c] = @ + 1]
  /\ UNCHANGED <<door, numbered, number, presence, asked>>

Depart(c) ==
  /\ presence'[c] \in {"leaving", "left"} \ {presence[c]}
  /\ presence[c] # "left"
  /\ presence' = [presence EXCEPT ![c] = presence'[c]]
  /\ UNCHANGED <<door, numbered, number, asked, answered>>

Close ==
  /\ door = "open" /\ door' = "closing"
  /\ UNCHANGED <<numbered, number, presence, asked, answered>>

(* The last to leave an orderly room is its server.                         *)
Shut ==
  /\ door = "closing" /\ door' = "closed"
  /\ Orderly => \A c \in Admitted : presence[c] = "left"
  /\ UNCHANGED <<numbered, number, presence, asked, answered>>

Break ==
  /\ door \in {"open", "closing"} /\ door' = "broken"
  /\ \E c \in Admitted : presence[c] # "here"
  /\ UNCHANGED <<numbered, number, presence, asked, answered>>

(* What clients write to each other is not the business of the room.        *)
Talk == UNCHANGED vars

Next ==
  \/ Talk
  \/ \E c \in Clients : Admit(c) \/ Learn(c) \/ Ask(c) \/ Answer(c) \/ Depart(c)
  \/ Close \/ Shut \/ Break

Spec == Init /\ [][Next]_vars
=============================================================================
