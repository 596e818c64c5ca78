------------------------------ MODULE Signals -------------------------------
(***************************************************************************)
(* cw04/zad3: sender sends catcher a number of signals and catcher sends   *)
(* as many back as it has counted; or, compiled with -DCONFIRM, catcher    *)
(* confirms every signal and sender waits for that.  The end of a sequence *)
(* is another signal.  Both wait with a flag that is tested before         *)
(* pause().                                                                *)
(*                                                                         *)
(* "one" stands for SIGUSR1 or SIGRT1, "end" for SIGUSR2 or SIGRT2.  A     *)
(* handler is one step: handlers of the two signals may interrupt each     *)
(* other, which is the interrupting one first.  A process that has signals *)
(* to handle handles them before it does anything else.                    *)
(***************************************************************************)
EXTENDS Integers, Sequences, FiniteSets

CONSTANTS
  Modes,         \* the modes that both are started with, one of them
  Builds,        \* compiled with -DCONFIRM or without
  Starts,        \* sender begins "early", or "ready": when catcher waits for it
  N              \* the number of signals

ASSUME ArgumentsAssumption ==
  /\ Modes \subseteq {"KILL", "SIGQUEUE", "SIGRT"}
  /\ Builds \subseteq {"default", "CONFIRM"}
  /\ Starts \subseteq {"early", "ready"}
  /\ N \in Nat

VARIABLES
  mode, build, start,
  pc,
  sent,          \* signals sent, the end included
  pending,       \* signals to handle, in order of arrival
  registered,    \* signals that have a handler
  counter, listen, value

config == <<mode, build, start>>
vars == <<config, pc, sent, pending, registered, counter, listen, value>>

Confirm == build = "CONFIRM"

Process == {"sender", "catcher"}

Other(p) == CHOOSE q \in Process : q # p

Signal == {"one", "end"}

PC == {"register", "act_one", "act_end", "zero", "listen", "test", "enter", "paused",
       "confirm", "send", "done", "killed"}

Init ==
  /\ mode \in Modes /\ build \in Builds /\ start \in Starts
  /\ pc = [p \in Process |-> IF p = "catcher" THEN "act_one"
                             ELSE IF Confirm THEN "register" ELSE "send"]
  /\ sent = [p \in Process |-> 0]
  /\ pending = [p \in Process |-> <<>>]
  /\ registered = [p \in Process |-> {}]
  /\ counter = [p \in Process |-> 0]
  /\ listen = [p \in Process |-> FALSE]
  /\ value = [p \in Process |-> 0]

At(p, label) == pc[p] = label /\ pending[p] = <<>>

Goto(p, label) == pc' = [pc EXCEPT ![p] = label]

-----------------------------------------------------------------------------
(* Mistake: real-time signals are merged like the others.                   *)
Kept_merged(p, signal) == \A i \in DOMAIN pending[p] : pending[p][i].signal # signal

(* A signal that is pending already is not queued, unless it is real-time.  *)
Kept(p, signal) ==
  mode = "SIGRT" \/ \A i \in DOMAIN pending[p] : pending[p][i].signal # signal

(* kill and sigqueue; only the latter attaches the value.                   *)
Raise(p, signal, v) ==
  pending' =
    IF Kept(p, signal) /\ pc[p] \notin {"done", "killed"}
      THEN [pending EXCEPT ![p] =
              Append(@, [signal |-> signal,
                         value  |-> IF mode = "SIGQUEUE" THEN v ELSE 0])]
      ELSE pending

Queued(p, signal) == {i \in DOMAIN pending[p] : pending[p][i].signal = signal}

Without(queue, i) == SubSeq(queue, 1, i - 1) \o SubSeq(queue, i + 1, Len(queue))

(* receive_handle_signal, do_nothing for a sender that waits for             *)
(* confirmation, or the default, which is to end.  pause returns after it.  *)
Handle(p) ==
  \E signal \in Signal : \E i \in Queued(p, signal) :
    /\ \A k \in Queued(p, signal) : i <= k
    /\ IF signal \notin registered[p]
         THEN /\ Goto(p, "killed")
              /\ pending' = [pending EXCEPT ![p] = <<>>]
              /\ UNCHANGED <<counter, listen, value>>
         ELSE /\ pending' = [pending EXCEPT ![p] = Without(@, i)]
              /\ pc' = IF pc[p] = "paused"
                         THEN [pc EXCEPT ![p] = IF ~Confirm THEN "test"
                                                ELSE IF p = "catcher" THEN "confirm"
                                                ELSE IF sent[p] > N THEN "done"
                                                ELSE "send"]
                         ELSE pc
              /\ IF Confirm /\ p = "sender" THEN UNCHANGED <<counter, listen, value>>
                 ELSE /\ counter' = IF signal = "one" THEN [counter EXCEPT ![p] = @ + 1]
                                                      ELSE counter
                      /\ listen' = IF signal = "end" THEN [listen EXCEPT ![p] = FALSE]
                                                     ELSE listen
                      /\ value' = [value EXCEPT ![p] = pending[p][i].value]
    /\ UNCHANGED <<config, sent, registered>>

-----------------------------------------------------------------------------
(* send_sequence, and the sends of send_sequence_with_confirmation          *)

(* Mistake: the loop of sender runs once too often.                         *)
Total_over(p) == IF p = "sender" THEN N + 1 ELSE counter[p]

(* Mistake: catcher sends the end as one more.                              *)
Total_extra(p) == IF p = "sender" THEN N ELSE counter[p] + 1

(* Nothing more is counted once the end has been: it is sent last.          *)
Total(p) == IF p = "sender" THEN N ELSE counter[p]

(* Catcher is there when sender is given its pid, but may not be ready.     *)
Ready == start = "early" \/ pc["catcher"] \notin {"act_one", "act_end", "zero", "listen"}

SentAll(p) ==
  IF Confirm THEN "enter" ELSE IF p = "sender" THEN "act_one" ELSE "done"

SendOne(p) ==
  /\ At(p, "send") /\ Ready
  /\ sent[p] < Total(p)
  /\ Raise(Other(p), "one", sent[p])
  /\ sent' = [sent EXCEPT ![p] = @ + 1]
  /\ Goto(p, IF Confirm THEN "enter" ELSE "send")
  /\ UNCHANGED <<config, registered, counter, listen, value>>

SendEnd(p) ==
  /\ At(p, "send") /\ Ready
  /\ sent[p] = Total(p)
  /\ Raise(Other(p), "end", Total(p))
  /\ sent' = [sent EXCEPT ![p] = @ + 1]
  /\ Goto(p, SentAll(p))
  /\ UNCHANGED <<config, registered, counter, listen, value>>

(* A sender that waits for confirmation sets its handlers up first.         *)
RegisterBoth ==
  /\ At("sender", "register")
  /\ registered' = [registered EXCEPT !["sender"] = Signal]
  /\ Goto("sender", "send")
  /\ UNCHANGED <<config, sent, pending, counter, listen, value>>

-----------------------------------------------------------------------------
(* receive_sequence, with and without confirmation                         *)

Register(p, label, signal, next) ==
  /\ At(p, label)
  /\ registered' = [registered EXCEPT ![p] = @ \cup {signal}]
  /\ Goto(p, next)
  /\ UNCHANGED <<config, sent, pending, counter, listen, value>>

RegisterOne(p) == Register(p, "act_one", "one", "act_end")
RegisterEnd(p) == Register(p, "act_end", "end", "zero")

ResetCounter(p) ==
  /\ At(p, "zero")
  /\ counter' = [counter EXCEPT ![p] = 0]
  /\ Goto(p, "listen")
  /\ UNCHANGED <<config, sent, pending, registered, listen, value>>

StartListening(p) ==
  /\ At(p, "listen")
  /\ listen' = [listen EXCEPT ![p] = TRUE]
  /\ Goto(p, "test")
  /\ UNCHANGED <<config, sent, pending, registered, counter, value>>

(* Mistake: the counter is reset inside of the loop.                        *)
TestListen_resets(p) ==
  /\ At(p, "test")
  /\ Goto(p, IF listen[p] THEN "enter"
             ELSE IF p = "catcher" /\ ~Confirm THEN "send" ELSE "done")
  /\ counter' = IF listen[p] THEN [counter EXCEPT ![p] = 0] ELSE counter
  /\ UNCHANGED <<config, sent, pending, registered, listen, value>>

(* Catcher has then to send back, unless it has confirmed.                  *)
TestListen(p) ==
  /\ At(p, "test")
  /\ Goto(p, IF listen[p] THEN "enter"
             ELSE IF p = "catcher" /\ ~Confirm THEN "send" ELSE "done")
  /\ UNCHANGED <<config, sent, pending, registered, counter, listen, value>>

(* Mistake: the wait for a confirmation is left out.                        *)
Pause_skipped(p) ==
  /\ At(p, "enter")
  /\ Goto(p, IF Confirm /\ p = "sender"
               THEN IF sent[p] > N THEN "done" ELSE "send" ELSE "paused")
  /\ UNCHANGED <<config, sent, pending, registered, counter, listen, value>>

(* pause: what has been handled before does not end it.                     *)
Pause(p) ==
  /\ At(p, "enter")
  /\ Goto(p, "paused")
  /\ UNCHANGED <<config, sent, pending, registered, counter, listen, value>>

Confirmation ==
  /\ At("catcher", "confirm")
  /\ Raise("sender", IF listen["catcher"] THEN "one" ELSE "end", 0)
  /\ Goto("catcher", "test")
  /\ UNCHANGED <<config, sent, registered, counter, listen, value>>

-----------------------------------------------------------------------------
Step(p) ==
  \/ Handle(p) \/ SendOne(p) \/ SendEnd(p) \/ RegisterOne(p) \/ RegisterEnd(p)
  \/ ResetCounter(p) \/ StartListening(p) \/ TestListen(p) \/ Pause(p)

Next == RegisterBoth \/ Confirmation \/ \E p \in Process : Step(p)

Spec == Init /\ [][Next]_vars

-----------------------------------------------------------------------------
TypeOK ==
  /\ mode \in Modes /\ build \in Builds /\ start \in Starts
  /\ pc \in [Process -> PC]
  /\ sent \in [Process -> 0 .. N + 1]
  /\ \A p \in Process :
       /\ pending[p] \in Seq([signal : Signal, value : 0 .. N])
       /\ Len(pending[p]) <= IF mode = "SIGRT" THEN N + 1 ELSE 2
  /\ registered \in [Process -> SUBSET Signal]
  /\ counter \in [Process -> 0 .. N]
  /\ listen \in [Process -> BOOLEAN]
  /\ value \in [Process -> 0 .. N]

Counted == ~Confirm /\ start = "ready" /\ pc["catcher"] \in {"send", "done"}

(* Real-time signals are queued: a catcher that was ready counts them all,  *)
(* though the one that ends the sequence may be handled before others.      *)
RealTimeLossless == mode = "SIGRT" /\ Counted => counter["catcher"] = N

(* SIGUSR1 may be merged with one that is pending, but never all of them    *)
(* get lost.                                                                *)
OneGetsThrough == N > 0 /\ Counted => counter["catcher"] > 0

(* "wait for confirmation": when sender is done, catcher has counted every  *)
(* signal, in every mode, however early sender began and whatever wake-ups  *)
(* were missed on the way.                                                  *)
ConfirmedAll == Confirm /\ pc["sender"] = "done" => counter["catcher"] = N

(* With confirmation neither process ever has two signals to handle, so     *)
(* that nothing can be merged.                                              *)
OneAtATime == Confirm => \A p \in Process : Len(pending[p]) <= 1

(* "received back %d signals", "catcher has received %d signals": both may  *)
(* fall short of what catcher has counted, the second because it is the     *)
(* value of whatever signal was handled last; neither ever exceeds it.      *)
NothingInvented ==
  ~Confirm /\ pc["sender"] = "done" =>
    counter["sender"] <= counter["catcher"] /\ value["sender"] <= counter["catcher"]
=============================================================================
