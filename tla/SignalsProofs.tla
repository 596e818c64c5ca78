---------------------------- MODULE SignalsProofs ----------------------------
(***************************************************************************)
(* The properties of module Signals, for any number of signals.            *)
(***************************************************************************)
EXTENDS Signals, SequenceTheorems, TLAPS

Item == [signal : Signal, value : Nat]

(* What a queue of signals holds (Size is Len, by a name that is left       *)
(* unexpanded in sums)                                                      *)
Size(q) == Len(q)
Has(q, s) == \E k \in 1 .. Len(q) : q[k].signal = s
AtMostOnce(q, s) ==
  \A k, m \in 1 .. Len(q) : q[k].signal = s /\ q[m].signal = s => k = m
Bounded(q, b) == \A k \in 1 .. Len(q) : q[k].value <= b

-----------------------------------------------------------------------------
(* Queues                                                                  *)

LEMMA EmptyQueue ==
  /\ <<>> \in Seq(Item) /\ Size(<<>>) = 0
  /\ \A s : ~Has(<<>>, s) /\ AtMostOnce(<<>>, s)
  /\ \A b : Bounded(<<>>, b)
BY DEF Has, AtMostOnce, Bounded, Size

LEMMA AppendQueue ==
  ASSUME NEW q \in Seq(Item), NEW e \in Item
  PROVE  /\ Append(q, e) \in Seq(Item) /\ Size(Append(q, e)) = Size(q) + 1
         /\ \A s : Has(Append(q, e), s) <=> Has(q, s) \/ e.signal = s
         /\ \A s : AtMostOnce(q, s) /\ (e.signal = s => ~Has(q, s)) => AtMostOnce(Append(q, e), s)
         /\ \A b \in Nat : Bounded(q, b) /\ e.value <= b => Bounded(Append(q, e), b)
<1> DEFINE r == Append(q, e)
<1>1. /\ r \in Seq(Item) /\ Len(r) = Len(q) + 1 /\ Len(q) \in Nat
      /\ \A k \in 1 .. Len(q) : r[k] = q[k]
      /\ r[Len(q) + 1] = e
  OBVIOUS
<1> HIDE DEF r
<1>2. \A k \in 1 .. Len(r) : k \in 1 .. Len(q) \/ k = Len(q) + 1
  BY <1>1
<1>3. \A s : Has(r, s) <=> Has(q, s) \/ e.signal = s
  BY <1>1, <1>2 DEF Has
<1>4. \A s : AtMostOnce(q, s) /\ (e.signal = s => ~Has(q, s)) => AtMostOnce(r, s)
  BY <1>1, <1>2 DEF AtMostOnce, Has
<1>5. \A b \in Nat : Bounded(q, b) /\ e.value <= b => Bounded(r, b)
  BY <1>1, <1>2 DEF Bounded
<1> QED BY <1>1, <1>3, <1>4, <1>5 DEF r, Size

LEMMA WithoutQueue ==
  ASSUME NEW q \in Seq(Item), NEW i \in 1 .. Len(q)
  PROVE  /\ Without(q, i) \in Seq(Item) /\ Size(Without(q, i)) = Size(q) - 1
         /\ \A s : Has(Without(q, i), s) => Has(q, s)
         /\ \A s : Has(q, s) /\ q[i].signal # s => Has(Without(q, i), s)
         /\ \A s : AtMostOnce(q, s) => AtMostOnce(Without(q, i), s)
         /\ \A s : AtMostOnce(q, s) /\ q[i].signal = s => ~Has(Without(q, i), s)
         /\ \A b \in Nat : Bounded(q, b) => Bounded(Without(q, i), b)
<1> DEFINE r == Without(q, i)
           back(k) == IF k < i THEN k ELSE k + 1
<1>1. /\ r \in Seq(Item) /\ Len(r) = Len(q) - 1 /\ Len(q) \in Nat \ {0} /\ i \in 1 .. Len(q)
      /\ \A k \in 1 .. Len(r) : r[k] = q[back(k)]
  <2> DEFINE f == SubSeq(q, 1, i - 1)
             g == SubSeq(q, i + 1, Len(q))
  <2>1. /\ f \in Seq(Item) /\ Len(f) = i - 1 /\ \A k \in 1 .. i - 1 : f[k] = q[k]
    OBVIOUS
  <2>2. /\ g \in Seq(Item) /\ Len(g) = Len(q) - i
        /\ \A k \in 1 .. Len(q) - i : g[k] = q[i + k]
    OBVIOUS
  <2>3. r = f \o g
    BY DEF Without
  <2> HIDE DEF f, g, r
  <2>4. Len(q) \in Nat \ {0} /\ i \in 1 .. Len(q)
    OBVIOUS
  <2>5. r \in Seq(Item) /\ Len(r) = Len(q) - 1
    <3>1. f \o g \in Seq(Item) /\ Len(f \o g) = Len(f) + Len(g)
      BY <2>1, <2>2, ConcatProperties
    <3> QED BY <2>1, <2>2, <2>3, <2>4, <3>1
  <2>6. ASSUME NEW k \in 1 .. Len(r) PROVE r[k] = q[back(k)]
    <3>1. CASE k < i
      BY <2>1, <2>2, <2>3, <2>4, <3>1
    <3>2. CASE ~(k < i)
      <4>1. r[k] = g[k - (i - 1)]
        BY <2>1, <2>2, <2>3, <2>4, <2>5, <3>2
      <4>2. k - (i - 1) \in 1 .. Len(q) - i /\ i + (k - (i - 1)) = k + 1
        BY <2>4, <2>5, <3>2
      <4> QED BY <2>2, <3>2, <4>1, <4>2
    <3> QED BY <3>1, <3>2
  <2> QED BY <2>4, <2>5, <2>6
<1> HIDE DEF r
<1>2. \A k \in 1 .. Len(r) : back(k) \in 1 .. Len(q) /\ back(k) # i
  BY <1>1
<1>3. \A k, m \in 1 .. Len(r) : back(k) = back(m) => k = m
  BY <1>1
<1>4. \A m \in 1 .. Len(q) : m # i => \E k \in 1 .. Len(r) : back(k) = m
  <2> TAKE m \in 1 .. Len(q)
  <2> HAVE m # i
  <2>1. CASE m < i
    <3>1. m \in 1 .. Len(r) /\ back(m) = m
      BY <1>1, <2>1
    <3> QED BY <3>1
  <2>2. CASE m > i
    <3>1. m - 1 \in 1 .. Len(r) /\ back(m - 1) = m
      BY <1>1, <2>2
    <3> QED BY <3>1
  <2> QED BY <1>1, <2>1, <2>2
<1> HIDE DEF back
<1>5. \A s : Has(r, s) => Has(q, s)
  BY <1>1, <1>2 DEF Has
<1>6. \A s : Has(q, s) /\ q[i].signal # s => Has(r, s)
  BY <1>1, <1>4 DEF Has
<1>7. \A s : AtMostOnce(q, s) => AtMostOnce(r, s)
  BY <1>1, <1>2, <1>3 DEF AtMostOnce
<1>8. \A s : AtMostOnce(q, s) /\ q[i].signal = s => ~Has(r, s)
  BY <1>1, <1>2 DEF AtMostOnce, Has
<1>9. \A b \in Nat : Bounded(q, b) => Bounded(r, b)
  BY <1>1, <1>2 DEF Bounded
<1> QED BY <1>1, <1>5, <1>6, <1>7, <1>8, <1>9 DEF r, Size

-----------------------------------------------------------------------------
(* The invariant                                                           *)

Types ==
  /\ mode \in Modes /\ build \in Builds /\ start \in Starts
  /\ pc \in [Process -> PC]
  /\ sent \in [Process -> Nat]
  /\ pending \in [Process -> Seq(Item)]
  /\ registered \in [Process -> SUBSET Signal]
  /\ counter \in [Process -> Nat]
  /\ listen \in [Process -> BOOLEAN]
  /\ value \in [Process -> Nat]

(* Ordinary signals are pending at most once each.                          *)
Merged ==
  mode # "SIGRT" =>
    \A p \in Process : AtMostOnce(pending[p], "one") /\ AtMostOnce(pending[p], "end")

Values == \A p \in Process : Bounded(pending[p], N) /\ value[p] <= N

(* A catcher that has begun to listen does not reset its counter any more.  *)
Past == pc["catcher"] \notin {"act_one", "act_end", "zero", "listen"}

Least(a, b) == IF a <= b THEN a ELSE b

InFlight ==
  Size(pending["sender"]) + Size(pending["catcher"]) + (IF pc["catcher"] = "confirm" THEN 1 ELSE 0)

(* With confirmation there is one signal or one confirmation on its way, or *)
(* a confirmation owed; or none, and then sender may send, or is done, or   *)
(* waits forever.                                                           *)
ConfirmInv ==
  Confirm =>
    /\ pc["catcher"] \notin {"register", "send"}
    /\ pc["sender"] \in {"register", "send", "enter", "paused", "done"}
    /\ pc["sender"] # "register" => registered["sender"] = Signal
    /\ sent["sender"] <= N + 1 /\ sent["catcher"] = 0
    /\ counter["catcher"] <= N /\ counter["sender"] = 0 /\ value["sender"] = 0
    /\ InFlight <= 1
    /\ pc["sender"] \in {"register", "send"} =>
         InFlight = 0 /\ counter["catcher"] = sent["sender"] /\ (sent["sender"] > 0 => Past)
    /\ pc["sender"] = "done" => InFlight = 0 /\ counter["catcher"] = N /\ Past
    /\ Size(pending["catcher"]) > 0 =>
         /\ counter["catcher"] = sent["sender"] - 1
         /\ ~Has(pending["catcher"], IF sent["sender"] <= N THEN "end" ELSE "one")
    /\ Size(pending["sender"]) > 0 \/ pc["catcher"] = "confirm" =>
         counter["catcher"] = Least(sent["sender"], N) /\ Past

Ends(q) == IF Has(q, "end") THEN 1 ELSE 0

(* Without confirmation: no more is counted or pending than was sent, and   *)
(* catcher answers when it has been sent, and has handled, everything.      *)
FreeInv ==
  ~Confirm =>
    /\ pc["catcher"] # "confirm"
    /\ sent["sender"] <= N + 1
    /\ Has(pending["catcher"], "end") => sent["sender"] = N + 1
    /\ pc["catcher"] \in {"test", "enter", "paused"} /\ ~listen["catcher"] => sent["sender"] = N + 1
    /\ pc["catcher"] \in {"send", "done"} =>
         sent["sender"] = N + 1 /\ Size(pending["catcher"]) = 0
    /\ pc["catcher"] \notin {"send", "done"} =>
         /\ sent["catcher"] = 0 /\ Size(pending["sender"]) = 0
         /\ value["sender"] = 0 /\ counter["sender"] = 0
    /\ sent["catcher"] <= counter["catcher"] + 1
    /\ Has(pending["sender"], "end") => sent["catcher"] = counter["catcher"] + 1
    /\ counter["catcher"] + Size(pending["catcher"])
         <= Least(sent["sender"], N) + Ends(pending["catcher"])
    /\ counter["sender"] + Size(pending["sender"])
         <= Least(sent["catcher"], counter["catcher"]) + Ends(pending["sender"])
    /\ Bounded(pending["sender"], counter["catcher"])
    /\ value["sender"] <= counter["catcher"]

(* A sender that waits for catcher to be ready does not kill it.            *)
ReadyInv ==
  start = "ready" /\ ~Confirm =>
    /\ pc["catcher"] # "killed"
    /\ pc["catcher"] = "act_end" => "one" \in registered["catcher"]
    /\ pc["catcher"] \notin {"act_one", "act_end"} => registered["catcher"] = Signal
    /\ sent["sender"] = 0 => Size(pending["catcher"]) = 0
    /\ sent["sender"] > 0 => Past

LosslessInv ==
  mode = "SIGRT" /\ start = "ready" /\ ~Confirm =>
    /\ AtMostOnce(pending["catcher"], "end")
    /\ counter["catcher"] + Size(pending["catcher"])
         = Least(sent["sender"], N) + Ends(pending["catcher"])

ThroughInv ==
  start = "ready" /\ ~Confirm /\ N > 0 /\ sent["sender"] > 0 =>
    counter["catcher"] > 0 \/ Has(pending["catcher"], "one")

SignalsInv ==
  Types /\ Merged /\ Values /\ ConfirmInv /\ FreeInv /\ ReadyInv /\ LosslessInv /\ ThroughInv


-----------------------------------------------------------------------------
LEMMA Others == Other("sender") = "catcher" /\ Other("catcher") = "sender"
BY DEF Other, Process

LEMMA RaiseEffect ==
  ASSUME Types, NEW p \in Process, NEW s \in Signal, NEW v \in Nat, Raise(p, s, v)
  PROVE  \/ /\ pending' = pending
            /\ pc[p] \in {"done", "killed"} \/ (mode # "SIGRT" /\ Has(pending[p], s))
         \/ /\ pc[p] \notin {"done", "killed"}
            /\ mode = "SIGRT" \/ ~Has(pending[p], s)
            /\ \E e \in Item : /\ e.signal = s /\ e.value <= v
                               /\ pending' = [pending EXCEPT ![p] = Append(pending[p], e)]
<1> DEFINE e == [signal |-> s, value |-> IF mode = "SIGQUEUE" THEN v ELSE 0]
<1>1. e \in Item /\ e.signal = s /\ e.value <= v
  BY DEF Item
<1>2. Kept(p, s) <=> mode = "SIGRT" \/ ~Has(pending[p], s)
  <2>1. DOMAIN pending[p] = 1 .. Len(pending[p])
    BY DEF Types
  <2> QED BY <2>1 DEF Kept, Has
<1>3. pending' = IF Kept(p, s) /\ pc[p] \notin {"done", "killed"}
                   THEN [pending EXCEPT ![p] = Append(pending[p], e)] ELSE pending
  BY DEF Raise
<1> HIDE DEF e
<1> QED BY <1>1, <1>2, <1>3

(* What a handler changes, by the position of the signal it handles         *)
Handles(p, i, s) ==
  IF s \notin registered[p]
    THEN /\ pc' = [pc EXCEPT ![p] = "killed"]
         /\ pending' = [pending EXCEPT ![p] = <<>>]
         /\ UNCHANGED <<counter, listen, value>>
    ELSE /\ pending' = [pending EXCEPT ![p] = Without(pending[p], i)]
         /\ pc' = IF pc[p] = "paused"
                    THEN [pc EXCEPT ![p] = IF ~Confirm THEN "test"
                                           ELSE IF p = "catcher" THEN "confirm"
                                           ELSE IF sent[p] > N THEN "done"
                                           ELSE "send"]
                    ELSE pc
         /\ IF Confirm /\ p = "sender" THEN UNCHANGED <<counter, listen, value>>
            ELSE /\ counter' = IF s = "one" THEN [counter EXCEPT ![p] = counter[p] + 1] ELSE counter
                 /\ listen' = IF s = "end" THEN [listen EXCEPT ![p] = FALSE] ELSE listen
                 /\ value' = [value EXCEPT ![p] = pending[p][i].value]

LEMMA HandleEffect ==
  ASSUME Types, NEW p \in Process, Handle(p)
  PROVE  \E i \in 1 .. Len(pending[p]), s \in Signal :
           /\ pending[p][i].signal = s /\ pending[p][i].value \in Nat /\ Has(pending[p], s)
           /\ Handles(p, i, s)
<1>1. PICK s \in Signal : \E i \in Queued(p, s) : Handles(p, i, s)
  BY DEF Handle, Handles, Goto
<1>2. PICK i \in Queued(p, s) : Handles(p, i, s)
  BY <1>1
<1>3. i \in 1 .. Len(pending[p]) /\ pending[p][i].signal = s
  BY DEF Queued, Types
<1>4. pending[p][i].value \in Nat
  <2>1. pending[p] \in Seq(Item)
    BY DEF Types
  <2>2. pending[p][i] \in Item
    BY <1>3, <2>1
  <2> QED BY <2>2 DEF Item
<1> QED BY <1>2, <1>3, <1>4 DEF Has

-----------------------------------------------------------------------------
(* Steps that send and handle nothing                                       *)

Quiet(p) ==
  RegisterOne(p) \/ RegisterEnd(p) \/ ResetCounter(p) \/ StartListening(p) \/ TestListen(p) \/ Pause(p)

(* What they change, for p and for the other process q                      *)
QuietChange(p, q) ==
  /\ UNCHANGED <<pc[q], registered[q], counter[q], listen[q]>>
  /\ \/ /\ pc[p] = "act_one" /\ pc'[p] = "act_end"
        /\ registered'[p] = registered[p] \cup {"one"} /\ UNCHANGED <<counter[p], listen[p]>>
     \/ /\ pc[p] = "act_end" /\ pc'[p] = "zero"
        /\ registered'[p] = registered[p] \cup {"end"} /\ UNCHANGED <<counter[p], listen[p]>>
     \/ /\ pc[p] = "zero" /\ pc'[p] = "listen"
        /\ counter'[p] = 0 /\ UNCHANGED <<registered[p], listen[p]>>
     \/ /\ pc[p] = "listen" /\ pc'[p] = "test"
        /\ listen'[p] = TRUE /\ UNCHANGED <<registered[p], counter[p]>>
     \/ /\ pc[p] = "test" /\ pc'[p] = IF listen[p] THEN "enter"
                                     ELSE IF p = "catcher" /\ ~Confirm THEN "send" ELSE "done"
        /\ UNCHANGED <<registered[p], counter[p], listen[p]>>
     \/ /\ pc[p] = "enter" /\ pc'[p] = "paused"
        /\ UNCHANGED <<registered[p], counter[p], listen[p]>>

LEMMA QuietEffect ==
  ASSUME Types, NEW p \in Process, Quiet(p)
  PROVE  /\ UNCHANGED <<mode, build, start, sent, pending, value>>
         /\ pending[p] = <<>>
         /\ \A q \in Process : q # p => QuietChange(p, q)
<1> USE DEF Quiet, RegisterOne, RegisterEnd, Register, ResetCounter, StartListening, TestListen, Pause,
            At, Goto, config, Types
<1>1. UNCHANGED <<mode, build, start, sent, pending, value>> /\ pending[p] = <<>>
  OBVIOUS
<1>2. ASSUME NEW q \in Process, q # p PROVE QuietChange(p, q)
  <2> HIDE DEF Confirm
  <2>1. CASE RegisterOne(p)
    BY <1>2, <2>1 DEF QuietChange
  <2>2. CASE RegisterEnd(p)
    BY <1>2, <2>2 DEF QuietChange
  <2>3. CASE ResetCounter(p)
    BY <1>2, <2>3 DEF QuietChange
  <2>4. CASE StartListening(p)
    BY <1>2, <2>4 DEF QuietChange
  <2>5. CASE TestListen(p)
    BY <1>2, <2>5 DEF QuietChange
  <2>6. CASE Pause(p)
    BY <1>2, <2>6 DEF QuietChange
  <2> QED BY <2>1, <2>2, <2>3, <2>4, <2>5, <2>6
<1> QED BY <1>1, <1>2

LEMMA Lengths ==
  ASSUME Types
  PROVE  /\ Size(pending["sender"]) \in Nat /\ Size(pending["catcher"]) \in Nat
         /\ sent["sender"] \in Nat /\ sent["catcher"] \in Nat
         /\ counter["sender"] \in Nat /\ counter["catcher"] \in Nat
         /\ value["sender"] \in Nat /\ value["catcher"] \in Nat
         /\ listen["sender"] \in BOOLEAN /\ listen["catcher"] \in BOOLEAN
         /\ N \in Nat
BY ArgumentsAssumption DEF Types, Process, Size

LEMMA NothingPending ==
  ASSUME NEW q, Size(q) = 0
  PROVE  /\ ~Has(q, "one") /\ ~Has(q, "end") /\ Ends(q) = 0
         /\ AtMostOnce(q, "one") /\ AtMostOnce(q, "end") /\ \A b : Bounded(q, b)
BY DEF Has, AtMostOnce, Bounded, Ends, Size

LEMMA QuietInv ==
  ASSUME SignalsInv, NEW p \in Process, Quiet(p) PROVE SignalsInv'
<1> USE DEF SignalsInv
<1>0. /\ UNCHANGED <<mode, build, start, sent, pending, value>>
      /\ pending[p] = <<>> /\ Size(pending[p]) = 0
      /\ ~Has(pending[p], "one") /\ ~Has(pending[p], "end")
  BY QuietEffect, EmptyQueue
<1>1. Types'
  <2> USE DEF At, Goto, config, Types, PC, Signal
  <2>1. CASE RegisterOne(p)
    BY <2>1 DEF RegisterOne, Register
  <2>2. CASE RegisterEnd(p)
    BY <2>2 DEF RegisterEnd, Register
  <2>3. CASE ResetCounter(p)
    BY <2>3 DEF ResetCounter
  <2>4. CASE StartListening(p)
    BY <2>4 DEF StartListening
  <2>5. CASE TestListen(p)
    BY <2>5 DEF TestListen
  <2>6. CASE Pause(p)
    BY <2>6 DEF Pause
  <2> QED BY <2>1, <2>2, <2>3, <2>4, <2>5, <2>6 DEF Quiet
<1>2. Merged' /\ Values'
  BY <1>0 DEF Merged, Values
<1>3. CASE p = "catcher"
  <2>1. QuietChange("catcher", "sender")
    BY <1>3, QuietEffect DEF Process
  <2> USE <1>0, <1>3, <2>1, Lengths DEF QuietChange, Confirm
  <2>2. ConfirmInv'
    <3> SUFFICES ASSUME Confirm PROVE ConfirmInv'
      BY DEF ConfirmInv
    <3>1. (Past => Past') /\ InFlight' = InFlight /\ pc'["catcher"] \notin {"register", "send", "confirm"}
      BY DEF ConfirmInv, InFlight, Past
    <3>2. counter'["catcher"] = counter["catcher"] \/ (~Past /\ counter'["catcher"] = 0)
      BY DEF Past
    <3> HIDE DEF InFlight, Past
    <3> QED BY <3>1, <3>2 DEF ConfirmInv, Least
  <2>3. FreeInv'
    <3>1. Size(pending["sender"]) = 0 =>
            Bounded(pending["sender"], 0) /\ ~Has(pending["sender"], "end")
      BY NothingPending
    <3> SUFFICES ASSUME ~Confirm PROVE FreeInv'
      BY DEF FreeInv
    <3> USE DEF FreeInv, Ends, Least
    <3>2. CASE pc["catcher"] = "zero"
      <4>1. /\ Size(pending["sender"]) = 0 /\ value["sender"] = 0 /\ counter["sender"] = 0
            /\ sent["catcher"] = 0 /\ counter'["catcher"] = 0 /\ counter'["sender"] = 0
            /\ pc'["catcher"] = "listen"
        BY <3>2
      <4>2. Bounded(pending["sender"], counter["catcher"])'
        BY <3>1, <4>1
      <4> QED BY <3>1, <3>2, <4>1, <4>2
    <3>3. CASE pc["catcher"] = "test"
      BY <3>1, <3>3
    <3>4. CASE pc["catcher"] \notin {"zero", "test"}
      BY <3>1, <3>4
    <3> QED BY <3>2, <3>3, <3>4
  <2>4. ReadyInv'
    BY DEF ReadyInv, Past, Signal, Types, Process
  <2>5. LosslessInv'
    BY DEF LosslessInv, ReadyInv, Past, Least, Ends
  <2>6. ThroughInv'
    BY DEF ThroughInv, ReadyInv, Past
  <2> QED BY <1>1, <1>2, <2>2, <2>3, <2>4, <2>5, <2>6
<1>4. CASE p = "sender"
  <2>1. QuietChange("sender", "catcher")
    BY <1>4, QuietEffect DEF Process
  <2> USE <1>0, <1>4, <2>1, Lengths DEF QuietChange, Confirm
  <2>2. ConfirmInv'
    BY DEF ConfirmInv, InFlight, Past, Least
  <2>3. FreeInv'
    BY DEF FreeInv, Ends, Least
  <2>4. ReadyInv'
    BY DEF ReadyInv, Past
  <2>5. LosslessInv'
    BY DEF LosslessInv, Least, Ends
  <2>6. ThroughInv'
    BY DEF ThroughInv
  <2> QED BY <1>1, <1>2, <2>2, <2>3, <2>4, <2>5, <2>6
<1> QED BY <1>3, <1>4 DEF Process

-----------------------------------------------------------------------------
(* Sending                                                                 *)

LEMMA RaiseChange ==
  ASSUME Types, NEW p \in Process, NEW s \in Signal, NEW v \in Nat, Raise(p, s, v)
  PROVE  /\ pending' \in [Process -> Seq(Item)]
         /\ \A q \in Process : q # p => pending'[q] = pending[q]
         /\ mode # "SIGRT" =>
              \A x : AtMostOnce(pending[p], x) => AtMostOnce(pending'[p], x)
         /\ \A b \in Nat : Bounded(pending[p], b) /\ v <= b => Bounded(pending'[p], b)
         /\ \/ /\ pending'[p] = pending[p]
               /\ pc[p] \in {"done", "killed"} \/ (mode # "SIGRT" /\ Has(pending[p], s))
            \/ /\ pc[p] \notin {"done", "killed"}
               /\ Size(pending'[p]) = Size(pending[p]) + 1
               /\ \A x : Has(pending'[p], x) <=> Has(pending[p], x) \/ s = x
               /\ \A x : AtMostOnce(pending[p], x) /\ (s = x => ~Has(pending[p], x)) =>
                           AtMostOnce(pending'[p], x)
<1>1. CASE /\ pending' = pending
           /\ pc[p] \in {"done", "killed"} \/ (mode # "SIGRT" /\ Has(pending[p], s))
  BY <1>1 DEF Types
<1>2. CASE /\ pc[p] \notin {"done", "killed"}
           /\ mode = "SIGRT" \/ ~Has(pending[p], s)
           /\ \E e \in Item : /\ e.signal = s /\ e.value <= v
                              /\ pending' = [pending EXCEPT ![p] = Append(pending[p], e)]
  <2>1. PICK e \in Item : /\ e.signal = s /\ e.value <= v
                          /\ pending' = [pending EXCEPT ![p] = Append(pending[p], e)]
    BY <1>2
  <2>2. pending[p] \in Seq(Item) /\ pending \in [Process -> Seq(Item)] /\ e.value \in Nat
    BY DEF Types, Item
  <2> DEFINE r == Append(pending[p], e)
  <2>3. /\ r \in Seq(Item) /\ Size(r) = Size(pending[p]) + 1
        /\ \A x : Has(r, x) <=> Has(pending[p], x) \/ e.signal = x
        /\ \A x : AtMostOnce(pending[p], x) /\ (e.signal = x => ~Has(pending[p], x)) => AtMostOnce(r, x)
        /\ \A b \in Nat : Bounded(pending[p], b) /\ e.value <= b => Bounded(r, b)
    BY <2>2, AppendQueue
  <2>4. \A b \in Nat : Bounded(pending[p], b) /\ v <= b => Bounded(r, b)
    BY <2>1, <2>2, <2>3
  <2>5. pending'[p] = r /\ pending' \in [Process -> Seq(Item)]
        /\ \A q \in Process : q # p => pending'[q] = pending[q]
    BY <2>1, <2>2, <2>3
  <2> HIDE DEF r
  <2> QED BY <1>2, <2>1, <2>3, <2>4, <2>5
<1> QED BY <1>1, <1>2, RaiseEffect

LEMMA HasSomething ==
  ASSUME NEW q \in Seq(Item), NEW s, Has(q, s) PROVE Size(q) \in Nat /\ Size(q) > 0
BY DEF Has, Size

LEMMA CounterBound == SignalsInv => counter["catcher"] <= N
<1> SUFFICES ASSUME SignalsInv PROVE counter["catcher"] <= N
  OBVIOUS
<1>1. CASE Confirm
  BY <1>1 DEF SignalsInv, ConfirmInv
<1>2. CASE ~Confirm
  <2>1. Has(pending["catcher"], "end") => Size(pending["catcher"]) > 0
    BY HasSomething DEF SignalsInv, Types, Process
  <2> QED BY <1>2, <2>1, Lengths DEF SignalsInv, FreeInv, Ends, Least
<1> QED BY <1>1, <1>2

(* The next signal of a sequence, or its end                                *)
LEMMA SendEffect ==
  ASSUME SignalsInv, NEW p \in Process, SendOne(p) \/ SendEnd(p)
  PROVE  \E s \in Signal :
           /\ s = "one" => sent[p] < Total(p)
           /\ s = "end" => sent[p] = Total(p)
           /\ pc[p] = "send" /\ pending[p] = <<>> /\ Ready
           /\ \E v \in Nat : v <= Total(p) /\ Raise(Other(p), s, v)
           /\ sent' = [sent EXCEPT ![p] = sent[p] + 1]
           /\ pc' = [pc EXCEPT ![p] = IF Confirm THEN "enter"
                                      ELSE IF s = "one" THEN "send"
                                      ELSE IF p = "sender" THEN "act_one" ELSE "done"]
           /\ UNCHANGED <<mode, build, start, registered, counter, listen, value>>
<1>1. sent[p] \in Nat /\ Total(p) \in Nat
  BY ArgumentsAssumption DEF SignalsInv, Types, Total
<1>2. CASE SendOne(p)
  <2> USE DEF Signal
  <2> WITNESS "one" \in Signal
  <2>1. \E v \in Nat : v <= Total(p) /\ Raise(Other(p), "one", v)
    BY <1>1, <1>2 DEF SendOne
  <2> QED BY <1>2, <2>1 DEF SendOne, At, Goto, config
<1>3. CASE SendEnd(p)
  <2> USE DEF Signal
  <2> WITNESS "end" \in Signal
  <2>1. \E v \in Nat : v <= Total(p) /\ Raise(Other(p), "end", v)
    BY <1>1, <1>3 DEF SendEnd
  <2> QED BY <1>3, <2>1 DEF SendEnd, SentAll, At, Goto, config
<1> QED BY <1>2, <1>3

LEMMA NoneInFlight ==
  ASSUME Types
  PROVE  InFlight = 0 <=>
           (Size(pending["sender"]) = 0 /\ Size(pending["catcher"]) = 0 /\ pc["catcher"] # "confirm")
<1>1. CASE pc["catcher"] = "confirm"
  <2>1. InFlight = Size(pending["sender"]) + Size(pending["catcher"]) + 1
    BY <1>1 DEF InFlight
  <2> QED BY <1>1, <2>1, Lengths
<1>2. CASE pc["catcher"] # "confirm"
  <2>1. InFlight = Size(pending["sender"]) + Size(pending["catcher"]) + 0
    BY <1>2 DEF InFlight
  <2> QED BY <1>2, <2>1, Lengths
<1> QED BY <1>1, <1>2

(* Numbers that SMT is told to be numbers                                   *)
LEMMA EndsType == \A q : /\ Ends(q) \in {0, 1}
                         /\ Has(q, "end") => Ends(q) = 1
                         /\ ~Has(q, "end") => Ends(q) = 0
BY DEF Ends

LEMMA LeastType == \A a, b \in Nat : /\ Least(a, b) \in Nat
                                     /\ a <= b => Least(a, b) = a
                                     /\ a >= b => Least(a, b) = b
BY DEF Least

LEMMA SendInv ==
  ASSUME SignalsInv, NEW p \in Process, SendOne(p) \/ SendEnd(p) PROVE SignalsInv'
<1> USE DEF SignalsInv
<1> DEFINE o == Other(p)
<1>1. PICK s \in Signal :
        /\ s = "one" => sent[p] < Total(p)
        /\ s = "end" => sent[p] = Total(p)
        /\ pc[p] = "send" /\ pending[p] = <<>> /\ Ready
        /\ \E v \in Nat : v <= Total(p) /\ Raise(o, s, v)
        /\ sent' = [sent EXCEPT ![p] = sent[p] + 1]
        /\ pc' = [pc EXCEPT ![p] = IF Confirm THEN "enter"
                                   ELSE IF s = "one" THEN "send"
                                   ELSE IF p = "sender" THEN "act_one" ELSE "done"]
        /\ UNCHANGED <<mode, build, start, registered, counter, listen, value>>
  BY SendEffect
<1>2. PICK v \in Nat : v <= Total(p) /\ Raise(o, s, v)
  BY <1>1
<1>3. o \in Process /\ o # p /\ (p = "sender" => o = "catcher") /\ (p = "catcher" => o = "sender")
      /\ p \in {"sender", "catcher"} /\ s \in {"one", "end"}
  BY Others DEF Process, Signal
<1> HIDE DEF o
<1>4. /\ pending' \in [Process -> Seq(Item)]
      /\ pending'[p] = pending[p]
      /\ mode # "SIGRT" => \A x : AtMostOnce(pending[o], x) => AtMostOnce(pending'[o], x)
      /\ \A b \in Nat : Bounded(pending[o], b) /\ v <= b => Bounded(pending'[o], b)
      /\ \/ /\ pending'[o] = pending[o]
            /\ pc[o] \in {"done", "killed"} \/ (mode # "SIGRT" /\ Has(pending[o], s))
         \/ /\ pc[o] \notin {"done", "killed"}
            /\ Size(pending'[o]) = Size(pending[o]) + 1
            /\ \A x : Has(pending'[o], x) <=> Has(pending[o], x) \/ s = x
            /\ \A x : AtMostOnce(pending[o], x) /\ (s = x => ~Has(pending[o], x)) =>
                        AtMostOnce(pending'[o], x)
  BY <1>2, <1>3, RaiseChange
<1>5. Size(pending[p]) = 0 /\ ~Has(pending[p], "one") /\ ~Has(pending[p], "end")
  BY <1>1, EmptyQueue
<1>6. Types'
  <2>1. pc' \in [Process -> PC]
    BY <1>1 DEF Types, PC
  <2> QED BY <1>1, <1>4, <2>1 DEF Types
<1>7. Merged'
  BY <1>1, <1>3, <1>4 DEF Merged, Process
<1>8. Total(p) \in Nat /\ Total(p) <= N
  BY CounterBound, Lengths DEF Total, Types, Process
<1>9. Values'
  <2>1. Bounded(pending'[o], N) /\ Bounded(pending'[p], N)
    BY <1>2, <1>3, <1>4, <1>8, Lengths DEF Values, Process
  <2> QED BY <1>1, <1>3, <2>1 DEF Values, Process
<1>10. /\ Confirm' = Confirm /\ pc'[o] = pc[o] /\ sent'[o] = sent[o] /\ sent'[p] = sent[p] + 1
       /\ pc'[p] = IF Confirm THEN "enter" ELSE IF s = "one" THEN "send"
                   ELSE IF p = "sender" THEN "act_one" ELSE "done"
       /\ UNCHANGED <<mode, build, start, registered, counter, listen, value>>
  BY <1>1, <1>3 DEF Types, Confirm
<1>13. Size(pending[o]) = 0 => ~Has(pending[o], "one") /\ ~Has(pending[o], "end")
  BY NothingPending
<1>14. \/ /\ pending'[o] = pending[o]
          /\ pc[o] \in {"done", "killed"} \/ (mode # "SIGRT" /\ Has(pending[o], s))
       \/ /\ pc[o] \notin {"done", "killed"}
          /\ Size(pending'[o]) = Size(pending[o]) + 1
          /\ Has(pending'[o], "one") <=> Has(pending[o], "one") \/ s = "one"
          /\ Has(pending'[o], "end") <=> Has(pending[o], "end") \/ s = "end"
          /\ AtMostOnce(pending[o], "end") /\ (s = "end" => ~Has(pending[o], "end")) =>
               AtMostOnce(pending'[o], "end")
  BY <1>4
<1>15. pending'[p] = pending[p]
  BY <1>4
<1>11. CASE p = "sender"
  <2>1. /\ o = "catcher" /\ pc["sender"] = "send" /\ (s = "one" => sent["sender"] < N)
        /\ (s = "end" => sent["sender"] = N)
        /\ pc'["catcher"] = pc["catcher"] /\ sent'["catcher"] = sent["catcher"]
        /\ sent'["sender"] = sent["sender"] + 1 /\ pending'["sender"] = pending["sender"]
        /\ pc'["sender"] = IF Confirm THEN "enter" ELSE IF s = "one" THEN "send" ELSE "act_one"
        /\ UNCHANGED <<mode, build, start, registered, counter, listen, value>>
    BY <1>1, <1>3, <1>10, <1>11, <1>15 DEF Total
  <2>2. start = "ready" => Past
    BY <1>1, ArgumentsAssumption DEF Ready, Past, Types
  <2>3. \/ /\ pending'["catcher"] = pending["catcher"]
           /\ pc["catcher"] \in {"done", "killed"} \/ (mode # "SIGRT" /\ Has(pending["catcher"], s))
        \/ /\ pc["catcher"] \notin {"done", "killed"}
           /\ Size(pending'["catcher"]) = Size(pending["catcher"]) + 1
           /\ Has(pending'["catcher"], "one") <=> Has(pending["catcher"], "one") \/ s = "one"
           /\ Has(pending'["catcher"], "end") <=> Has(pending["catcher"], "end") \/ s = "end"
           /\ AtMostOnce(pending["catcher"], "end") /\ (s = "end" => ~Has(pending["catcher"], "end")) =>
                AtMostOnce(pending'["catcher"], "end")
    BY <1>14, <2>1
  <2>4. ASSUME Confirm PROVE ConfirmInv'
    <3>1. /\ InFlight = 0 /\ counter["catcher"] = sent["sender"]
          /\ registered["sender"] = Signal /\ pc["catcher"] \notin {"register", "send"}
          /\ sent["catcher"] = 0 /\ counter["catcher"] <= N
          /\ counter["sender"] = 0 /\ value["sender"] = 0
      BY <2>1, <2>4 DEF ConfirmInv
    <3>2. /\ Size(pending["sender"]) = 0 /\ Size(pending["catcher"]) = 0 /\ pc["catcher"] # "confirm"
          /\ ~Has(pending["catcher"], "one") /\ ~Has(pending["catcher"], "end")
      BY <3>1, NoneInFlight, NothingPending
    <3>3. InFlight' = 0 \/ InFlight' = 1
      BY <2>1, <2>3, <3>2 DEF InFlight
    <3>4. Size(pending'["catcher"]) > 0 =>
            ~Has(pending'["catcher"], IF sent'["sender"] <= N THEN "end" ELSE "one")
      BY <1>3, <2>1, <2>3, <3>2, Lengths
    <3>5. sent'["sender"] <= N + 1
      BY <1>3, <2>1, Lengths
    <3>6. InFlight' <= 1
      BY <3>3
    <3> HIDE DEF InFlight
    <3> QED BY <2>1, <2>4, <3>1, <3>2, <3>4, <3>5, <3>6, Lengths DEF ConfirmInv, Confirm
  <2>5. ASSUME ~Confirm PROVE FreeInv'
    <3>1. /\ sent["sender"] <= N /\ ~Has(pending["catcher"], "end")
          /\ pc["catcher"] \notin {"send", "done"} /\ Ends(pending["catcher"]) = 0
      BY <1>3, <2>1, <2>5, Lengths DEF FreeInv, Ends
    <3>2. counter["catcher"] + Size(pending["catcher"]) <= sent["sender"]
      <4>1. Least(sent["sender"], N) = sent["sender"]
        BY <3>1, Lengths, LeastType
      <4> QED BY <2>5, <3>1, <4>1, Lengths DEF FreeInv
    <3>3. counter'["catcher"] + Size(pending'["catcher"])
            <= Least(sent'["sender"], N) + Ends(pending'["catcher"])
      <4>1. CASE pending'["catcher"] = pending["catcher"]
        BY <2>1, <3>1, <3>2, <4>1, Lengths DEF Least
      <4>2. CASE pending'["catcher"] # pending["catcher"] /\ s = "one"
        <5>1. Ends(pending'["catcher"]) = 0
          BY <2>3, <3>1, <4>2, EndsType
        <5> QED BY <2>1, <2>3, <3>2, <4>2, <5>1, Lengths DEF Least
      <4>3. CASE pending'["catcher"] # pending["catcher"] /\ s = "end"
        <5>1. Ends(pending'["catcher"]) = 1
          BY <2>3, <4>3, EndsType
        <5> QED BY <2>1, <2>3, <3>2, <4>3, <5>1, Lengths DEF Least
      <4> QED BY <1>3, <4>1, <4>2, <4>3
    <3>4. Has(pending'["catcher"], "end") => sent'["sender"] = N + 1
      BY <1>3, <2>1, <2>3, <3>1
    <3>5. sent'["sender"] <= N + 1
      BY <1>3, <2>1, Lengths
    <3>6. pc["catcher"] \in {"test", "enter", "paused"} => listen["catcher"]
      BY <2>5, <3>1, Lengths DEF FreeInv
    <3> QED BY <2>1, <2>5, <3>1, <3>3, <3>4, <3>5, <3>6 DEF FreeInv, Confirm
  <2>6. ReadyInv'
    BY <2>1, <2>2, Lengths DEF ReadyInv, Past, Confirm
  <2>7. ASSUME mode = "SIGRT", start = "ready", ~Confirm PROVE LosslessInv'
    <3>1. /\ sent["sender"] <= N /\ ~Has(pending["catcher"], "end")
          /\ pc["catcher"] \notin {"done", "killed"} /\ Ends(pending["catcher"]) = 0
      BY <1>3, <2>1, <2>7, Lengths DEF FreeInv, ReadyInv, Ends
    <3>2. counter["catcher"] + Size(pending["catcher"]) = sent["sender"]
      <4>1. Least(sent["sender"], N) = sent["sender"]
        BY <3>1, Lengths, LeastType
      <4> QED BY <2>7, <3>1, <4>1, Lengths DEF LosslessInv
    <3>3. /\ Size(pending'["catcher"]) = Size(pending["catcher"]) + 1
          /\ s = "one" => Ends(pending'["catcher"]) = 0
          /\ s = "end" => Ends(pending'["catcher"]) = 1
          /\ AtMostOnce(pending'["catcher"], "end")
      BY <2>3, <2>7, <3>1 DEF Ends, LosslessInv
    <3>4. counter'["catcher"] + Size(pending'["catcher"])
            = Least(sent'["sender"], N) + Ends(pending'["catcher"])
      BY <1>3, <2>1, <3>1, <3>2, <3>3, Lengths DEF Least
    <3> QED BY <3>3, <3>4 DEF LosslessInv
  <2>8. ThroughInv'
    <3> SUFFICES ASSUME start = "ready", ~Confirm, N > 0 PROVE ThroughInv'
      BY <2>1 DEF ThroughInv, Confirm
    <3>1. pc["catcher"] \notin {"done", "killed"}
      BY <1>3, <2>1, Lengths DEF FreeInv, ReadyInv
    <3>2. s = "one" => Has(pending'["catcher"], "one")
      BY <2>3, <3>1
    <3>3. s = "end" => sent["sender"] > 0 /\ (Has(pending["catcher"], "one") => Has(pending'["catcher"], "one"))
      BY <2>1, <2>3
    <3> QED BY <1>3, <2>1, <3>2, <3>3 DEF ThroughInv
  <2>9. ConfirmInv' /\ FreeInv' /\ LosslessInv'
    BY <2>1, <2>4, <2>5, <2>7 DEF ConfirmInv, FreeInv, LosslessInv, Confirm
  <2> QED BY <1>6, <1>7, <1>9, <2>6, <2>8, <2>9
<1>12. CASE p = "catcher"
  <2>1. /\ o = "sender" /\ pc["catcher"] = "send"
        /\ (s = "one" => sent["catcher"] < counter["catcher"])
        /\ (s = "end" => sent["catcher"] = counter["catcher"])
        /\ pc'["sender"] = pc["sender"] /\ sent'["sender"] = sent["sender"]
        /\ sent'["catcher"] = sent["catcher"] + 1 /\ pending'["catcher"] = pending["catcher"]
        /\ UNCHANGED <<mode, build, start, registered, counter, listen, value>>
    BY <1>1, <1>3, <1>10, <1>12, <1>15 DEF Total
  <2>2. ~Confirm /\ ~Confirm'
    BY <2>1 DEF ConfirmInv, Confirm
  <2>3. pc'["catcher"] \in {"send", "done"}
    BY <1>3, <1>10, <1>12, <2>2
  <2>4. \/ pending'["sender"] = pending["sender"]
        \/ /\ Size(pending'["sender"]) = Size(pending["sender"]) + 1
           /\ Has(pending'["sender"], "end") <=> Has(pending["sender"], "end") \/ s = "end"
    BY <1>14, <2>1
  <2>5. FreeInv'
    <3>1. /\ sent["catcher"] <= counter["catcher"] /\ ~Has(pending["sender"], "end")
          /\ Ends(pending["sender"]) = 0
      BY <1>3, <2>1, <2>2, Lengths DEF FreeInv, Ends
    <3>2. counter["sender"] + Size(pending["sender"]) <= sent["catcher"]
      <4>1. Least(sent["catcher"], counter["catcher"]) = sent["catcher"]
        BY <3>1, Lengths, LeastType
      <4> QED BY <2>2, <3>1, <4>1, Lengths DEF FreeInv
    <3>3. counter'["sender"] + Size(pending'["sender"])
            <= Least(sent'["catcher"], counter'["catcher"]) + Ends(pending'["sender"])
      <4>1. CASE pending'["sender"] = pending["sender"]
        BY <2>1, <3>1, <3>2, <4>1, Lengths DEF Least
      <4>2. CASE pending'["sender"] # pending["sender"] /\ s = "one"
        <5>1. Ends(pending'["sender"]) = 0
          BY <2>4, <3>1, <4>2, EndsType
        <5> QED BY <2>1, <2>4, <3>2, <4>2, <5>1, Lengths DEF Least
      <4>3. CASE pending'["sender"] # pending["sender"] /\ s = "end"
        <5>1. Ends(pending'["sender"]) = 1
          BY <2>4, <4>3, EndsType
        <5> QED BY <2>1, <2>4, <3>2, <4>3, <5>1, Lengths DEF Least
      <4> QED BY <1>3, <4>1, <4>2, <4>3
    <3>4. Has(pending'["sender"], "end") => sent'["catcher"] = counter'["catcher"] + 1
      BY <1>3, <2>1, <2>4, <3>1
    <3>5. Bounded(pending'["sender"], counter'["catcher"])
      BY <1>2, <1>4, <1>12, <2>1, <2>2, Lengths DEF FreeInv, Total
    <3>6. sent'["catcher"] <= counter'["catcher"] + 1
      BY <2>1, <3>1, Lengths
    <3> QED BY <2>1, <2>2, <2>3, <3>3, <3>4, <3>5, <3>6 DEF FreeInv
  <2>6. ReadyInv'
    BY <2>1, <2>2, <2>3 DEF ReadyInv, Past
  <2>7. LosslessInv'
    BY <2>1, <2>2 DEF LosslessInv
  <2>8. ThroughInv'
    BY <2>1, <2>2 DEF ThroughInv
  <2>9. ConfirmInv'
    BY <2>2 DEF ConfirmInv
  <2> QED BY <1>6, <1>7, <1>9, <2>5, <2>6, <2>7, <2>8, <2>9
<1> QED BY <1>3, <1>11, <1>12

-----------------------------------------------------------------------------
(* Handling                                                                *)

LEMMA HandleInv ==
  ASSUME SignalsInv, NEW p \in Process, Handle(p) PROVE SignalsInv'
<1> USE DEF SignalsInv
<1>1. PICK i \in 1 .. Len(pending[p]), s \in Signal :
        /\ pending[p][i].signal = s /\ pending[p][i].value \in Nat /\ Has(pending[p], s)
        /\ Handles(p, i, s)
  BY HandleEffect
<1>2. UNCHANGED <<mode, build, start, sent, registered>> /\ (Confirm' <=> Confirm)
  BY DEF Handle, config, Confirm
<1>3. p \in {"sender", "catcher"} /\ s \in {"one", "end"} /\ pending[p] \in Seq(Item)
      /\ Size(pending[p]) \in Nat /\ Size(pending[p]) > 0
  BY <1>1, HasSomething DEF Process, Signal, Types
<1> DEFINE r == Without(pending[p], i)
           v == pending[p][i].value
<1>4. /\ r \in Seq(Item) /\ Size(r) = Size(pending[p]) - 1
      /\ \A x : Has(r, x) => Has(pending[p], x)
      /\ \A x : Has(pending[p], x) /\ s # x => Has(r, x)
      /\ \A x : AtMostOnce(pending[p], x) => AtMostOnce(r, x)
      /\ \A x : AtMostOnce(pending[p], x) /\ s = x => ~Has(r, x)
      /\ \A b \in Nat : Bounded(pending[p], b) => Bounded(r, b)
  BY <1>1, <1>3, WithoutQueue
<1>5. v \in Nat /\ \A b \in Nat : Bounded(pending[p], b) => v <= b
  BY <1>1 DEF Bounded
<1>6. /\ (s = "one" /\ (Has(pending[p], "end") <=> Has(r, "end")))
         \/ (s = "end" /\ (Has(pending[p], "one") <=> Has(r, "one")))
      /\ Has(r, "end") => Has(pending[p], "end")
      /\ Has(pending[p], s)
  BY <1>1, <1>3, <1>4
<1> HIDE DEF r, v
<1>7. CASE s \notin registered[p]
  <2>1. /\ pc' = [pc EXCEPT ![p] = "killed"] /\ pending' = [pending EXCEPT ![p] = <<>>]
        /\ UNCHANGED <<counter, listen, value>>
    BY <1>1, <1>7 DEF Handles
  <2>2. Size(<<>>) = 0 /\ Ends(<<>>) = 0 /\ ~Has(<<>>, "one") /\ ~Has(<<>>, "end")
        /\ \A b : Bounded(<<>>, b) /\ AtMostOnce(<<>>, b)
    BY EmptyQueue DEF Ends
  <2>3. Types' /\ Merged' /\ Values'
    <3>1. Types'
      BY <1>2, <2>1, EmptyQueue DEF Types, PC
    <3>2. Merged'
      BY <1>2, <2>1, <2>2 DEF Merged, Types
    <3>3. Values'
      BY <1>2, <2>1, <2>2 DEF Values, Types
    <3> QED BY <3>1, <3>2, <3>3
  <2>4. CASE p = "catcher"
    <3>1. /\ pc'["catcher"] = "killed" /\ pc'["sender"] = pc["sender"]
          /\ pending'["catcher"] = <<>> /\ pending'["sender"] = pending["sender"]
      BY <2>1, <2>4 DEF Types, Process
    <3>2. ASSUME Confirm PROVE ConfirmInv'
      <4>1. Size(pending["sender"]) = 0 /\ pc["catcher"] # "confirm"
            /\ pc["sender"] \in {"enter", "paused"}
        <5>1. Size(pending["catcher"]) > 0 /\ Size(pending["sender"]) \in Nat
          BY <1>3, <2>4, Lengths
        <5>2. InFlight <= 1 /\ InFlight # 0
          BY <3>2, <5>1, NoneInFlight DEF ConfirmInv
        <5> QED BY <3>2, <5>1, <5>2, NoneInFlight, Lengths DEF ConfirmInv, InFlight
      <4>2. InFlight' = 0
        BY <2>2, <3>1, <4>1 DEF InFlight
      <4> HIDE DEF InFlight
      <4> QED BY <1>2, <2>1, <2>2, <3>1, <3>2, <4>1, <4>2, Lengths DEF ConfirmInv
    <3>3. ASSUME ~Confirm PROVE FreeInv'
      <4>1. pc["catcher"] \notin {"send", "done"}
        BY <1>3, <2>4, <3>3 DEF FreeInv
      <4>2. counter["catcher"] <= Least(sent["sender"], N)
        <5>1. counter["catcher"] + Size(pending["catcher"])
                <= Least(sent["sender"], N) + Ends(pending["catcher"])
          BY <3>3 DEF FreeInv
        <5>2. /\ Size(pending["catcher"]) \in Nat /\ Size(pending["catcher"]) > 0
              /\ counter["catcher"] \in Nat /\ Least(sent["sender"], N) \in Nat
              /\ Ends(pending["catcher"]) \in {0, 1}
          BY <1>3, <2>4, EndsType, LeastType, Lengths
        <5> QED BY <5>1, <5>2
      <4>3. Least(sent["sender"], N) \in Nat
        BY Lengths, LeastType
      <4> QED BY <1>2, <2>1, <2>2, <3>1, <3>3, <4>1, <4>2, <4>3, Lengths DEF FreeInv
    <3>4. ~(start = "ready" /\ ~Confirm)
      <4> SUFFICES ASSUME start = "ready", ~Confirm PROVE FALSE
        OBVIOUS
      <4>1. Size(pending["catcher"]) > 0 /\ sent["sender"] \in Nat
        BY <1>3, <2>4, Lengths
      <4>2. sent["sender"] # 0
        BY <4>1 DEF ReadyInv
      <4>3. Past
        BY <4>1, <4>2 DEF ReadyInv
      <4>4. registered["catcher"] = Signal
        BY <4>3 DEF ReadyInv, Past
      <4> QED BY <1>7, <2>4, <4>4
    <3> QED BY <1>2, <2>3, <3>2, <3>3, <3>4 DEF ConfirmInv, FreeInv, ReadyInv, LosslessInv, ThroughInv
  <2>5. CASE p = "sender"
    <3>1. /\ pc'["sender"] = "killed" /\ pc'["catcher"] = pc["catcher"]
          /\ pending'["sender"] = <<>> /\ pending'["catcher"] = pending["catcher"]
      BY <2>1, <2>5 DEF Types, Process
    <3>2. ~Confirm
      BY <1>3, <1>7, <2>5, NoneInFlight DEF ConfirmInv, Signal
    <3>3. FreeInv'
      <4>1. counter["sender"] <= Least(sent["catcher"], counter["catcher"])
        <5>1. counter["sender"] + Size(pending["sender"])
                <= Least(sent["catcher"], counter["catcher"]) + Ends(pending["sender"])
          BY <3>2 DEF FreeInv
        <5>2. /\ Size(pending["sender"]) \in Nat /\ Size(pending["sender"]) > 0
              /\ counter["sender"] \in Nat /\ Least(sent["catcher"], counter["catcher"]) \in Nat
              /\ Ends(pending["sender"]) \in {0, 1}
          BY <1>3, <2>5, EndsType, LeastType, Lengths
        <5> QED BY <5>1, <5>2
      <4>2. Least(sent["catcher"], counter["catcher"]) \in Nat
        BY Lengths, LeastType
      <4> QED BY <1>2, <2>1, <2>2, <3>1, <3>2, <4>1, <4>2, Lengths, SMTT(30) DEF FreeInv
    <3>4. ReadyInv' /\ LosslessInv' /\ ThroughInv'
      BY <1>2, <2>1, <3>1 DEF ReadyInv, LosslessInv, ThroughInv, Past
    <3> QED BY <1>2, <2>3, <3>2, <3>3, <3>4 DEF ConfirmInv
  <2> QED BY <1>3, <2>4, <2>5
<1>8. CASE s \in registered[p]
  <2>1. /\ pending' = [pending EXCEPT ![p] = r]
        /\ pc' = IF pc[p] = "paused"
                   THEN [pc EXCEPT ![p] = IF ~Confirm THEN "test"
                                          ELSE IF p = "catcher" THEN "confirm"
                                          ELSE IF sent[p] > N THEN "done"
                                          ELSE "send"]
                   ELSE pc
        /\ IF Confirm /\ p = "sender" THEN UNCHANGED <<counter, listen, value>>
           ELSE /\ counter' = IF s = "one" THEN [counter EXCEPT ![p] = counter[p] + 1] ELSE counter
                /\ listen' = IF s = "end" THEN [listen EXCEPT ![p] = FALSE] ELSE listen
                /\ value' = [value EXCEPT ![p] = v]
    BY <1>1, <1>8 DEF Handles, r, v
  <2>2. Types'
    <3>1. pc' \in [Process -> PC]
      BY <2>1 DEF Types, PC
    <3>2. pending' \in [Process -> Seq(Item)]
      BY <1>4, <2>1 DEF Types
    <3>3. /\ counter' \in [Process -> Nat] /\ listen' \in [Process -> BOOLEAN]
          /\ value' \in [Process -> Nat]
      <4>1. counter[p] + 1 \in Nat
        BY DEF Types
      <4>2. CASE Confirm /\ p = "sender"
        BY <2>1, <4>2 DEF Types
      <4>3. CASE ~(Confirm /\ p = "sender")
        BY <1>5, <2>1, <4>1, <4>3 DEF Types
      <4> QED BY <4>2, <4>3
    <3> QED BY <1>2, <3>1, <3>2, <3>3 DEF Types
  <2>3. Merged'
    BY <1>2, <1>4, <2>1 DEF Merged, Types
  <2>4. Values'
    BY <1>2, <1>4, <1>5, <2>1, Lengths DEF Values, Types
  <2>5. CASE p = "catcher"
    <3>1. /\ pending'["catcher"] = r /\ pending'["sender"] = pending["sender"]
          /\ pc'["sender"] = pc["sender"]
          /\ pc'["catcher"] = IF pc["catcher"] # "paused" THEN pc["catcher"]
                              ELSE IF ~Confirm THEN "test" ELSE "confirm"
          /\ counter'["sender"] = counter["sender"] /\ value'["sender"] = value["sender"]
          /\ counter'["catcher"] = IF s = "one" THEN counter["catcher"] + 1 ELSE counter["catcher"]
          /\ listen'["catcher"] = IF s = "end" THEN FALSE ELSE listen["catcher"]
      BY <2>1, <2>5 DEF Types, Process
    <3>2. ASSUME Confirm PROVE ConfirmInv'
      <4>1. /\ Size(pending["sender"]) = 0 /\ pc["catcher"] # "confirm"
            /\ Size(pending["catcher"]) = 1 /\ pc["sender"] \in {"enter", "paused"}
        <5>1. Size(pending["catcher"]) > 0 /\ Size(pending["sender"]) \in Nat
              /\ Size(pending["catcher"]) \in Nat
          BY <1>3, <2>5, Lengths
        <5>2. InFlight <= 1 /\ InFlight # 0
          BY <3>2, <5>1, NoneInFlight DEF ConfirmInv
        <5> QED BY <3>2, <5>1, <5>2, NoneInFlight, Lengths DEF ConfirmInv, InFlight
      <4>2. Size(r) = 0
        BY <1>4, <2>5, <4>1
      <4>3. InFlight' = 0 \/ InFlight' = 1
        BY <3>1, <4>1, <4>2 DEF InFlight
      <4>4. /\ counter["catcher"] = sent["sender"] - 1
            /\ ~Has(pending["catcher"], IF sent["sender"] <= N THEN "end" ELSE "one")
        BY <3>2, <4>1 DEF ConfirmInv
      <4>5. s = IF sent["sender"] <= N THEN "one" ELSE "end"
        BY <1>3, <1>6, <2>5, <4>4
      <4>6. sent["sender"] <= N + 1 /\ counter["catcher"] <= N
        BY <3>2 DEF ConfirmInv
      <4>7. counter'["catcher"] = Least(sent["sender"], N) /\ counter'["catcher"] <= N
        BY <3>1, <4>4, <4>5, <4>6, Lengths DEF Least
      <4> HIDE DEF InFlight
      <4> QED BY <1>2, <3>1, <3>2, <4>1, <4>2, <4>3, <4>6, <4>7, Lengths DEF ConfirmInv, Past
    <3>3. ASSUME ~Confirm PROVE FreeInv'
      <4>1. pc["catcher"] \notin {"send", "done"} /\ pc'["catcher"] \notin {"send", "done", "confirm"}
        BY <1>3, <2>5, <3>1, <3>3 DEF FreeInv
      <4>2. s = "end" => sent["sender"] = N + 1
        BY <1>6, <2>5, <3>3 DEF FreeInv
      <4>3. Has(r, "end") => sent["sender"] = N + 1
        BY <1>6, <2>5, <3>3 DEF FreeInv
      <4>4. counter'["catcher"] + Size(r) <= Least(sent["sender"], N) + Ends(r)
        <5>1. counter["catcher"] + Size(pending["catcher"])
                <= Least(sent["sender"], N) + Ends(pending["catcher"])
          BY <3>3 DEF FreeInv
        <5>2. CASE s = "one"
          <6>1. Ends(r) = Ends(pending["catcher"])
            BY <1>6, <2>5, <5>2 DEF Ends
          <6>2. counter'["catcher"] + Size(r) = counter["catcher"] + Size(pending["catcher"])
            <7>1. Size(r) = Size(pending["catcher"]) - 1
              BY <1>4, <2>5
            <7>2. counter'["catcher"] = counter["catcher"] + 1
              BY <3>1, <5>2
            <7> QED BY <7>1, <7>2, Lengths, SMTT(30)
          <6> QED BY <5>1, <6>1, <6>2
        <5>3. CASE s = "end"
          <6>1. Ends(pending["catcher"]) = 1 /\ Ends(r) \in {0, 1}
            BY <1>6, <2>5, <5>3, EndsType
          <6>2. Least(sent["sender"], N) \in Nat
            BY Lengths, LeastType
          <6> QED BY <1>4, <2>5, <3>1, <5>1, <5>3, <6>1, <6>2, Lengths
        <5> QED BY <1>3, <5>2, <5>3
      <4>5. /\ sent["catcher"] = 0 /\ Size(pending["sender"]) = 0
            /\ value["sender"] = 0 /\ counter["sender"] = 0
            /\ ~Has(pending["sender"], "end") /\ Bounded(pending["sender"], counter'["catcher"])
            /\ Ends(pending["sender"]) = 0
        BY <3>3, <4>1, NothingPending DEF FreeInv
      <4>6. Least(0, counter'["catcher"]) = 0 /\ counter'["catcher"] \in Nat
        BY <3>1, Lengths DEF Least
      <4>7. ~listen'["catcher"] /\ pc'["catcher"] \in {"test", "enter", "paused"} => sent["sender"] = N + 1
        BY <1>3, <3>1, <3>3, <4>2 DEF FreeInv
      <4>8. sent["sender"] <= N + 1
        BY <3>3 DEF FreeInv
      <4> QED BY <1>2, <3>1, <3>3, <4>1, <4>3, <4>4, <4>5, <4>6, <4>7, <4>8 DEF FreeInv
    <3>4. ReadyInv'
      BY <1>2, <1>3, <2>5, <3>1 DEF ReadyInv, Past
    <3>5. ASSUME mode = "SIGRT", start = "ready", ~Confirm PROVE LosslessInv'
      <4>1. counter["catcher"] + Size(pending["catcher"])
              = Least(sent["sender"], N) + Ends(pending["catcher"])
        BY <3>5 DEF LosslessInv
      <4>2. AtMostOnce(pending["catcher"], "end") /\ AtMostOnce(r, "end")
        BY <1>4, <2>5, <3>5 DEF LosslessInv
      <4>3. counter'["catcher"] + Size(r) = Least(sent["sender"], N) + Ends(r)
        <5>1. CASE s = "one"
          <6>1. Ends(r) = Ends(pending["catcher"])
            BY <1>6, <2>5, <5>1 DEF Ends
          <6>2. counter'["catcher"] + Size(r) = counter["catcher"] + Size(pending["catcher"])
            <7>1. Size(r) = Size(pending["catcher"]) - 1
              BY <1>4, <2>5
            <7>2. counter'["catcher"] = counter["catcher"] + 1
              BY <3>1, <5>1
            <7> QED BY <7>1, <7>2, Lengths, SMTT(30)
          <6> QED BY <4>1, <6>1, <6>2
        <5>2. CASE s = "end"
          <6>1. Ends(pending["catcher"]) = 1 /\ Ends(r) = 0
            BY <1>4, <1>6, <2>5, <4>2, <5>2, EndsType
          <6>2. Least(sent["sender"], N) \in Nat
            BY Lengths, LeastType
          <6> QED BY <1>4, <2>5, <3>1, <4>1, <5>2, <6>1, <6>2, Lengths
        <5> QED BY <1>3, <5>1, <5>2
      <4> QED BY <1>2, <3>1, <4>2, <4>3 DEF LosslessInv
    <3>6. ThroughInv'
      BY <1>2, <1>3, <1>6, <2>5, <3>1, Lengths DEF ThroughInv
    <3> QED BY <1>2, <2>2, <2>3, <2>4, <3>2, <3>3, <3>4, <3>5, <3>6
            DEF ConfirmInv, FreeInv, LosslessInv
  <2>6. CASE p = "sender"
    <3>1. /\ pending'["sender"] = r /\ pending'["catcher"] = pending["catcher"]
          /\ pc'["catcher"] = pc["catcher"]
          /\ pc'["sender"] = IF pc["sender"] # "paused" THEN pc["sender"]
                             ELSE IF ~Confirm THEN "test"
                             ELSE IF sent["sender"] > N THEN "done" ELSE "send"
          /\ counter'["catcher"] = counter["catcher"] /\ listen'["catcher"] = listen["catcher"]
          /\ Confirm => counter'["sender"] = counter["sender"] /\ value'["sender"] = value["sender"]
          /\ ~Confirm => /\ counter'["sender"] = IF s = "one" THEN counter["sender"] + 1 ELSE counter["sender"]
                         /\ value'["sender"] = v
      BY <2>1, <2>6 DEF Types, Process
    <3>2. ASSUME Confirm PROVE ConfirmInv'
      <4>1. /\ Size(pending["catcher"]) = 0 /\ pc["catcher"] # "confirm"
            /\ Size(pending["sender"]) = 1 /\ pc["sender"] \in {"enter", "paused"}
        <5>1. Size(pending["sender"]) > 0 /\ Size(pending["sender"]) \in Nat
              /\ Size(pending["catcher"]) \in Nat
          BY <1>3, <2>6, Lengths
        <5>2. InFlight <= 1 /\ InFlight # 0
          BY <3>2, <5>1, NoneInFlight DEF ConfirmInv
        <5> QED BY <3>2, <5>1, <5>2, NoneInFlight, Lengths DEF ConfirmInv, InFlight
      <4>2. Size(r) = 0
        BY <1>4, <2>6, <4>1
      <4>3. InFlight' = 0
        BY <3>1, <4>1, <4>2 DEF InFlight
      <4>4. counter["catcher"] = Least(sent["sender"], N) /\ Past
        BY <3>2, <4>1 DEF ConfirmInv
      <4>5. sent["sender"] <= N + 1 /\ counter["catcher"] <= N
        BY <3>2 DEF ConfirmInv
      <4>6. /\ sent["sender"] > N => counter["catcher"] = N
            /\ ~(sent["sender"] > N) => counter["catcher"] = sent["sender"]
        BY <4>4, <4>5, Lengths DEF Least
      <4>7. Past'
        BY <3>1, <4>4 DEF Past
      <4> HIDE DEF InFlight, Past
      <4> QED BY <1>2, <3>1, <3>2, <4>1, <4>2, <4>3, <4>5, <4>6, <4>7, Lengths DEF ConfirmInv
    <3>3. ASSUME ~Confirm PROVE FreeInv'
      <4>1. pc["catcher"] \in {"send", "done"}
        BY <1>3, <2>6, <3>3 DEF FreeInv
      <4>2. Has(r, "end") => sent["catcher"] = counter["catcher"] + 1
        BY <1>6, <2>6, <3>3 DEF FreeInv
      <4>3. counter'["sender"] + Size(r) <= Least(sent["catcher"], counter["catcher"]) + Ends(r)
        <5>1. counter["sender"] + Size(pending["sender"])
                <= Least(sent["catcher"], counter["catcher"]) + Ends(pending["sender"])
          BY <3>3 DEF FreeInv
        <5>2. CASE s = "one"
          <6>1. Ends(r) = Ends(pending["sender"])
            BY <1>6, <2>6, <5>2 DEF Ends
          <6>2. counter'["sender"] + Size(r) = counter["sender"] + Size(pending["sender"])
            <7>1. Size(r) = Size(pending["sender"]) - 1
              BY <1>4, <2>6
            <7>2. counter'["sender"] = counter["sender"] + 1
              BY <3>1, <3>3, <5>2
            <7> QED BY <7>1, <7>2, Lengths
          <6> QED BY <5>1, <6>1, <6>2
        <5>3. CASE s = "end"
          <6>1. Ends(pending["sender"]) = 1 /\ Ends(r) \in {0, 1}
            BY <1>6, <2>6, <5>3, EndsType
          <6>2. Least(sent["catcher"], counter["catcher"]) \in Nat
            BY Lengths, LeastType
          <6> QED BY <1>4, <2>6, <3>1, <3>3, <5>1, <5>3, <6>1, <6>2, Lengths
        <5> QED BY <1>3, <5>2, <5>3
      <4>4. Bounded(r, counter["catcher"]) /\ v <= counter["catcher"]
        BY <1>4, <1>5, <2>6, <3>3, Lengths DEF FreeInv
      <4> QED BY <1>2, <3>1, <3>3, <4>1, <4>2, <4>3, <4>4 DEF FreeInv
    <3>4. ReadyInv' /\ LosslessInv' /\ ThroughInv'
      BY <1>2, <3>1 DEF ReadyInv, LosslessInv, ThroughInv, Past
    <3> QED BY <1>2, <2>2, <2>3, <2>4, <3>2, <3>3, <3>4 DEF ConfirmInv, FreeInv
  <2> QED BY <1>3, <2>5, <2>6
<1> QED BY <1>7, <1>8

-----------------------------------------------------------------------------
(* The steps of one process alone                                          *)

LEMMA RegisterBothInv == SignalsInv /\ RegisterBoth => SignalsInv'
<1> SUFFICES ASSUME SignalsInv, RegisterBoth PROVE SignalsInv'
  OBVIOUS
<1> USE DEF SignalsInv
<1>1. /\ pc["sender"] = "register"
      /\ registered' = [registered EXCEPT !["sender"] = Signal]
      /\ pc' = [pc EXCEPT !["sender"] = "send"]
      /\ UNCHANGED <<mode, build, start, sent, pending, counter, listen, value>>
  BY DEF RegisterBoth, At, Goto, config
<1>2. Types'
  BY <1>1 DEF Types, PC, Process
<1>3. /\ pc'["sender"] = "send" /\ pc'["catcher"] = pc["catcher"]
      /\ registered'["sender"] = Signal /\ registered'["catcher"] = registered["catcher"]
      /\ (Confirm' <=> Confirm) /\ (Past' <=> Past) /\ InFlight' = InFlight
  BY <1>1 DEF Types, Process, Confirm, Past, InFlight
<1>4. Merged' /\ Values'
  BY <1>1 DEF Merged, Values
<1> HIDE DEF InFlight, Past, Confirm
<1>5. ConfirmInv'
  BY <1>1, <1>3 DEF ConfirmInv
<1>6. FreeInv' /\ ReadyInv' /\ LosslessInv' /\ ThroughInv'
  BY <1>1, <1>3 DEF FreeInv, ReadyInv, LosslessInv, ThroughInv
<1> QED BY <1>2, <1>4, <1>5, <1>6

LEMMA ConfirmationInv == SignalsInv /\ Confirmation => SignalsInv'
<1> SUFFICES ASSUME SignalsInv, Confirmation PROVE SignalsInv'
  OBVIOUS
<1> USE DEF SignalsInv
<1>1. /\ pc["catcher"] = "confirm" /\ pending["catcher"] = <<>>
      /\ pc' = [pc EXCEPT !["catcher"] = "test"]
      /\ UNCHANGED <<mode, build, start, sent, registered, counter, listen, value>>
  BY DEF Confirmation, At, Goto, config
<1>2. PICK s \in Signal : Raise("sender", s, 0)
  BY DEF Confirmation, Signal
<1>3. Confirm
  BY <1>1 DEF FreeInv
<1>4. /\ pending' \in [Process -> Seq(Item)]
      /\ pending'["catcher"] = pending["catcher"]
      /\ mode # "SIGRT" =>
           \A x : AtMostOnce(pending["sender"], x) => AtMostOnce(pending'["sender"], x)
      /\ \A b \in Nat : Bounded(pending["sender"], b) => Bounded(pending'["sender"], b)
      /\ \/ pending'["sender"] = pending["sender"]
         \/ Size(pending'["sender"]) = Size(pending["sender"]) + 1
  <2>1. "sender" \in Process /\ "catcher" \in Process /\ 0 \in Nat
        /\ \A b \in Nat : 0 <= b
    BY DEF Process
  <2> QED BY <1>2, <2>1, RaiseChange
<1>5. Types'
  <2>1. pc' \in [Process -> PC]
    BY <1>1 DEF Types, PC
  <2> QED BY <1>1, <1>4, <2>1 DEF Types
<1>6. Merged'
  BY <1>1, <1>4 DEF Merged, Process
<1>7. Values'
  <2>1. Bounded(pending'["sender"], N) /\ Bounded(pending'["catcher"], N)
    BY <1>4, Lengths DEF Values, Process
  <2> QED BY <1>1, <2>1 DEF Values, Process
<1>8. pc'["catcher"] = "test" /\ pc'["sender"] = pc["sender"]
  BY <1>1 DEF Types, Process
<1>9. /\ Size(pending["catcher"]) = 0 /\ Size(pending'["catcher"]) = 0
      /\ Size(pending["sender"]) = 0 /\ pc["sender"] \in {"enter", "paused"}
  <2>1. Size(pending["catcher"]) = 0
    BY <1>1, EmptyQueue
  <2>2. InFlight # 0 /\ InFlight <= 1
    BY <1>1, <1>3, NoneInFlight DEF ConfirmInv
  <2>3. Size(pending["sender"]) = 0
    BY <1>1, <2>1, <2>2, Lengths DEF InFlight
  <2>4. pc["sender"] \in {"enter", "paused"}
    <3> HIDE DEF InFlight
    <3> QED BY <1>3, <2>2 DEF ConfirmInv
  <2> QED BY <1>4, <2>1, <2>3, <2>4
<1>10. InFlight' = 0 \/ InFlight' = 1
  BY <1>4, <1>8, <1>9 DEF InFlight
<1>11. counter["catcher"] = Least(sent["sender"], N) /\ Past
  BY <1>1, <1>3 DEF ConfirmInv
<1>12. Past' /\ (Confirm' <=> Confirm)
  BY <1>1, <1>8 DEF Past, Confirm
<1>13. ConfirmInv'
  <2> HIDE DEF InFlight, Past, Confirm
  <2> QED BY <1>1, <1>3, <1>8, <1>9, <1>10, <1>11, <1>12, Lengths DEF ConfirmInv
<1>14. FreeInv' /\ ReadyInv' /\ LosslessInv' /\ ThroughInv'
  BY <1>3, <1>12 DEF FreeInv, ReadyInv, LosslessInv, ThroughInv
<1> QED BY <1>5, <1>6, <1>7, <1>13, <1>14

-----------------------------------------------------------------------------
LEMMA InitInv == Init => SignalsInv
<1> SUFFICES ASSUME Init PROVE SignalsInv
  OBVIOUS
<1>1. /\ mode \in Modes /\ build \in Builds /\ start \in Starts
      /\ pc["catcher"] = "act_one"
      /\ pc["sender"] = IF Confirm THEN "register" ELSE "send"
      /\ pending = [p \in Process |-> <<>>]
      /\ sent["sender"] = 0 /\ sent["catcher"] = 0
      /\ counter["sender"] = 0 /\ counter["catcher"] = 0
      /\ value["sender"] = 0 /\ value["catcher"] = 0
      /\ pending["sender"] = <<>> /\ pending["catcher"] = <<>>
  BY DEF Init, Process
<1>2. /\ Size(<<>>) = 0 /\ Ends(<<>>) = 0 /\ ~Has(<<>>, "one") /\ ~Has(<<>>, "end")
      /\ AtMostOnce(<<>>, "one") /\ AtMostOnce(<<>>, "end") /\ \A b : Bounded(<<>>, b)
  BY EmptyQueue DEF Ends
<1>3. Types
  <2>1. <<>> \in Seq(Item)
    BY EmptyQueue
  <2> QED BY <2>1 DEF Init, Types, PC, Process
<1>4. Merged /\ Values
  BY <1>1, <1>2, ArgumentsAssumption DEF Merged, Values, Process
<1>5. N \in Nat /\ Least(0, N) = 0 /\ Least(0, 0) = 0
  BY ArgumentsAssumption DEF Least
<1>6. InFlight = 0
  BY <1>1, <1>2 DEF InFlight
<1>7. ConfirmInv
  <2> HIDE DEF InFlight
  <2> QED BY <1>1, <1>2, <1>5, <1>6 DEF ConfirmInv
<1>8. FreeInv
  BY <1>1, <1>2, <1>5 DEF FreeInv
<1>9. ReadyInv /\ LosslessInv /\ ThroughInv
  BY <1>1, <1>2, <1>5 DEF ReadyInv, LosslessInv, ThroughInv
<1> QED BY <1>3, <1>4, <1>7, <1>8, <1>9 DEF SignalsInv

LEMMA StutterInv == SignalsInv /\ UNCHANGED vars => SignalsInv'
<1> SUFFICES ASSUME SignalsInv, UNCHANGED vars PROVE SignalsInv'
  OBVIOUS
<1> USE DEF vars, config
<1>1. Types' /\ Merged' /\ Values'
  BY DEF SignalsInv, Types, Merged, Values
<1>2. ConfirmInv' /\ FreeInv'
  BY DEF SignalsInv, ConfirmInv, FreeInv, Confirm, Past, InFlight
<1>3. ReadyInv' /\ LosslessInv' /\ ThroughInv'
  BY DEF SignalsInv, ReadyInv, LosslessInv, ThroughInv, Confirm, Past
<1> QED BY <1>1, <1>2, <1>3 DEF SignalsInv

LEMMA StepInv ==
  ASSUME SignalsInv, NEW p \in Process, Step(p) PROVE SignalsInv'
<1>1. CASE Handle(p)
  BY <1>1, HandleInv
<1>2. CASE SendOne(p) \/ SendEnd(p)
  BY <1>2, SendInv
<1>3. CASE Quiet(p)
  BY <1>3, QuietInv
<1> QED BY <1>1, <1>2, <1>3 DEF Step, Quiet

LEMMA Invariance == Spec => []SignalsInv
<1>1. SignalsInv /\ [Next]_vars => SignalsInv'
  <2> SUFFICES ASSUME SignalsInv, [Next]_vars PROVE SignalsInv'
    OBVIOUS
  <2>1. CASE RegisterBoth
    BY <2>1, RegisterBothInv
  <2>2. CASE Confirmation
    BY <2>2, ConfirmationInv
  <2>3. CASE \E p \in Process : Step(p)
    BY <2>3, StepInv
  <2>4. CASE UNCHANGED vars
    BY <2>4, StutterInv
  <2> QED BY <2>1, <2>2, <2>3, <2>4 DEF Next
<1> QED BY <1>1, InitInv, PTL DEF Spec

-----------------------------------------------------------------------------
(* The bounds of TypeOK                                                     *)

LEMMA EndsAtMost == ASSUME NEW q \in Seq(Item) PROVE Ends(q) <= Size(q) /\ Size(q) \in Nat
<1>1. CASE Has(q, "end")
  BY <1>1, HasSomething DEF Ends
<1>2. CASE ~Has(q, "end")
  BY <1>2 DEF Ends, Size
<1> QED BY <1>1, <1>2

(* What is pending at most once each is at most two.                        *)
LEMMA AtMostTwo ==
  ASSUME NEW q \in Seq(Item), AtMostOnce(q, "one"), AtMostOnce(q, "end") PROVE Size(q) <= 2
<1> SUFFICES ASSUME Len(q) > 2 PROVE FALSE
  BY DEF Size
<1>1. 1 \in 1 .. Len(q) /\ 2 \in 1 .. Len(q) /\ 3 \in 1 .. Len(q)
  OBVIOUS
<1>2. q[1].signal \in Signal /\ q[2].signal \in Signal /\ q[3].signal \in Signal
  <2>1. q[1] \in Item /\ q[2] \in Item /\ q[3] \in Item
    BY <1>1
  <2> QED BY <2>1 DEF Item
<1>3. q[1].signal # q[2].signal /\ q[1].signal # q[3].signal /\ q[2].signal # q[3].signal
  BY <1>1, <1>2 DEF AtMostOnce, Signal
<1> QED BY <1>2, <1>3 DEF Signal

LEMMA Sized ==
  ASSUME SignalsInv, NEW p \in Process
  PROVE  Len(pending[p]) <= IF mode = "SIGRT" THEN N + 1 ELSE 2
<1> USE DEF SignalsInv
<1>1. pending[p] \in Seq(Item)
  BY DEF Types
<1>2. CASE mode # "SIGRT"
  <2>1. Size(pending[p]) <= 2
    BY <1>1, <1>2, AtMostTwo DEF Merged
  <2> QED BY <1>2, <2>1 DEF Size
<1>3. CASE mode = "SIGRT"
  <2>1. Size(pending["sender"]) <= N + 1 /\ Size(pending["catcher"]) <= N + 1
    <3>1. CASE Confirm
      <4>1. InFlight <= 1
        BY <3>1 DEF ConfirmInv
      <4> QED BY <4>1, Lengths DEF InFlight
    <3>2. CASE ~Confirm
      <4>1. /\ counter["catcher"] + Size(pending["catcher"])
                <= Least(sent["sender"], N) + Ends(pending["catcher"])
            /\ counter["sender"] + Size(pending["sender"])
                <= Least(sent["catcher"], counter["catcher"]) + Ends(pending["sender"])
            /\ counter["catcher"] <= N
        BY <3>2, CounterBound DEF FreeInv
      <4>2. /\ Ends(pending["catcher"]) \in {0, 1} /\ Ends(pending["sender"]) \in {0, 1}
            /\ Least(sent["sender"], N) \in Nat /\ Least(sent["sender"], N) <= N
            /\ Least(sent["catcher"], counter["catcher"]) \in Nat
            /\ Least(sent["catcher"], counter["catcher"]) <= counter["catcher"]
        BY EndsType, Lengths DEF Least
      <4> QED BY <4>1, <4>2, Lengths
    <3> QED BY <3>1, <3>2
  <2> QED BY <1>3, <2>1 DEF Size, Process
<1> QED BY <1>2, <1>3

(* A signal carries a value up to the number of signals, a process has      *)
(* sent and counted no more than that many, and of ordinary signals no more *)
(* than one of each is pending.                                             *)
THEOREM TypesCorrect == Spec => []TypeOK
<1>1. SignalsInv => TypeOK
  <2> SUFFICES ASSUME SignalsInv PROVE TypeOK
    OBVIOUS
  <2> USE DEF SignalsInv
  <2>1. ASSUME NEW p \in Process PROVE pending[p] \in Seq([signal : Signal, value : 0 .. N])
    <3> DEFINE q == pending[p]
    <3>1. q \in Seq(Item) /\ Bounded(q, N) /\ N \in Nat
      BY ArgumentsAssumption DEF Types, Values
    <3> HIDE DEF q
    <3>2. ASSUME NEW k \in 1 .. Len(q) PROVE q[k] \in [signal : Signal, value : 0 .. N]
      <4>1. q[k] \in Item /\ q[k].value <= N
        BY <3>1 DEF Bounded
      <4> QED BY <3>1, <4>1 DEF Item
    <3>3. q \in Seq([signal : Signal, value : 0 .. N])
      <4> DEFINE Small == [signal : Signal, value : 0 .. N]
      <4>1. Len(q) \in Nat /\ q = [k \in 1 .. Len(q) |-> q[k]]
        BY <3>1
      <4>2. q \in [1 .. Len(q) -> Small]
        BY <3>2, <4>1
      <4> HIDE DEF Small
      <4>3. q \in Seq(Small)
        BY <4>1, <4>2
      <4> QED BY <4>3 DEF Small
    <3> QED BY <3>3 DEF q
  <2>2. /\ sent["sender"] \in 0 .. N + 1 /\ sent["catcher"] \in 0 .. N + 1
        /\ counter["sender"] \in 0 .. N /\ counter["catcher"] \in 0 .. N
        /\ value["sender"] \in 0 .. N /\ value["catcher"] \in 0 .. N
    <3>1. counter["catcher"] <= N /\ value["sender"] <= N /\ value["catcher"] <= N
      BY CounterBound DEF Values, Process
    <3>2. sent["sender"] <= N + 1 /\ sent["catcher"] <= counter["catcher"] + 1
      BY Lengths DEF ConfirmInv, FreeInv
    <3>3. counter["sender"] <= counter["catcher"]
      <4>1. CASE Confirm
        BY <4>1, Lengths DEF ConfirmInv
      <4>2. CASE ~Confirm
        <5>1. /\ counter["sender"] + Size(pending["sender"])
                  <= Least(sent["catcher"], counter["catcher"]) + Ends(pending["sender"])
          BY <4>2 DEF FreeInv
        <5>2. /\ Ends(pending["sender"]) <= Size(pending["sender"])
              /\ Ends(pending["sender"]) \in {0, 1}
              /\ Least(sent["catcher"], counter["catcher"]) \in Nat
              /\ Least(sent["catcher"], counter["catcher"]) <= counter["catcher"]
          BY EndsType, EndsAtMost, Lengths DEF Least, Types, Process
        <5> QED BY <5>1, <5>2, Lengths
      <4> QED BY <4>1, <4>2
    <3> QED BY <3>1, <3>2, <3>3, Lengths
  <2>3. /\ sent \in [Process -> 0 .. N + 1] /\ counter \in [Process -> 0 .. N]
        /\ value \in [Process -> 0 .. N]
    BY <2>2 DEF Types, Process
  <2> QED BY <2>1, <2>3, Sized DEF Types, TypeOK
<1> QED BY <1>1, Invariance, PTL

(* A catcher that was ready, and has been told of the end, has counted all  *)
(* of the real-time signals, however many they are.                         *)
THEOREM RealTimeCorrect == Spec => []RealTimeLossless
<1>1. SignalsInv => RealTimeLossless
  <2> SUFFICES ASSUME SignalsInv, mode = "SIGRT", Counted PROVE counter["catcher"] = N
    BY DEF RealTimeLossless
  <2>1. /\ sent["sender"] = N + 1 /\ Size(pending["catcher"]) = 0
        /\ counter["catcher"] + Size(pending["catcher"])
             = Least(sent["sender"], N) + Ends(pending["catcher"])
    BY DEF SignalsInv, Counted, FreeInv, LosslessInv
  <2>2. Ends(pending["catcher"]) = 0 /\ Least(sent["sender"], N) = N
    BY <2>1, NothingPending, Lengths DEF Least, SignalsInv
  <2> QED BY <2>1, <2>2, Lengths DEF SignalsInv
<1> QED BY <1>1, Invariance, PTL

(* Ordinary signals that are merged leave one of them to be counted.        *)
THEOREM OneCorrect == Spec => []OneGetsThrough
<1>1. SignalsInv => OneGetsThrough
  <2> SUFFICES ASSUME SignalsInv, N > 0, Counted PROVE counter["catcher"] > 0
    BY DEF OneGetsThrough
  <2>1. sent["sender"] = N + 1 /\ Size(pending["catcher"]) = 0
    BY DEF SignalsInv, Counted, FreeInv
  <2>2. sent["sender"] > 0 /\ ~Has(pending["catcher"], "one")
    BY <2>1, NothingPending, ArgumentsAssumption
  <2> QED BY <2>2 DEF SignalsInv, Counted, ThroughInv
<1> QED BY <1>1, Invariance, PTL

(* With confirmation a sender that is done has had every signal counted, in *)
(* every mode.                                                              *)
THEOREM ConfirmationCorrect == Spec => []ConfirmedAll
<1>1. SignalsInv => ConfirmedAll
  BY DEF SignalsInv, ConfirmInv, ConfirmedAll
<1> QED BY <1>1, Invariance, PTL

(* With confirmation no two signals are ever pending for the same process.  *)
THEOREM OneAtATimeCorrect == Spec => []OneAtATime
<1>1. SignalsInv => OneAtATime
  <2> SUFFICES ASSUME SignalsInv, Confirm PROVE \A p \in Process : Len(pending[p]) <= 1
    BY DEF OneAtATime
  <2>1. InFlight <= 1
    BY DEF SignalsInv, ConfirmInv
  <2>2. Size(pending["sender"]) <= 1 /\ Size(pending["catcher"]) <= 1
    BY <2>1, Lengths DEF InFlight, SignalsInv
  <2> QED BY <2>2 DEF Size, Process
<1> QED BY <1>1, Invariance, PTL

(* A sender that is done has neither counted nor been told of more signals  *)
(* than catcher has counted.                                                *)
THEOREM CountsCorrect == Spec => []NothingInvented
<1>1. SignalsInv => NothingInvented
  <2> SUFFICES ASSUME SignalsInv, ~Confirm
               PROVE  counter["sender"] <= counter["catcher"] /\ value["sender"] <= counter["catcher"]
    BY DEF NothingInvented
  <2> USE DEF SignalsInv
  <2>1. counter["sender"] + Size(pending["sender"])
          <= Least(sent["catcher"], counter["catcher"]) + Ends(pending["sender"])
    BY DEF FreeInv
  <2>2. /\ Ends(pending["sender"]) <= Size(pending["sender"])
        /\ Ends(pending["sender"]) \in {0, 1}
        /\ Least(sent["catcher"], counter["catcher"]) \in Nat
        /\ Least(sent["catcher"], counter["catcher"]) <= counter["catcher"]
    BY EndsType, EndsAtMost, Lengths DEF Least, Types, Process
  <2>3. counter["sender"] <= counter["catcher"]
    BY <2>1, <2>2, Lengths
  <2> QED BY <2>3 DEF FreeInv
<1> QED BY <1>1, Invariance, PTL
=============================================================================
