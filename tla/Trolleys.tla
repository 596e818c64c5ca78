------------------------------ MODULE Trolleys ------------------------------
(***************************************************************************)
(* The roller coaster of cw09/zad1/main.c: P passenger threads and T       *)
(* trolley threads synchronised by three mutexes with condition variables, *)
(* two mutexes used as binary semaphores (the start button) and two        *)
(* barriers; the main thread joins the trolleys and then dismisses the     *)
(* passengers.                                                             *)
(*                                                                         *)
(* A step runs from one point where threads can affect each other to the   *)
(* next: acquiring a mutex together with the test of the predicate it      *)
(* guards, falling asleep on a condition variable, the guarded body up to  *)
(* the unlock.  The predicates read die and current_trolley, which other   *)
(* threads write without holding the same mutex, so the test of a          *)
(* predicate and the pthread_cond_wait that follows are two steps.         *)
(***************************************************************************)
EXTENDS Integers, FiniteSets

CONSTANTS
  Passengers,       \* the passenger threads (P of them)
  T,                \* number of trolleys
  C,                \* capacity of a trolley
  N,                \* number of rides
  SpuriousWakeups   \* may pthread_cond_wait return without a broadcast?

Trolley == 0 .. T - 1

(* main.c rejects arguments that are not positive and P < T*C.              *)
ASSUME ArgumentsAssumption ==
  /\ IsFiniteSet(Passengers)
  /\ T \in Nat \ {0} /\ C \in Nat \ {0} /\ N \in Nat \ {0}
  /\ Cardinality(Passengers) >= T * C
  /\ SpuriousWakeups \in BOOLEAN

VARIABLES
  passenger_pc,     \* where each passenger_routine is
  trolley_pc,       \* where each trolley_routine is
  main_pc,          \* where main is, from the first pthread_join on
  trolley_of,       \* passenger->trolley
  passengers,       \* trolley->passengers
  n,                \* the local n of each trolley_routine
  current_trolley, allow_in, allow_out, die,
  mutex_queue, mutex_in, mutex_out,          \* TRUE: locked
  mutex_button_wait, mutex_button_press      \* TRUE: locked

mutexes == <<mutex_queue, mutex_in, mutex_out>>
button == <<mutex_button_wait, mutex_button_press>>
shared == <<passengers, current_trolley, allow_in, allow_out, die>>
vars == <<passenger_pc, trolley_pc, main_pc, trolley_of, n, shared, mutexes,
          button>>

PassengerPC ==
  {"lock_in", "to_wait_in", "cond_in", "body_in",
   "barrier", "in_barrier", "button",
   "lock_out", "to_wait_out", "cond_out", "body_out", "done"}

TrolleyPC ==
  {"lock_queue", "to_wait_queue", "cond_queue",
   "drop", "to_wait_drop", "cond_drop", "retest_drop", "dropped",
   "take", "to_wait_take", "cond_take", "retest_take", "taken",
   "signal", "press", "close",
   "depart", "in_depart", "ride", "in_arrive", "final", "in_final", "done"}

MainPC == {"join_trolleys", "wake_in", "wake_out", "free_button",
           "join_passengers", "exited"}

(* Mistake: main forgets to lock mutex_button_press before the first ride.  *)
Init_unlocked ==
  /\ passenger_pc = [p \in Passengers |-> "lock_in"]
  /\ trolley_pc = [t \in Trolley |-> "lock_queue"]
  /\ main_pc = "join_trolleys"
  /\ trolley_of = [p \in Passengers |-> 0]
  /\ passengers = [t \in Trolley |-> 0]
  /\ n = [t \in Trolley |-> 0]
  /\ current_trolley = 0
  /\ allow_in = FALSE /\ allow_out = FALSE /\ die = FALSE
  /\ mutex_queue = FALSE /\ mutex_in = FALSE /\ mutex_out = FALSE
  /\ mutex_button_wait = TRUE /\ mutex_button_press = FALSE

Init ==
  /\ passenger_pc = [p \in Passengers |-> "lock_in"]
  /\ trolley_pc = [t \in Trolley |-> "lock_queue"]
  /\ main_pc = "join_trolleys"
  /\ trolley_of = [p \in Passengers |-> 0]
  /\ passengers = [t \in Trolley |-> 0]
  /\ n = [t \in Trolley |-> 0]
  /\ current_trolley = 0
  /\ allow_in = FALSE /\ allow_out = FALSE /\ die = FALSE
  /\ mutex_queue = FALSE /\ mutex_in = FALSE /\ mutex_out = FALSE
  /\ mutex_button_wait = TRUE /\ mutex_button_press = TRUE

-----------------------------------------------------------------------------
(* Condition variables and barriers.  The threads asleep on a condition    *)
(* variable are those whose pc says so; a broadcast moves them all to the  *)
(* point where they acquire the mutex again.                               *)

Woken(pcs, asleep, awake) ==
  [x \in DOMAIN pcs |-> IF pcs[x] = asleep THEN awake ELSE pcs[x]]

Goto(pcs, x, to) == [pcs EXCEPT ![x] = to]

AtPassengersBarrier == {p \in Passengers : passenger_pc[p] = "in_barrier"}

AtTrolleysBarrier ==
  {t \in Trolley : trolley_pc[t] \in {"in_depart", "in_arrive", "in_final"}}

-----------------------------------------------------------------------------
(* passenger_routine                                                       *)

CanBoard == allow_in /\ passengers[current_trolley] < C

AcquireIn(p) ==
  /\ passenger_pc[p] = "lock_in" /\ ~mutex_in
  /\ mutex_in' = TRUE
  /\ passenger_pc' = Goto(passenger_pc, p,
        IF CanBoard \/ die THEN "body_in" ELSE "to_wait_in")
  /\ UNCHANGED <<trolley_pc, main_pc, trolley_of, n, shared, mutex_queue,
                 mutex_out, button>>

WaitIn(p) ==
  /\ passenger_pc[p] = "to_wait_in"
  /\ mutex_in' = FALSE
  /\ passenger_pc' = Goto(passenger_pc, p, "cond_in")
  /\ UNCHANGED <<trolley_pc, main_pc, trolley_of, n, shared, mutex_queue,
                 mutex_out, button>>

DismissedIn(p) ==
  /\ passenger_pc[p] = "body_in" /\ die
  /\ mutex_in' = FALSE
  /\ passenger_pc' = Goto(passenger_pc, p, "done")
  /\ UNCHANGED <<trolley_pc, main_pc, trolley_of, n, shared, mutex_queue,
                 mutex_out, button>>

Board(p) ==
  /\ passenger_pc[p] = "body_in" /\ ~die
  /\ trolley_of' = [trolley_of EXCEPT ![p] = current_trolley]
  /\ passengers' = [passengers EXCEPT ![current_trolley] = @ + 1]
  /\ passenger_pc' = Goto(Woken(passenger_pc, "cond_in", "lock_in"), p,
        IF C > 1 THEN "barrier" ELSE "button")
  /\ trolley_pc' = Woken(trolley_pc, "cond_take", "retest_take")
  /\ mutex_in' = FALSE
  /\ UNCHANGED <<main_pc, n, current_trolley, allow_in, allow_out, die,
                 mutex_queue, mutex_out, button>>

(* The C-th arrival opens passengers_barrier; which of the C threads gets   *)
(* PTHREAD_BARRIER_SERIAL_THREAD is unspecified.                            *)
ReachBarrier(p) ==
  LET arrived == AtPassengersBarrier \cup {p} IN
  /\ passenger_pc[p] = "barrier"
  /\ IF Cardinality(arrived) < C
       THEN passenger_pc' = Goto(passenger_pc, p, "in_barrier")
       ELSE \E serial \in arrived :
              passenger_pc' = [q \in Passengers |->
                 IF q = serial THEN "button"
                 ELSE IF q \in arrived THEN "lock_out" ELSE passenger_pc[q]]
  /\ UNCHANGED <<trolley_pc, main_pc, trolley_of, n, shared, mutexes, button>>

(* mutex_button_wait is never unlocked by the thread that locks it, and     *)
(* mutex_button_press never locked by the one that unlocks it.              *)
PressButton(p) ==
  /\ passenger_pc[p] = "button" /\ ~mutex_button_wait
  /\ IF C > 1 /\ die
       THEN UNCHANGED button
       ELSE mutex_button_wait' = TRUE /\ mutex_button_press' = FALSE
  /\ passenger_pc' = Goto(passenger_pc, p, "lock_out")
  /\ UNCHANGED <<trolley_pc, main_pc, trolley_of, n, shared, mutexes>>

(* Mistake: any passenger may leave while a door is open.                  *)
CanLeave_anywhere(p) == allow_out

CanLeave(p) == allow_out /\ trolley_of[p] = current_trolley

AcquireOut(p) ==
  /\ passenger_pc[p] = "lock_out" /\ ~mutex_out
  /\ mutex_out' = TRUE
  /\ passenger_pc' = Goto(passenger_pc, p,
        IF CanLeave(p) \/ die THEN "body_out" ELSE "to_wait_out")
  /\ UNCHANGED <<trolley_pc, main_pc, trolley_of, n, shared, mutex_queue,
                 mutex_in, button>>

WaitOut(p) ==
  /\ passenger_pc[p] = "to_wait_out"
  /\ mutex_out' = FALSE
  /\ passenger_pc' = Goto(passenger_pc, p, "cond_out")
  /\ UNCHANGED <<trolley_pc, main_pc, trolley_of, n, shared, mutex_queue,
                 mutex_in, button>>

(* Mistake: the passenger leaves without the broadcast on cond_out.         *)
Leave_silent(p) ==
  /\ passenger_pc[p] = "body_out"
  /\ mutex_out' = FALSE
  /\ passengers' = [passengers EXCEPT ![trolley_of[p]] = @ - 1]
  /\ passenger_pc' = Goto(passenger_pc, p, "lock_in")
  /\ UNCHANGED <<trolley_pc, main_pc, trolley_of, n, current_trolley, allow_in,
                 allow_out, die, mutex_queue, mutex_in, button>>

(* The body of the second wait: with die set the thread ends instead.       *)
Leave(p) ==
  /\ passenger_pc[p] = "body_out"
  /\ mutex_out' = FALSE
  /\ IF die
       THEN /\ passenger_pc' = Goto(passenger_pc, p, "done")
            /\ UNCHANGED <<trolley_pc, passengers>>
       ELSE /\ passengers' = [passengers EXCEPT ![trolley_of[p]] = @ - 1]
            /\ passenger_pc' = Goto(Woken(passenger_pc, "cond_out", "lock_out"),
                                    p, "lock_in")
            /\ trolley_pc' = Woken(trolley_pc, "cond_drop", "retest_drop")
  /\ UNCHANGED <<main_pc, trolley_of, n, current_trolley, allow_in, allow_out,
                 die, mutex_queue, mutex_in, button>>

-----------------------------------------------------------------------------
(* trolley_routine                                                         *)

AcquireQueue(t) ==
  /\ trolley_pc[t] = "lock_queue" /\ ~mutex_queue
  /\ mutex_queue' = TRUE
  /\ IF current_trolley # t
       THEN trolley_pc' = Goto(trolley_pc, t, "to_wait_queue") /\ UNCHANGED n
     ELSE IF n[t] # 0
       THEN trolley_pc' = Goto(trolley_pc, t, "drop") /\ UNCHANGED n
       ELSE trolley_pc' = Goto(trolley_pc, t, "take") /\ n' = [n EXCEPT ![t] = 1]
  /\ UNCHANGED <<passenger_pc, main_pc, trolley_of, shared, mutex_in,
                 mutex_out, button>>

WaitQueue(t) ==
  /\ trolley_pc[t] = "to_wait_queue"
  /\ mutex_queue' = FALSE
  /\ trolley_pc' = Goto(trolley_pc, t, "cond_queue")
  /\ UNCHANGED <<passenger_pc, main_pc, trolley_of, n, shared, mutex_in,
                 mutex_out, button>>

Emptied(t) == IF passengers[t] > 0 THEN "to_wait_drop" ELSE "dropped"

(* Mistake: the door to leave opens without a broadcast.                    *)
OpenToLeave_silent(t) ==
  /\ trolley_pc[t] = "drop" /\ ~mutex_out
  /\ mutex_out' = TRUE
  /\ allow_out' = TRUE
  /\ trolley_pc' = Goto(trolley_pc, t, Emptied(t))
  /\ UNCHANGED <<passenger_pc, main_pc, trolley_of, n, passengers,
                 current_trolley, allow_in, die, mutex_queue, mutex_in, button>>

OpenToLeave(t) ==
  /\ trolley_pc[t] = "drop" /\ ~mutex_out
  /\ mutex_out' = TRUE
  /\ allow_out' = TRUE
  /\ passenger_pc' = Woken(passenger_pc, "cond_out", "lock_out")
  /\ trolley_pc' = Goto(trolley_pc, t, Emptied(t))
  /\ UNCHANGED <<main_pc, trolley_of, n, passengers, current_trolley, allow_in,
                 die, mutex_queue, mutex_in, button>>

WaitDrop(t) ==
  /\ trolley_pc[t] = "to_wait_drop"
  /\ mutex_out' = FALSE
  /\ trolley_pc' = Goto(trolley_pc, t, "cond_drop")
  /\ UNCHANGED <<passenger_pc, main_pc, trolley_of, n, shared, mutex_queue,
                 mutex_in, button>>

RetestDrop(t) ==
  /\ trolley_pc[t] = "retest_drop" /\ ~mutex_out
  /\ mutex_out' = TRUE
  /\ trolley_pc' = Goto(trolley_pc, t, Emptied(t))
  /\ UNCHANGED <<passenger_pc, main_pc, trolley_of, n, shared, mutex_queue,
                 mutex_in, button>>

Dropped(t) ==
  /\ trolley_pc[t] = "dropped"
  /\ allow_out' = FALSE
  /\ mutex_out' = FALSE
  /\ n' = [n EXCEPT ![t] = @ + 1]
  /\ trolley_pc' = Goto(trolley_pc, t, IF n[t] + 1 <= N THEN "take" ELSE "close")
  /\ UNCHANGED <<passenger_pc, main_pc, trolley_of, passengers, current_trolley,
                 allow_in, die, mutex_queue, mutex_in, button>>

Filled == IF passengers[current_trolley] < C THEN "to_wait_take" ELSE "taken"

OpenToBoard(t) ==
  /\ trolley_pc[t] = "take" /\ ~mutex_in
  /\ mutex_in' = TRUE
  /\ allow_in' = TRUE
  /\ passenger_pc' = Woken(passenger_pc, "cond_in", "lock_in")
  /\ trolley_pc' = Goto(trolley_pc, t, Filled)
  /\ UNCHANGED <<main_pc, trolley_of, n, passengers, current_trolley, allow_out,
                 die, mutex_queue, mutex_out, button>>

WaitTake(t) ==
  /\ trolley_pc[t] = "to_wait_take"
  /\ mutex_in' = FALSE
  /\ trolley_pc' = Goto(trolley_pc, t, "cond_take")
  /\ UNCHANGED <<passenger_pc, main_pc, trolley_of, n, shared, mutex_queue,
                 mutex_out, button>>

(* Mistake: "if" instead of "while" around pthread_cond_wait.               *)
RetestTake_once(t) ==
  /\ trolley_pc[t] = "retest_take" /\ ~mutex_in
  /\ mutex_in' = TRUE
  /\ trolley_pc' = Goto(trolley_pc, t, "taken")
  /\ UNCHANGED <<passenger_pc, main_pc, trolley_of, n, shared, mutex_queue,
                 mutex_out, button>>

RetestTake(t) ==
  /\ trolley_pc[t] = "retest_take" /\ ~mutex_in
  /\ mutex_in' = TRUE
  /\ trolley_pc' = Goto(trolley_pc, t, Filled)
  /\ UNCHANGED <<passenger_pc, main_pc, trolley_of, n, shared, mutex_queue,
                 mutex_out, button>>

(* Mistake: allow_in is left up when the trolley is full.                   *)
Taken_open(t) ==
  /\ trolley_pc[t] = "taken"
  /\ mutex_in' = FALSE
  /\ trolley_pc' = Goto(trolley_pc, t, "signal")
  /\ UNCHANGED <<passenger_pc, main_pc, trolley_of, n, shared, mutex_queue,
                 mutex_out, button>>

Taken(t) ==
  /\ trolley_pc[t] = "taken"
  /\ allow_in' = FALSE
  /\ mutex_in' = FALSE
  /\ trolley_pc' = Goto(trolley_pc, t, "signal")
  /\ UNCHANGED <<passenger_pc, main_pc, trolley_of, n, passengers,
                 current_trolley, allow_out, die, mutex_queue, mutex_out,
                 button>>

EnableButton(t) ==
  /\ trolley_pc[t] = "signal"
  /\ mutex_button_wait' = FALSE
  /\ trolley_pc' = Goto(trolley_pc, t, "press")
  /\ UNCHANGED <<passenger_pc, main_pc, trolley_of, n, shared, mutexes,
                 mutex_button_press>>

AwaitPress(t) ==
  /\ trolley_pc[t] = "press" /\ ~mutex_button_press
  /\ mutex_button_press' = TRUE
  /\ trolley_pc' = Goto(trolley_pc, t, "close")
  /\ UNCHANGED <<passenger_pc, main_pc, trolley_of, n, shared, mutexes,
                 mutex_button_wait>>

(* Mistake: the station goes to the previous trolley.                       *)
Close_backwards(t) ==
  /\ trolley_pc[t] = "close"
  /\ current_trolley' = (current_trolley + T - 1) % T
  /\ mutex_queue' = FALSE
  /\ trolley_pc' = Goto(Woken(trolley_pc, "cond_queue", "lock_queue"), t,
                        IF n[t] > N THEN "final" ELSE "depart")
  /\ UNCHANGED <<passenger_pc, main_pc, trolley_of, n, passengers, allow_in,
                 allow_out, die, mutex_in, mutex_out, button>>

(* Mistake: the number of the next trolley is not taken modulo T.           *)
Close_unbounded(t) ==
  /\ trolley_pc[t] = "close"
  /\ current_trolley' = current_trolley + 1
  /\ mutex_queue' = FALSE
  /\ trolley_pc' = Goto(Woken(trolley_pc, "cond_queue", "lock_queue"), t,
                        IF n[t] > N THEN "final" ELSE "depart")
  /\ UNCHANGED <<passenger_pc, main_pc, trolley_of, n, passengers, allow_in,
                 allow_out, die, mutex_in, mutex_out, button>>

Close(t) ==
  /\ trolley_pc[t] = "close"
  /\ current_trolley' = (current_trolley + 1) % T
  /\ mutex_queue' = FALSE
  /\ trolley_pc' = Goto(Woken(trolley_pc, "cond_queue", "lock_queue"), t,
                        IF n[t] > N THEN "final" ELSE "depart")
  /\ UNCHANGED <<passenger_pc, main_pc, trolley_of, n, passengers, allow_in,
                 allow_out, die, mutex_in, mutex_out, button>>

(* The three pthread_barrier_wait of a trolley use the one trolleys_barrier;*)
(* the T-th arrival releases everybody.  With T = 1 the code skips them.    *)
Inside == [depart |-> "in_depart", ride |-> "in_arrive", final |-> "in_final"]

Beyond ==
  [in_depart |-> "ride", in_arrive |-> "lock_queue", in_final |-> "done"]

(* Mistake: trolleys_barrier initialised for one trolley less.              *)
ArriveAtBarrier_early(t) ==
  LET arrived == AtTrolleysBarrier \cup {t}
      pc      == Goto(trolley_pc, t, Inside[trolley_pc[t]])
  IN
  /\ trolley_pc[t] \in {"depart", "ride", "final"}
  /\ trolley_pc' = IF Cardinality(arrived) < T - 1
       THEN pc
       ELSE [u \in Trolley |-> IF u \in arrived THEN Beyond[pc[u]] ELSE pc[u]]
  /\ UNCHANGED <<passenger_pc, main_pc, trolley_of, n, shared, mutexes, button>>

ArriveAtBarrier(t) ==
  LET arrived == AtTrolleysBarrier \cup {t}
      pc      == Goto(trolley_pc, t, Inside[trolley_pc[t]])
  IN
  /\ trolley_pc[t] \in {"depart", "ride", "final"}
  /\ trolley_pc' = IF Cardinality(arrived) < T
       THEN pc
       ELSE [u \in Trolley |-> IF u \in arrived THEN Beyond[pc[u]] ELSE pc[u]]
  /\ UNCHANGED <<passenger_pc, main_pc, trolley_of, n, shared, mutexes, button>>

-----------------------------------------------------------------------------
(* main, after it has created the threads                                  *)

JoinTrolleys ==
  /\ main_pc = "join_trolleys"
  /\ \A t \in Trolley : trolley_pc[t] = "done"
  /\ die' = TRUE
  /\ main_pc' = "wake_in"
  /\ UNCHANGED <<passenger_pc, trolley_pc, trolley_of, n, passengers,
                 current_trolley, allow_in, allow_out, mutexes, button>>

WakeIn ==
  /\ main_pc = "wake_in"
  /\ passenger_pc' = Woken(passenger_pc, "cond_in", "lock_in")
  /\ trolley_pc' = Woken(trolley_pc, "cond_take", "retest_take")
  /\ main_pc' = "wake_out"
  /\ UNCHANGED <<trolley_of, n, shared, mutexes, button>>

WakeOut ==
  /\ main_pc = "wake_out"
  /\ passenger_pc' = Woken(passenger_pc, "cond_out", "lock_out")
  /\ trolley_pc' = Woken(trolley_pc, "cond_drop", "retest_drop")
  /\ main_pc' = "free_button"
  /\ UNCHANGED <<trolley_of, n, shared, mutexes, button>>

FreeButton ==
  /\ main_pc = "free_button"
  /\ mutex_button_wait' = FALSE
  /\ main_pc' = "join_passengers"
  /\ UNCHANGED <<passenger_pc, trolley_pc, trolley_of, n, shared, mutexes,
                 mutex_button_press>>

JoinPassengers ==
  /\ main_pc = "join_passengers"
  /\ \A p \in Passengers : passenger_pc[p] = "done"
  /\ main_pc' = "exited"
  /\ UNCHANGED <<passenger_pc, trolley_pc, trolley_of, n, shared, mutexes,
                 button>>

-----------------------------------------------------------------------------
(* pthread_cond_wait may return although nobody signalled.                  *)

SpuriousPassenger(p) ==
  /\ SpuriousWakeups
  /\ \/ /\ passenger_pc[p] = "cond_in"
        /\ passenger_pc' = Goto(passenger_pc, p, "lock_in")
     \/ /\ passenger_pc[p] = "cond_out"
        /\ passenger_pc' = Goto(passenger_pc, p, "lock_out")
  /\ UNCHANGED <<trolley_pc, main_pc, trolley_of, n, shared, mutexes, button>>

SpuriousTrolley(t) ==
  /\ SpuriousWakeups
  /\ \/ /\ trolley_pc[t] = "cond_queue"
        /\ trolley_pc' = Goto(trolley_pc, t, "lock_queue")
     \/ /\ trolley_pc[t] = "cond_drop"
        /\ trolley_pc' = Goto(trolley_pc, t, "retest_drop")
     \/ /\ trolley_pc[t] = "cond_take"
        /\ trolley_pc' = Goto(trolley_pc, t, "retest_take")
  /\ UNCHANGED <<passenger_pc, main_pc, trolley_of, n, shared, mutexes, button>>

-----------------------------------------------------------------------------
PassengerStep(p) ==
  \/ AcquireIn(p) \/ WaitIn(p) \/ DismissedIn(p) \/ Board(p)
  \/ ReachBarrier(p) \/ PressButton(p)
  \/ AcquireOut(p) \/ WaitOut(p) \/ Leave(p)

TrolleyStep(t) ==
  \/ AcquireQueue(t) \/ WaitQueue(t)
  \/ OpenToLeave(t) \/ WaitDrop(t) \/ RetestDrop(t) \/ Dropped(t)
  \/ OpenToBoard(t) \/ WaitTake(t) \/ RetestTake(t) \/ Taken(t)
  \/ EnableButton(t) \/ AwaitPress(t) \/ Close(t) \/ ArriveAtBarrier(t)

MainStep == JoinTrolleys \/ WakeIn \/ WakeOut \/ FreeButton \/ JoinPassengers

Next ==
  \/ \E p \in Passengers : PassengerStep(p) \/ SpuriousPassenger(p)
  \/ \E t \in Trolley : TrolleyStep(t) \/ SpuriousTrolley(t)
  \/ MainStep

Spec == Init /\ [][Next]_vars

(* The scheduler keeps running every thread that can run.  Weak fairness of *)
(* each thread is enough: without spurious wakeups every thread takes       *)
(* finitely many steps, so no waiter of a mutex is overtaken for ever.      *)
FairSpec ==
  /\ Spec
  /\ \A p \in Passengers : WF_vars(PassengerStep(p))
  /\ \A t \in Trolley : WF_vars(TrolleyStep(t))
  /\ WF_vars(MainStep)

-----------------------------------------------------------------------------
(* What the state of a thread says about the locks it holds.                *)

HoldsQueue(t) ==
  trolley_pc[t] \notin {"lock_queue", "cond_queue", "depart", "in_depart",
                        "ride", "in_arrive", "final", "in_final", "done"}

AtStation(t) == HoldsQueue(t) /\ trolley_pc[t] # "to_wait_queue"

PassengerHoldsIn(p)  == passenger_pc[p] \in {"to_wait_in", "body_in"}
PassengerHoldsOut(p) == passenger_pc[p] \in {"to_wait_out", "body_out"}
TrolleyHoldsIn(t)    == trolley_pc[t] \in {"to_wait_take", "taken"}
TrolleyHoldsOut(t)   == trolley_pc[t] \in {"to_wait_drop", "dropped"}

Unloading(t) ==
  trolley_pc[t] \in {"to_wait_drop", "cond_drop", "retest_drop", "dropped"}

Loading(t) ==
  trolley_pc[t] \in {"to_wait_take", "cond_take", "retest_take", "taken"}

(* The door has been shut on C passengers and they have not come back.      *)
Loaded(t) ==
  /\ trolley_pc[t] \in {"taken", "signal", "press", "close", "depart",
                        "in_depart", "ride", "in_arrive"}
  /\ n[t] <= N

Seated(pcs, trolleys, t) ==
  {p \in Passengers :
     /\ pcs[p] \in {"barrier", "in_barrier", "button", "lock_out",
                   "to_wait_out", "cond_out", "body_out"}
     /\ trolleys[p] = t}

Aboard(t) == Seated(passenger_pc, trolley_of, t)

-----------------------------------------------------------------------------
(* Safety                                                                  *)

(* Types; n never exceeds the N rides plus the visit that puts the trolley  *)
(* away, which is what makes the loop of trolley_routine end.               *)
TypeOK ==
  /\ passenger_pc \in [Passengers -> PassengerPC]
  /\ trolley_pc \in [Trolley -> TrolleyPC]
  /\ main_pc \in MainPC
  /\ trolley_of \in [Passengers -> Trolley]
  /\ passengers \in [Trolley -> Int]
  /\ n \in [Trolley -> 0 .. N + 1]
  /\ current_trolley \in Trolley
  /\ allow_in \in BOOLEAN /\ allow_out \in BOOLEAN /\ die \in BOOLEAN
  /\ mutex_queue \in BOOLEAN /\ mutex_in \in BOOLEAN /\ mutex_out \in BOOLEAN
  /\ mutex_button_wait \in BOOLEAN /\ mutex_button_press \in BOOLEAN

(* Each mutex protects its sections: no two threads are between a lock and  *)
(* the matching unlock or wait.                                             *)
MutexQueue ==
  /\ \A t \in Trolley : HoldsQueue(t) => mutex_queue
  /\ \A t, u \in Trolley : HoldsQueue(t) /\ HoldsQueue(u) => t = u

MutexIn ==
  /\ \A p \in Passengers : PassengerHoldsIn(p) => mutex_in
  /\ \A t \in Trolley : TrolleyHoldsIn(t) => mutex_in
  /\ \A p, q \in Passengers : PassengerHoldsIn(p) /\ PassengerHoldsIn(q) => p = q
  /\ \A p \in Passengers, t \in Trolley : ~(PassengerHoldsIn(p) /\ TrolleyHoldsIn(t))

MutexOut ==
  /\ \A p \in Passengers : PassengerHoldsOut(p) => mutex_out
  /\ \A t \in Trolley : TrolleyHoldsOut(t) => mutex_out
  /\ \A p, q \in Passengers : PassengerHoldsOut(p) /\ PassengerHoldsOut(q) => p = q
  /\ \A p \in Passengers, t \in Trolley : ~(PassengerHoldsOut(p) /\ TrolleyHoldsOut(t))

(* Whoever holds mutex_queue and has passed its test is the current trolley;*)
(* the flags the passengers test are up exactly while it loads or unloads.  *)
Doors ==
  /\ \A t \in Trolley : AtStation(t) => t = current_trolley
  /\ allow_in <=> Loading(current_trolley)
  /\ allow_out <=> Unloading(current_trolley)

(* What a passenger found true when it passed the test of its wait is still *)
(* true when it acts on it, although current_trolley and the seats of the   *)
(* trolleys are written under other mutexes.                                *)
TestsStillHold ==
  \A p \in Passengers :
    /\ passenger_pc[p] = "body_in" /\ ~die => CanBoard
    /\ passenger_pc[p] = "body_out" /\ ~die => CanLeave(p)

(* A trolley is never overloaded, leaves the station with all C seats taken,*)
(* and is put away empty.                                                   *)
Seats ==
  \A t \in Trolley :
    /\ passengers[t] \in 0 .. C
    /\ Loaded(t) => passengers[t] = C
    /\ (trolley_pc[t] = "dropped" \/ n[t] > N) => passengers[t] = 0

(* The counter of a trolley is the number of threads that are inside it.    *)
SeatsCount == \A t \in Trolley : passengers[t] = Cardinality(Aboard(t))

(* main dismisses the passengers only after the last trolley is put away,   *)
(* so nobody is thrown out of a moving trolley.                             *)
DieLast ==
  /\ die <=> main_pc # "join_trolleys"
  /\ die => \A t \in Trolley : trolley_pc[t] = "done"

(* The local n of a trolley_routine agrees with where the routine is.       *)
Rounds ==
  \A t \in Trolley :
    /\ trolley_pc[t] \in {"lock_queue", "to_wait_queue", "cond_queue"}
         => n[t] <= N
    /\ trolley_pc[t] \in {"drop", "to_wait_drop", "cond_drop", "retest_drop",
                          "dropped", "take", "to_wait_take", "cond_take",
                          "retest_take", "taken", "signal", "press", "depart",
                          "in_depart", "ride", "in_arrive"}
         => n[t] \in 1 .. N
    /\ trolley_pc[t] = "close" => n[t] >= 1
    /\ trolley_pc[t] \in {"final", "in_final", "done"} => n[t] = N + 1

(* The inductive invariant of the mutexes, the doors and the seats.         *)
StationInv ==
  /\ MutexQueue /\ MutexIn /\ MutexOut
  /\ Doors /\ TestsStillHold
  /\ Rounds /\ Seats /\ SeatsCount /\ DieLast

(* "synchronize trolleys so they depart simultaneously": while one trolley  *)
(* is under way, all are, on the same ride, each with C passengers none of  *)
(* whom is still on the way to the button, and no door is open.             *)
RideTogether ==
  \A t \in Trolley : trolley_pc[t] = "ride" =>
    /\ ~allow_in /\ ~allow_out
    /\ \A u \in Trolley :
         /\ trolley_pc[u] \in {"ride", "in_arrive"}
         /\ n[u] = n[t]
         /\ Cardinality(Aboard(u)) = C
         /\ \A p \in Aboard(u) :
              passenger_pc[p] \in {"lock_out", "to_wait_out", "cond_out"}

(* "wait for start button press": a trolley that closes its door has C      *)
(* passengers, all through the barrier, and one of them has pressed the     *)
(* button this time; the button is locked again for the next trolley.       *)
ButtonPressed ==
  \A t \in Trolley : trolley_pc[t] = "close" /\ n[t] <= N =>
    /\ mutex_button_wait /\ mutex_button_press
    /\ \A p \in Passengers :
         passenger_pc[p] \notin {"barrier", "in_barrier", "button"}

(* Trolleys serve the platform in order: a trolley is at most one round     *)
(* ahead, and never behind a trolley with a higher number.                  *)
InOrder ==
  \A t, u \in Trolley : t < u => n[t] - n[u] \in 0 .. 1

-----------------------------------------------------------------------------
(* Action properties                                                       *)

(* Seats change only in the trolley at the station, through the open door,  *)
(* one passenger at a time.                                                 *)
OnlyThroughTheOpenDoor ==
  [][\A t \in Trolley : passengers'[t] # passengers[t] =>
       /\ t = current_trolley
       /\ \/ allow_in /\ passengers'[t] = passengers[t] + 1
          \/ allow_out /\ passengers'[t] = passengers[t] - 1]_vars

-----------------------------------------------------------------------------
(* The program implements the abstract roller coaster.                      *)

StageOf(t) ==
  IF trolley_pc[t] \in {"depart", "in_depart", "ride", "in_arrive"} THEN "track"
  ELSE IF trolley_pc[t] \in {"final", "in_final", "done"} THEN "finished"
  ELSE IF \/ trolley_pc[t] \in {"take", "signal", "press"} \/ Loading(t)
          \/ trolley_pc[t] = "close" /\ n[t] <= N THEN "load"
  ELSE "unload"

UnderWay == \E t \in Trolley : trolley_pc[t] \in {"ride", "in_arrive"}

(* The last trolley is the last to have its n incremented.                  *)
RidesStarted ==
  IF n[T - 1] > N \/ (StageOf(T - 1) # "unload" /\ ~UnderWay)
    THEN n[T - 1] - 1
    ELSE n[T - 1]

RC == INSTANCE RollerCoaster WITH
        stage  <- [t \in Trolley |-> StageOf(t)],
        riders <- [t \in Trolley |-> Aboard(t)],
        riding <- UnderWay,
        rides  <- RidesStarted

(* Every behaviour of the threads is a behaviour of the roller coaster.     *)
ImplementsRollerCoaster == RC!Spec

-----------------------------------------------------------------------------
(* Liveness, under FairSpec                                                *)

(* All the rides take place: every trolley thread ends after N rides, and   *)
(* main gets through its joins of the trolleys.                             *)
EveryRideHappens == <>(die /\ \A t \in Trolley : n[t] = N + 1)

(* A passenger who has got in always gets out again.                        *)
EverybodyGetsOut ==
  \A p \in Passengers :
    (\E t \in Trolley : p \in Aboard(t)) ~> (\A t \in Trolley : p \notin Aboard(t))

(* "kill passengers ... wait for passenger threads": main ends every        *)
(* passenger thread and exits.                                              *)
EveryThreadEnds == <>(main_pc = "exited")
=============================================================================
