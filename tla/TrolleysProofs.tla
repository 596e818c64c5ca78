--------------------------- MODULE TrolleysProofs ---------------------------
(***************************************************************************)
(* The mutexes, doors and seats of module Trolleys, for any number of      *)
(* passengers, trolleys, seats and rides.                                  *)
(*                                                                         *)
(* Inv, the conjunction of TypeOK and StationInv, is inductive.  There is  *)
(* one lemma per conjunct: which other conjuncts its preservation needs is *)
(* what its ASSUME says.                                                   *)
(***************************************************************************)
EXTENDS Trolleys, FiniteSetTheorems, TLAPS

Inv == TypeOK /\ StationInv

LEMMA Parameters ==
  /\ T \in Nat /\ T >= 1
  /\ C \in Nat /\ C >= 1
  /\ N \in Nat /\ N >= 1
  /\ SpuriousWakeups \in BOOLEAN
  BY ArgumentsAssumption DEF ArgumentsAssumption

(* The initial state satisfies the invariant.                               *)
LEMMA InitInv == Init => Inv
<1> SUFFICES ASSUME Init PROVE Inv
  OBVIOUS
<1> USE Parameters DEF Init
<1>1. TypeOK
  <2>1. passenger_pc \in [Passengers -> PassengerPC]
    BY DEF PassengerPC
  <2>2. trolley_pc \in [Trolley -> TrolleyPC]
    BY DEF TrolleyPC
  <2>3. main_pc \in MainPC
    BY DEF MainPC
  <2>4. trolley_of \in [Passengers -> Trolley] /\ current_trolley \in Trolley
    BY DEF Trolley
  <2>5. passengers \in [Trolley -> Int] /\ n \in [Trolley -> 0 .. N + 1]
    OBVIOUS
  <2> QED BY <2>1, <2>2, <2>3, <2>4, <2>5 DEF TypeOK
<1>2. MutexQueue /\ MutexIn /\ MutexOut
  BY DEF MutexQueue, MutexIn, MutexOut, HoldsQueue, PassengerHoldsIn,
         PassengerHoldsOut, TrolleyHoldsIn, TrolleyHoldsOut
<1>3. Doors
  BY <1>1 DEF TypeOK, Doors, AtStation, HoldsQueue, Loading, Unloading
<1>4. TestsStillHold /\ Rounds /\ DieLast
  BY DEF TestsStillHold, Rounds, DieLast
<1>5. Seats
  BY DEF Seats, Loaded
<1>6. SeatsCount
  <2>1. \A t \in Trolley : Aboard(t) = {}
    BY DEF Aboard, Seated
  <2> QED BY <2>1, FS_EmptySet DEF SeatsCount
<1> QED BY <1>1, <1>2, <1>3, <1>4, <1>5, <1>6 DEF Inv, StationInv

(* The types, given where each trolley is in its rounds.                    *)
LEMMA TypeOKNext ==
  ASSUME TypeOK, Rounds, [Next]_vars
  PROVE TypeOK'
<1> USE Parameters DEF TypeOK, Trolley, PassengerPC, TrolleyPC, MainPC, Goto,
   Woken, shared, mutexes, button
<1>1. ASSUME NEW p \in Passengers, PassengerStep(p) PROVE TypeOK'
  <2>1. CASE AcquireIn(p)
    BY <2>1 DEF AcquireIn
  <2>2. CASE WaitIn(p)
    BY <2>2 DEF WaitIn
  <2>3. CASE DismissedIn(p)
    BY <2>3 DEF DismissedIn
  <2>4. CASE Board(p)
    <3>1. passengers' \in [Trolley -> Int] /\ trolley_of' \in [Passengers -> Trolley]
      BY <2>4 DEF Board
    <3>2. passenger_pc' \in [Passengers -> PassengerPC]
      BY <2>4 DEF Board
    <3>3. trolley_pc' \in [Trolley -> TrolleyPC]
      BY <2>4 DEF Board
    <3> QED BY <2>4, <3>1, <3>2, <3>3 DEF Board
  <2>5. CASE ReachBarrier(p)
    BY <2>5 DEF ReachBarrier, AtPassengersBarrier
  <2>6. CASE PressButton(p)
    BY <2>6 DEF PressButton
  <2>7. CASE AcquireOut(p)
    BY <2>7 DEF AcquireOut
  <2>8. CASE WaitOut(p)
    BY <2>8 DEF WaitOut
  <2>9. CASE Leave(p)
    <3>1. passengers' \in [Trolley -> Int]
      BY <2>9 DEF Leave
    <3>2. passenger_pc' \in [Passengers -> PassengerPC]
      BY <2>9 DEF Leave
    <3>3. trolley_pc' \in [Trolley -> TrolleyPC]
      BY <2>9 DEF Leave
    <3> QED BY <2>9, <3>1, <3>2, <3>3 DEF Leave
  <2> QED BY <1>1, <2>1, <2>2, <2>3, <2>4, <2>5, <2>6, <2>7, <2>8, <2>9 DEF
     PassengerStep
<1>2. ASSUME NEW t \in Trolley, TrolleyStep(t) PROVE TypeOK'
  <2>1. CASE AcquireQueue(t)
    <3>1. n' \in [Trolley -> 0 .. N + 1]
      BY <2>1, SMTT(30) DEF AcquireQueue
    <3>2. trolley_pc' \in [Trolley -> TrolleyPC]
      BY <2>1 DEF AcquireQueue
    <3> QED BY <2>1, <3>1, <3>2 DEF AcquireQueue
  <2>2. CASE WaitQueue(t)
    BY <2>2 DEF WaitQueue
  <2>3. CASE OpenToLeave(t)
    BY <2>3 DEF OpenToLeave, Emptied
  <2>4. CASE WaitDrop(t)
    BY <2>4 DEF WaitDrop
  <2>5. CASE RetestDrop(t)
    BY <2>5 DEF RetestDrop, Emptied
  <2>6. CASE Dropped(t)
    <3>1. n[t] \in 1 .. N
      BY <2>6 DEF Dropped, Rounds
    <3>2. n' \in [Trolley -> 0 .. N + 1]
      BY <2>6, <3>1 DEF Dropped
    <3>3. trolley_pc' \in [Trolley -> TrolleyPC]
      BY <2>6 DEF Dropped
    <3> QED BY <2>6, <3>1, <3>2, <3>3 DEF Dropped
  <2>7. CASE OpenToBoard(t)
    BY <2>7 DEF OpenToBoard, Filled
  <2>8. CASE WaitTake(t)
    BY <2>8 DEF WaitTake
  <2>9. CASE RetestTake(t)
    BY <2>9 DEF RetestTake, Filled
  <2>10. CASE Taken(t)
    BY <2>10 DEF Taken
  <2>11. CASE EnableButton(t)
    BY <2>11 DEF EnableButton
  <2>12. CASE AwaitPress(t)
    BY <2>12 DEF AwaitPress
  <2>13. CASE Close(t)
    <3>1. (current_trolley + 1) % T \in Trolley
      OBVIOUS
    <3>2. trolley_pc' \in [Trolley -> TrolleyPC]
      BY <2>13 DEF Close
    <3> QED BY <2>13, <3>1, <3>2 DEF Close
  <2>14. CASE ArriveAtBarrier(t)
    BY <2>14 DEF ArriveAtBarrier, AtTrolleysBarrier, Inside, Beyond
  <2> QED BY <1>2, <2>1, <2>2, <2>3, <2>4, <2>5, <2>6, <2>7, <2>8, <2>9, <2>10,
     <2>11, <2>12, <2>13, <2>14 DEF TrolleyStep
<1>3. CASE MainStep
  <2>1. CASE JoinTrolleys
    BY <2>1 DEF JoinTrolleys
  <2>2. CASE WakeIn
    BY <2>2 DEF WakeIn
  <2>3. CASE WakeOut
    BY <2>3 DEF WakeOut
  <2>4. CASE FreeButton
    BY <2>4 DEF FreeButton
  <2>5. CASE JoinPassengers
    BY <2>5 DEF JoinPassengers
  <2> QED BY <1>3, <2>1, <2>2, <2>3, <2>4, <2>5 DEF MainStep
<1>4. ASSUME NEW p \in Passengers, SpuriousPassenger(p) PROVE TypeOK'
  <2>1. passenger_pc' \in [Passengers -> PassengerPC]
    BY <1>4 DEF SpuriousPassenger
  <2> QED BY <1>4, <2>1 DEF SpuriousPassenger
<1>5. ASSUME NEW t \in Trolley, SpuriousTrolley(t) PROVE TypeOK'
  <2>1. trolley_pc' \in [Trolley -> TrolleyPC]
    BY <1>5 DEF SpuriousTrolley
  <2> QED BY <1>5, <2>1 DEF SpuriousTrolley
<1>6. CASE UNCHANGED vars
  BY <1>6 DEF vars
<1> QED BY <1>1, <1>2, <1>3, <1>4, <1>5, <1>6 DEF Next

(* n is at most N wherever a trolley goes round again.                      *)
LEMMA RoundsNext ==
  ASSUME TypeOK, Rounds, [Next]_vars
  PROVE Rounds'
<1> USE Parameters DEF TypeOK, Trolley, TrolleyPC, Rounds, Goto, Woken, shared,
   mutexes, button
<1>1. ASSUME NEW p \in Passengers, PassengerStep(p) PROVE Rounds'
  <2>1. CASE AcquireIn(p)
    BY <2>1 DEF AcquireIn
  <2>2. CASE WaitIn(p)
    BY <2>2 DEF WaitIn
  <2>3. CASE DismissedIn(p)
    BY <2>3 DEF DismissedIn
  <2>4. CASE Board(p)
    BY <2>4 DEF Board
  <2>5. CASE ReachBarrier(p)
    BY <2>5 DEF ReachBarrier, AtPassengersBarrier
  <2>6. CASE PressButton(p)
    BY <2>6 DEF PressButton
  <2>7. CASE AcquireOut(p)
    BY <2>7 DEF AcquireOut
  <2>8. CASE WaitOut(p)
    BY <2>8 DEF WaitOut
  <2>9. CASE Leave(p)
    <3>1. CASE die
      BY <2>9, <3>1 DEF Leave
    <3>2. CASE ~die
      BY <2>9, <3>2 DEF Leave
    <3> QED BY <3>1, <3>2
  <2> QED BY <1>1, <2>1, <2>2, <2>3, <2>4, <2>5, <2>6, <2>7, <2>8, <2>9 DEF
     PassengerStep
<1>2. ASSUME NEW t \in Trolley, TrolleyStep(t) PROVE Rounds'
  <2>1. CASE AcquireQueue(t)
    <3>1. CASE current_trolley # t
      BY <2>1, <3>1 DEF AcquireQueue
    <3>2. CASE current_trolley = t /\ n[t] # 0
      BY <2>1, <3>2, SMTT(30) DEF AcquireQueue
    <3>3. CASE current_trolley = t /\ n[t] = 0
      <4>1. /\ trolley_pc'[t] = "take" /\ n'[t] = 1
            /\ \A u \in Trolley \ {t} : trolley_pc'[u] = trolley_pc[u] /\ n'[u] = n[u]
        BY <2>1, <3>3 DEF AcquireQueue
      <4>2. 1 \in 1 .. N
        OBVIOUS
      <4> HIDE Parameters DEF TypeOK, Trolley, TrolleyPC
      <4> QED BY <4>1, <4>2
    <3> QED BY <3>1, <3>2, <3>3
  <2>2. CASE WaitQueue(t)
    BY <2>2 DEF WaitQueue
  <2>3. CASE OpenToLeave(t)
    BY <2>3 DEF OpenToLeave, Emptied
  <2>4. CASE WaitDrop(t)
    BY <2>4 DEF WaitDrop
  <2>5. CASE RetestDrop(t)
    BY <2>5 DEF RetestDrop, Emptied
  <2>6. CASE Dropped(t)
    BY <2>6 DEF Dropped
  <2>7. CASE OpenToBoard(t)
    BY <2>7 DEF OpenToBoard, Filled
  <2>8. CASE WaitTake(t)
    BY <2>8 DEF WaitTake
  <2>9. CASE RetestTake(t)
    BY <2>9 DEF RetestTake, Filled
  <2>10. CASE Taken(t)
    BY <2>10 DEF Taken
  <2>11. CASE EnableButton(t)
    BY <2>11 DEF EnableButton
  <2>12. CASE AwaitPress(t)
    BY <2>12 DEF AwaitPress
  <2>13. CASE Close(t)
    <3>1. UNCHANGED n
      BY <2>13 DEF Close
    <3>2. \A u \in Trolley :
            trolley_pc'[u] = IF u = t THEN (IF n[t] > N THEN "final" ELSE "depart")
                             ELSE IF trolley_pc[u] = "cond_queue" THEN "lock_queue"
                             ELSE trolley_pc[u]
      BY <2>13 DEF Close
    <3> QED BY <2>13, <3>1, <3>2 DEF Close
  <2>14. CASE ArriveAtBarrier(t)
    <3>1. UNCHANGED n
      BY <2>14 DEF ArriveAtBarrier
    <3>2. \A u \in Trolley :
            \/ trolley_pc'[u] = trolley_pc[u]
            \/ /\ trolley_pc[u] \in {"depart", "in_depart", "ride", "in_arrive"}
               /\ trolley_pc'[u] \in {"in_depart", "ride", "in_arrive", "lock_queue"}
            \/ /\ trolley_pc[u] \in {"final", "in_final"}
               /\ trolley_pc'[u] \in {"in_final", "done"}
      BY <2>14 DEF ArriveAtBarrier, AtTrolleysBarrier, Inside, Beyond
    <3> QED BY <3>1, <3>2
  <2> QED BY <1>2, <2>1, <2>2, <2>3, <2>4, <2>5, <2>6, <2>7, <2>8, <2>9, <2>10,
     <2>11, <2>12, <2>13, <2>14 DEF TrolleyStep
<1>3. CASE MainStep
  <2>1. CASE JoinTrolleys
    BY <2>1 DEF JoinTrolleys
  <2>2. CASE WakeIn
    BY <2>2 DEF WakeIn
  <2>3. CASE WakeOut
    BY <2>3 DEF WakeOut
  <2>4. CASE FreeButton
    BY <2>4 DEF FreeButton
  <2>5. CASE JoinPassengers
    BY <2>5 DEF JoinPassengers
  <2> QED BY <1>3, <2>1, <2>2, <2>3, <2>4, <2>5 DEF MainStep
<1>4. ASSUME NEW p \in Passengers, SpuriousPassenger(p) PROVE Rounds'
  BY <1>4 DEF SpuriousPassenger
<1>5. ASSUME NEW t \in Trolley, SpuriousTrolley(t) PROVE Rounds'
  <2>1. CASE trolley_pc[t] = "cond_queue"
    BY <1>5, <2>1 DEF SpuriousTrolley
  <2>2. CASE trolley_pc[t] # "cond_queue"
    BY <1>5, <2>2 DEF SpuriousTrolley
  <2> QED BY <2>1, <2>2
<1>6. CASE UNCHANGED vars
  BY <1>6 DEF vars
<1> QED BY <1>1, <1>2, <1>3, <1>4, <1>5, <1>6 DEF Next

(* Once main has set die no trolley takes a step.                           *)
LEMMA DieLastNext ==
  ASSUME TypeOK, DieLast, [Next]_vars
  PROVE DieLast'
<1> USE DEF DieLast, TypeOK, Goto, Woken, shared, mutexes, button, MainPC
<1>1. ASSUME NEW p \in Passengers, PassengerStep(p) PROVE DieLast'
  <2>1. CASE AcquireIn(p)
    BY <2>1 DEF AcquireIn
  <2>2. CASE WaitIn(p)
    BY <2>2 DEF WaitIn
  <2>3. CASE DismissedIn(p)
    BY <2>3 DEF DismissedIn
  <2>4. CASE Board(p)
    BY <2>4 DEF Board
  <2>5. CASE ReachBarrier(p)
    BY <2>5 DEF ReachBarrier, AtPassengersBarrier
  <2>6. CASE PressButton(p)
    BY <2>6 DEF PressButton
  <2>7. CASE AcquireOut(p)
    BY <2>7 DEF AcquireOut
  <2>8. CASE WaitOut(p)
    BY <2>8 DEF WaitOut
  <2>9. CASE Leave(p)
    BY <2>9 DEF Leave
  <2> QED BY <1>1, <2>1, <2>2, <2>3, <2>4, <2>5, <2>6, <2>7, <2>8, <2>9 DEF
     PassengerStep
<1>2. ASSUME NEW t \in Trolley, TrolleyStep(t) PROVE DieLast'
  <2>1. CASE AcquireQueue(t)
    BY <2>1 DEF AcquireQueue
  <2>2. CASE WaitQueue(t)
    BY <2>2 DEF WaitQueue
  <2>3. CASE OpenToLeave(t)
    BY <2>3 DEF OpenToLeave, Emptied
  <2>4. CASE WaitDrop(t)
    BY <2>4 DEF WaitDrop
  <2>5. CASE RetestDrop(t)
    BY <2>5 DEF RetestDrop, Emptied
  <2>6. CASE Dropped(t)
    BY <2>6 DEF Dropped
  <2>7. CASE OpenToBoard(t)
    BY <2>7 DEF OpenToBoard, Filled
  <2>8. CASE WaitTake(t)
    BY <2>8 DEF WaitTake
  <2>9. CASE RetestTake(t)
    BY <2>9 DEF RetestTake, Filled
  <2>10. CASE Taken(t)
    BY <2>10 DEF Taken
  <2>11. CASE EnableButton(t)
    BY <2>11 DEF EnableButton
  <2>12. CASE AwaitPress(t)
    BY <2>12 DEF AwaitPress
  <2>13. CASE Close(t)
    BY <2>13 DEF Close
  <2>14. CASE ArriveAtBarrier(t)
    BY <2>14 DEF ArriveAtBarrier, AtTrolleysBarrier, Inside, Beyond
  <2> QED BY <1>2, <2>1, <2>2, <2>3, <2>4, <2>5, <2>6, <2>7, <2>8, <2>9, <2>10,
     <2>11, <2>12, <2>13, <2>14 DEF TrolleyStep
<1>3. CASE MainStep
  <2>1. CASE JoinTrolleys
    BY <2>1 DEF JoinTrolleys
  <2>2. CASE WakeIn
    BY <2>2 DEF WakeIn
  <2>3. CASE WakeOut
    BY <2>3 DEF WakeOut
  <2>4. CASE FreeButton
    BY <2>4 DEF FreeButton
  <2>5. CASE JoinPassengers
    BY <2>5 DEF JoinPassengers
  <2> QED BY <1>3, <2>1, <2>2, <2>3, <2>4, <2>5 DEF MainStep
<1>4. ASSUME NEW p \in Passengers, SpuriousPassenger(p) PROVE DieLast'
  BY <1>4 DEF SpuriousPassenger
<1>5. ASSUME NEW t \in Trolley, SpuriousTrolley(t) PROVE DieLast'
  BY <1>5 DEF SpuriousTrolley
<1>6. CASE UNCHANGED vars
  BY <1>6 DEF vars
<1> QED BY <1>1, <1>2, <1>3, <1>4, <1>5, <1>6 DEF Next

(* mutex_queue is held from the lock to the unlock or the wait.             *)
LEMMA MutexQueueNext ==
  ASSUME TypeOK, MutexQueue, [Next]_vars
  PROVE MutexQueue'
<1> USE DEF MutexQueue, HoldsQueue, TypeOK, Goto, Woken, shared, mutexes,
   button
<1>1. ASSUME NEW p \in Passengers, PassengerStep(p) PROVE MutexQueue'
  <2>1. CASE AcquireIn(p)
    BY <2>1 DEF AcquireIn
  <2>2. CASE WaitIn(p)
    BY <2>2 DEF WaitIn
  <2>3. CASE DismissedIn(p)
    BY <2>3 DEF DismissedIn
  <2>4. CASE Board(p)
    BY <2>4 DEF Board
  <2>5. CASE ReachBarrier(p)
    BY <2>5 DEF ReachBarrier, AtPassengersBarrier
  <2>6. CASE PressButton(p)
    BY <2>6 DEF PressButton
  <2>7. CASE AcquireOut(p)
    BY <2>7 DEF AcquireOut
  <2>8. CASE WaitOut(p)
    BY <2>8 DEF WaitOut
  <2>9. CASE Leave(p)
    BY <2>9 DEF Leave
  <2> QED BY <1>1, <2>1, <2>2, <2>3, <2>4, <2>5, <2>6, <2>7, <2>8, <2>9 DEF
     PassengerStep
<1>2. ASSUME NEW t \in Trolley, TrolleyStep(t) PROVE MutexQueue'
  <2>1. CASE AcquireQueue(t)
    BY <2>1 DEF AcquireQueue
  <2>2. CASE WaitQueue(t)
    BY <2>2 DEF WaitQueue
  <2>3. CASE OpenToLeave(t)
    BY <2>3 DEF OpenToLeave, Emptied
  <2>4. CASE WaitDrop(t)
    BY <2>4 DEF WaitDrop
  <2>5. CASE RetestDrop(t)
    BY <2>5 DEF RetestDrop, Emptied
  <2>6. CASE Dropped(t)
    BY <2>6 DEF Dropped
  <2>7. CASE OpenToBoard(t)
    BY <2>7 DEF OpenToBoard, Filled
  <2>8. CASE WaitTake(t)
    BY <2>8 DEF WaitTake
  <2>9. CASE RetestTake(t)
    BY <2>9 DEF RetestTake, Filled
  <2>10. CASE Taken(t)
    BY <2>10 DEF Taken
  <2>11. CASE EnableButton(t)
    BY <2>11 DEF EnableButton
  <2>12. CASE AwaitPress(t)
    BY <2>12 DEF AwaitPress
  <2>13. CASE Close(t)
    BY <2>13 DEF Close
  <2>14. CASE ArriveAtBarrier(t)
    BY <2>14 DEF ArriveAtBarrier, AtTrolleysBarrier, Inside, Beyond
  <2> QED BY <1>2, <2>1, <2>2, <2>3, <2>4, <2>5, <2>6, <2>7, <2>8, <2>9, <2>10,
     <2>11, <2>12, <2>13, <2>14 DEF TrolleyStep
<1>3. CASE MainStep
  <2>1. CASE JoinTrolleys
    BY <2>1 DEF JoinTrolleys
  <2>2. CASE WakeIn
    BY <2>2 DEF WakeIn
  <2>3. CASE WakeOut
    BY <2>3 DEF WakeOut
  <2>4. CASE FreeButton
    BY <2>4 DEF FreeButton
  <2>5. CASE JoinPassengers
    BY <2>5 DEF JoinPassengers
  <2> QED BY <1>3, <2>1, <2>2, <2>3, <2>4, <2>5 DEF MainStep
<1>4. ASSUME NEW p \in Passengers, SpuriousPassenger(p) PROVE MutexQueue'
  BY <1>4 DEF SpuriousPassenger
<1>5. ASSUME NEW t \in Trolley, SpuriousTrolley(t) PROVE MutexQueue'
  BY <1>5 DEF SpuriousTrolley
<1>6. CASE UNCHANGED vars
  BY <1>6 DEF vars
<1> QED BY <1>1, <1>2, <1>3, <1>4, <1>5, <1>6 DEF Next

(* mutex_in; two trolleys never compete for it, being inside mutex_queue.   *)
LEMMA MutexInNext ==
  ASSUME TypeOK, MutexQueue, MutexIn, [Next]_vars
  PROVE MutexIn'
<1> USE DEF MutexQueue, HoldsQueue, MutexIn, PassengerHoldsIn, TrolleyHoldsIn,
   TypeOK, Goto, Woken, shared, mutexes, button
<1>1. ASSUME NEW p \in Passengers, PassengerStep(p) PROVE MutexIn'
  <2>1. CASE AcquireIn(p)
    BY <2>1 DEF AcquireIn
  <2>2. CASE WaitIn(p)
    BY <2>2 DEF WaitIn
  <2>3. CASE DismissedIn(p)
    BY <2>3 DEF DismissedIn
  <2>4. CASE Board(p)
    BY <2>4 DEF Board
  <2>5. CASE ReachBarrier(p)
    BY <2>5 DEF ReachBarrier, AtPassengersBarrier
  <2>6. CASE PressButton(p)
    BY <2>6 DEF PressButton
  <2>7. CASE AcquireOut(p)
    BY <2>7 DEF AcquireOut
  <2>8. CASE WaitOut(p)
    BY <2>8 DEF WaitOut
  <2>9. CASE Leave(p)
    <3>1. /\ \A q \in Passengers :
               passenger_pc'[q] \in {passenger_pc[q], "lock_in", "lock_out", "done"}
          /\ \A t \in Trolley : trolley_pc'[t] \in {trolley_pc[t], "retest_drop"}
          /\ mutex_in' = mutex_in
      BY <2>9 DEF Leave
    <3> QED BY <3>1
  <2> QED BY <1>1, <2>1, <2>2, <2>3, <2>4, <2>5, <2>6, <2>7, <2>8, <2>9 DEF
     PassengerStep
<1>2. ASSUME NEW t \in Trolley, TrolleyStep(t) PROVE MutexIn'
  <2>1. CASE AcquireQueue(t)
    BY <2>1 DEF AcquireQueue
  <2>2. CASE WaitQueue(t)
    BY <2>2 DEF WaitQueue
  <2>3. CASE OpenToLeave(t)
    BY <2>3 DEF OpenToLeave, Emptied
  <2>4. CASE WaitDrop(t)
    BY <2>4 DEF WaitDrop
  <2>5. CASE RetestDrop(t)
    BY <2>5 DEF RetestDrop, Emptied
  <2>6. CASE Dropped(t)
    BY <2>6 DEF Dropped
  <2>7. CASE OpenToBoard(t)
    BY <2>7 DEF OpenToBoard, Filled
  <2>8. CASE WaitTake(t)
    BY <2>8 DEF WaitTake
  <2>9. CASE RetestTake(t)
    BY <2>9 DEF RetestTake, Filled
  <2>10. CASE Taken(t)
    BY <2>10 DEF Taken
  <2>11. CASE EnableButton(t)
    BY <2>11 DEF EnableButton
  <2>12. CASE AwaitPress(t)
    BY <2>12 DEF AwaitPress
  <2>13. CASE Close(t)
    BY <2>13 DEF Close
  <2>14. CASE ArriveAtBarrier(t)
    BY <2>14 DEF ArriveAtBarrier, AtTrolleysBarrier, Inside, Beyond
  <2> QED BY <1>2, <2>1, <2>2, <2>3, <2>4, <2>5, <2>6, <2>7, <2>8, <2>9, <2>10,
     <2>11, <2>12, <2>13, <2>14 DEF TrolleyStep
<1>3. CASE MainStep
  <2>1. CASE JoinTrolleys
    BY <2>1 DEF JoinTrolleys
  <2>2. CASE WakeIn
    BY <2>2 DEF WakeIn
  <2>3. CASE WakeOut
    BY <2>3 DEF WakeOut
  <2>4. CASE FreeButton
    BY <2>4 DEF FreeButton
  <2>5. CASE JoinPassengers
    BY <2>5 DEF JoinPassengers
  <2> QED BY <1>3, <2>1, <2>2, <2>3, <2>4, <2>5 DEF MainStep
<1>4. ASSUME NEW p \in Passengers, SpuriousPassenger(p) PROVE MutexIn'
  BY <1>4 DEF SpuriousPassenger
<1>5. ASSUME NEW t \in Trolley, SpuriousTrolley(t) PROVE MutexIn'
  BY <1>5 DEF SpuriousTrolley
<1>6. CASE UNCHANGED vars
  BY <1>6 DEF vars
<1> QED BY <1>1, <1>2, <1>3, <1>4, <1>5, <1>6 DEF Next

(* mutex_out, likewise.                                                     *)
LEMMA MutexOutNext ==
  ASSUME TypeOK, MutexQueue, MutexOut, [Next]_vars
  PROVE MutexOut'
<1> USE DEF MutexQueue, HoldsQueue, MutexOut, PassengerHoldsOut,
   TrolleyHoldsOut, TypeOK, Goto, Woken, shared, mutexes, button
<1>1. ASSUME NEW p \in Passengers, PassengerStep(p) PROVE MutexOut'
  <2>1. CASE AcquireIn(p)
    BY <2>1 DEF AcquireIn
  <2>2. CASE WaitIn(p)
    BY <2>2 DEF WaitIn
  <2>3. CASE DismissedIn(p)
    BY <2>3 DEF DismissedIn
  <2>4. CASE Board(p)
    BY <2>4 DEF Board
  <2>5. CASE ReachBarrier(p)
    BY <2>5 DEF ReachBarrier, AtPassengersBarrier
  <2>6. CASE PressButton(p)
    BY <2>6 DEF PressButton
  <2>7. CASE AcquireOut(p)
    BY <2>7 DEF AcquireOut
  <2>8. CASE WaitOut(p)
    BY <2>8 DEF WaitOut
  <2>9. CASE Leave(p)
    <3>1. CASE die
      BY <2>9, <3>1 DEF Leave
    <3>2. CASE ~die
      BY <2>9, <3>2 DEF Leave
    <3> QED BY <3>1, <3>2
  <2> QED BY <1>1, <2>1, <2>2, <2>3, <2>4, <2>5, <2>6, <2>7, <2>8, <2>9 DEF
     PassengerStep
<1>2. ASSUME NEW t \in Trolley, TrolleyStep(t) PROVE MutexOut'
  <2>1. CASE AcquireQueue(t)
    BY <2>1 DEF AcquireQueue
  <2>2. CASE WaitQueue(t)
    BY <2>2 DEF WaitQueue
  <2>3. CASE OpenToLeave(t)
    BY <2>3 DEF OpenToLeave, Emptied
  <2>4. CASE WaitDrop(t)
    BY <2>4 DEF WaitDrop
  <2>5. CASE RetestDrop(t)
    BY <2>5 DEF RetestDrop, Emptied
  <2>6. CASE Dropped(t)
    BY <2>6 DEF Dropped
  <2>7. CASE OpenToBoard(t)
    BY <2>7 DEF OpenToBoard, Filled
  <2>8. CASE WaitTake(t)
    BY <2>8 DEF WaitTake
  <2>9. CASE RetestTake(t)
    BY <2>9 DEF RetestTake, Filled
  <2>10. CASE Taken(t)
    BY <2>10 DEF Taken
  <2>11. CASE EnableButton(t)
    BY <2>11 DEF EnableButton
  <2>12. CASE AwaitPress(t)
    BY <2>12 DEF AwaitPress
  <2>13. CASE Close(t)
    BY <2>13 DEF Close
  <2>14. CASE ArriveAtBarrier(t)
    BY <2>14 DEF ArriveAtBarrier, AtTrolleysBarrier, Inside, Beyond
  <2> QED BY <1>2, <2>1, <2>2, <2>3, <2>4, <2>5, <2>6, <2>7, <2>8, <2>9, <2>10,
     <2>11, <2>12, <2>13, <2>14 DEF TrolleyStep
<1>3. CASE MainStep
  <2>1. CASE JoinTrolleys
    BY <2>1 DEF JoinTrolleys
  <2>2. CASE WakeIn
    BY <2>2 DEF WakeIn
  <2>3. CASE WakeOut
    BY <2>3 DEF WakeOut
  <2>4. CASE FreeButton
    BY <2>4 DEF FreeButton
  <2>5. CASE JoinPassengers
    BY <2>5 DEF JoinPassengers
  <2> QED BY <1>3, <2>1, <2>2, <2>3, <2>4, <2>5 DEF MainStep
<1>4. ASSUME NEW p \in Passengers, SpuriousPassenger(p) PROVE MutexOut'
  BY <1>4 DEF SpuriousPassenger
<1>5. ASSUME NEW t \in Trolley, SpuriousTrolley(t) PROVE MutexOut'
  BY <1>5 DEF SpuriousTrolley
<1>6. CASE UNCHANGED vars
  BY <1>6 DEF vars
<1> QED BY <1>1, <1>2, <1>3, <1>4, <1>5, <1>6 DEF Next

(* Only the holder of mutex_queue moves the doors and the station.          *)
LEMMA DoorsNext ==
  ASSUME TypeOK, MutexQueue, Doors, [Next]_vars
  PROVE Doors'
<1> USE DEF MutexQueue, HoldsQueue, Doors, AtStation, Loading, Unloading,
   TypeOK, Goto, Woken, shared, mutexes, button
<1>1. ASSUME NEW p \in Passengers, PassengerStep(p) PROVE Doors'
  <2>1. CASE AcquireIn(p)
    BY <2>1 DEF AcquireIn
  <2>2. CASE WaitIn(p)
    BY <2>2 DEF WaitIn
  <2>3. CASE DismissedIn(p)
    BY <2>3 DEF DismissedIn
  <2>4. CASE Board(p)
    BY <2>4 DEF Board
  <2>5. CASE ReachBarrier(p)
    BY <2>5 DEF ReachBarrier, AtPassengersBarrier
  <2>6. CASE PressButton(p)
    BY <2>6 DEF PressButton
  <2>7. CASE AcquireOut(p)
    BY <2>7 DEF AcquireOut
  <2>8. CASE WaitOut(p)
    BY <2>8 DEF WaitOut
  <2>9. CASE Leave(p)
    BY <2>9 DEF Leave
  <2> QED BY <1>1, <2>1, <2>2, <2>3, <2>4, <2>5, <2>6, <2>7, <2>8, <2>9 DEF
     PassengerStep
<1>2. ASSUME NEW t \in Trolley, TrolleyStep(t) PROVE Doors'
  <2>1. CASE AcquireQueue(t)
    BY <2>1 DEF AcquireQueue
  <2>2. CASE WaitQueue(t)
    BY <2>2 DEF WaitQueue
  <2>3. CASE OpenToLeave(t)
    BY <2>3 DEF OpenToLeave, Emptied
  <2>4. CASE WaitDrop(t)
    BY <2>4 DEF WaitDrop
  <2>5. CASE RetestDrop(t)
    BY <2>5 DEF RetestDrop, Emptied
  <2>6. CASE Dropped(t)
    BY <2>6 DEF Dropped
  <2>7. CASE OpenToBoard(t)
    BY <2>7 DEF OpenToBoard, Filled
  <2>8. CASE WaitTake(t)
    BY <2>8 DEF WaitTake
  <2>9. CASE RetestTake(t)
    BY <2>9 DEF RetestTake, Filled
  <2>10. CASE Taken(t)
    BY <2>10 DEF Taken
  <2>11. CASE EnableButton(t)
    BY <2>11 DEF EnableButton
  <2>12. CASE AwaitPress(t)
    BY <2>12 DEF AwaitPress
  <2>13. CASE Close(t)
    <3>1. t = current_trolley /\ ~allow_in /\ ~allow_out
      BY <2>13 DEF Close
    <3>2. \A u \in Trolley :
            trolley_pc'[u] \in IF u = t THEN {"final", "depart"}
                               ELSE {trolley_pc[u], "lock_queue"}
      BY <2>13 DEF Close
    <3>3. \A u \in Trolley : ~AtStation(u)'
      BY <2>13, <3>2 DEF Close
    <3>4. (current_trolley + 1) % T \in Trolley
      BY Parameters DEF Trolley
    <3>5. ~Loading(current_trolley)' /\ ~Unloading(current_trolley)'
      BY <2>13, <3>3, <3>4 DEF Close
    <3> QED BY <2>13, <3>1, <3>3, <3>5 DEF Close
  <2>14. CASE ArriveAtBarrier(t)
    BY <2>14 DEF ArriveAtBarrier, AtTrolleysBarrier, Inside, Beyond
  <2> QED BY <1>2, <2>1, <2>2, <2>3, <2>4, <2>5, <2>6, <2>7, <2>8, <2>9, <2>10,
     <2>11, <2>12, <2>13, <2>14 DEF TrolleyStep
<1>3. CASE MainStep
  <2>1. CASE JoinTrolleys
    BY <2>1 DEF JoinTrolleys
  <2>2. CASE WakeIn
    BY <2>2 DEF WakeIn
  <2>3. CASE WakeOut
    BY <2>3 DEF WakeOut
  <2>4. CASE FreeButton
    BY <2>4 DEF FreeButton
  <2>5. CASE JoinPassengers
    BY <2>5 DEF JoinPassengers
  <2> QED BY <1>3, <2>1, <2>2, <2>3, <2>4, <2>5 DEF MainStep
<1>4. ASSUME NEW p \in Passengers, SpuriousPassenger(p) PROVE Doors'
  BY <1>4 DEF SpuriousPassenger
<1>5. ASSUME NEW t \in Trolley, SpuriousTrolley(t) PROVE Doors'
  BY <1>5 DEF SpuriousTrolley
<1>6. CASE UNCHANGED vars
  BY <1>6 DEF vars
<1> QED BY <1>1, <1>2, <1>3, <1>4, <1>5, <1>6 DEF Next

(* What a passenger tested cannot change while it holds its mutex.          *)
LEMMA TestsStillHoldNext ==
  ASSUME TypeOK, MutexIn, MutexOut, Doors, TestsStillHold, [Next]_vars
  PROVE TestsStillHold'
<1> USE DEF MutexIn, PassengerHoldsIn, TrolleyHoldsIn, MutexOut,
   PassengerHoldsOut, TrolleyHoldsOut, Doors, HoldsQueue, AtStation, Loading,
   Unloading, TestsStillHold, CanBoard, CanLeave, TypeOK, Goto, Woken, shared,
   mutexes, button
<1>1. ASSUME NEW p \in Passengers, PassengerStep(p) PROVE TestsStillHold'
  <2>1. CASE AcquireIn(p)
    BY <2>1 DEF AcquireIn
  <2>2. CASE WaitIn(p)
    BY <2>2 DEF WaitIn
  <2>3. CASE DismissedIn(p)
    BY <2>3 DEF DismissedIn
  <2>4. CASE Board(p)
    BY <2>4 DEF Board
  <2>5. CASE ReachBarrier(p)
    BY <2>5 DEF ReachBarrier, AtPassengersBarrier
  <2>6. CASE PressButton(p)
    BY <2>6 DEF PressButton
  <2>7. CASE AcquireOut(p)
    BY <2>7 DEF AcquireOut
  <2>8. CASE WaitOut(p)
    BY <2>8 DEF WaitOut
  <2>9. CASE Leave(p)
    BY <2>9 DEF Leave
  <2> QED BY <1>1, <2>1, <2>2, <2>3, <2>4, <2>5, <2>6, <2>7, <2>8, <2>9 DEF
     PassengerStep
<1>2. ASSUME NEW t \in Trolley, TrolleyStep(t) PROVE TestsStillHold'
  <2>1. CASE AcquireQueue(t)
    BY <2>1 DEF AcquireQueue
  <2>2. CASE WaitQueue(t)
    BY <2>2 DEF WaitQueue
  <2>3. CASE OpenToLeave(t)
    BY <2>3 DEF OpenToLeave, Emptied
  <2>4. CASE WaitDrop(t)
    BY <2>4 DEF WaitDrop
  <2>5. CASE RetestDrop(t)
    BY <2>5 DEF RetestDrop, Emptied
  <2>6. CASE Dropped(t)
    BY <2>6 DEF Dropped
  <2>7. CASE OpenToBoard(t)
    BY <2>7 DEF OpenToBoard, Filled
  <2>8. CASE WaitTake(t)
    BY <2>8 DEF WaitTake
  <2>9. CASE RetestTake(t)
    BY <2>9 DEF RetestTake, Filled
  <2>10. CASE Taken(t)
    BY <2>10 DEF Taken
  <2>11. CASE EnableButton(t)
    BY <2>11 DEF EnableButton
  <2>12. CASE AwaitPress(t)
    BY <2>12 DEF AwaitPress
  <2>13. CASE Close(t)
    BY <2>13 DEF Close
  <2>14. CASE ArriveAtBarrier(t)
    BY <2>14 DEF ArriveAtBarrier, AtTrolleysBarrier, Inside, Beyond
  <2> QED BY <1>2, <2>1, <2>2, <2>3, <2>4, <2>5, <2>6, <2>7, <2>8, <2>9, <2>10,
     <2>11, <2>12, <2>13, <2>14 DEF TrolleyStep
<1>3. CASE MainStep
  <2>1. CASE JoinTrolleys
    BY <2>1 DEF JoinTrolleys
  <2>2. CASE WakeIn
    BY <2>2 DEF WakeIn
  <2>3. CASE WakeOut
    BY <2>3 DEF WakeOut
  <2>4. CASE FreeButton
    BY <2>4 DEF FreeButton
  <2>5. CASE JoinPassengers
    BY <2>5 DEF JoinPassengers
  <2> QED BY <1>3, <2>1, <2>2, <2>3, <2>4, <2>5 DEF MainStep
<1>4. ASSUME NEW p \in Passengers, SpuriousPassenger(p) PROVE TestsStillHold'
  BY <1>4 DEF SpuriousPassenger
<1>5. ASSUME NEW t \in Trolley, SpuriousTrolley(t) PROVE TestsStillHold'
  BY <1>5 DEF SpuriousTrolley
<1>6. CASE UNCHANGED vars
  BY <1>6 DEF vars
<1> QED BY <1>1, <1>2, <1>3, <1>4, <1>5, <1>6 DEF Next

(* Who is aboard after a boarding and after a leaving.                      *)
LEMMA AboardBoard ==
  ASSUME TypeOK, NEW p \in Passengers, Board(p)
  PROVE  /\ p \notin Aboard(current_trolley)
         /\ \A u \in Trolley : Aboard(u)' =
              IF u = current_trolley THEN Aboard(u) \cup {p} ELSE Aboard(u)
  BY DEF Board, Aboard, Seated, TypeOK, Goto, Woken

LEMMA AboardLeave ==
  ASSUME TypeOK, NEW p \in Passengers, Leave(p)
  PROVE  /\ p \in Aboard(trolley_of[p])
         /\ \A u \in Trolley : Aboard(u)' =
              IF u = trolley_of[p] THEN Aboard(u) \ {p} ELSE Aboard(u)
  BY DEF Leave, Aboard, Seated, TypeOK, Goto, Woken

(* A step other than a boarding or a leaving leaves everybody in his seat.  *)
SeatsKept == UNCHANGED passengers /\ \A u \in Trolley : Aboard(u)' = Aboard(u)

LEMMA AboardNext ==
  ASSUME TypeOK, [Next]_vars
  PROVE \/ \E p \in Passengers : Board(p) \/ Leave(p)
        \/ SeatsKept
<1> USE DEF SeatsKept, Aboard, Seated, TypeOK, Goto, Woken, shared, mutexes, button
<1>1. ASSUME NEW p \in Passengers, PassengerStep(p) PROVE Board(p) \/ Leave(p) \/ SeatsKept
  <2>1. CASE AcquireIn(p)
    BY <2>1 DEF AcquireIn
  <2>2. CASE WaitIn(p)
    BY <2>2 DEF WaitIn
  <2>3. CASE DismissedIn(p)
    BY <2>3 DEF DismissedIn
  <2>4. CASE Board(p)
    BY <2>4
  <2>5. CASE ReachBarrier(p)
    BY <2>5 DEF ReachBarrier, AtPassengersBarrier
  <2>6. CASE PressButton(p)
    BY <2>6 DEF PressButton
  <2>7. CASE AcquireOut(p)
    BY <2>7 DEF AcquireOut
  <2>8. CASE WaitOut(p)
    BY <2>8 DEF WaitOut
  <2>9. CASE Leave(p)
    BY <2>9
  <2> QED BY <1>1, <2>1, <2>2, <2>3, <2>4, <2>5, <2>6, <2>7, <2>8, <2>9 DEF
     PassengerStep
<1>2. ASSUME NEW t \in Trolley, TrolleyStep(t) PROVE SeatsKept
  <2>1. CASE AcquireQueue(t)
    BY <2>1 DEF AcquireQueue
  <2>2. CASE WaitQueue(t)
    BY <2>2 DEF WaitQueue
  <2>3. CASE OpenToLeave(t)
    BY <2>3 DEF OpenToLeave, Emptied
  <2>4. CASE WaitDrop(t)
    BY <2>4 DEF WaitDrop
  <2>5. CASE RetestDrop(t)
    BY <2>5 DEF RetestDrop, Emptied
  <2>6. CASE Dropped(t)
    BY <2>6 DEF Dropped
  <2>7. CASE OpenToBoard(t)
    BY <2>7 DEF OpenToBoard, Filled
  <2>8. CASE WaitTake(t)
    BY <2>8 DEF WaitTake
  <2>9. CASE RetestTake(t)
    BY <2>9 DEF RetestTake, Filled
  <2>10. CASE Taken(t)
    BY <2>10 DEF Taken
  <2>11. CASE EnableButton(t)
    BY <2>11 DEF EnableButton
  <2>12. CASE AwaitPress(t)
    BY <2>12 DEF AwaitPress
  <2>13. CASE Close(t)
    BY <2>13 DEF Close
  <2>14. CASE ArriveAtBarrier(t)
    BY <2>14 DEF ArriveAtBarrier, AtTrolleysBarrier, Inside, Beyond
  <2> QED BY <1>2, <2>1, <2>2, <2>3, <2>4, <2>5, <2>6, <2>7, <2>8, <2>9, <2>10,
     <2>11, <2>12, <2>13, <2>14 DEF TrolleyStep
<1>3. CASE MainStep
  <2>1. CASE JoinTrolleys
    BY <2>1 DEF JoinTrolleys
  <2>2. CASE WakeIn
    BY <2>2 DEF WakeIn
  <2>3. CASE WakeOut
    BY <2>3 DEF WakeOut
  <2>4. CASE FreeButton
    BY <2>4 DEF FreeButton
  <2>5. CASE JoinPassengers
    BY <2>5 DEF JoinPassengers
  <2> QED BY <1>3, <2>1, <2>2, <2>3, <2>4, <2>5 DEF MainStep
<1>4. ASSUME NEW p \in Passengers, SpuriousPassenger(p) PROVE SeatsKept
  BY <1>4 DEF SpuriousPassenger
<1>5. ASSUME NEW t \in Trolley, SpuriousTrolley(t) PROVE SeatsKept
  BY <1>5 DEF SpuriousTrolley
<1>6. CASE UNCHANGED vars
  BY <1>6 DEF vars
<1> QED BY <1>1, <1>2, <1>3, <1>4, <1>5, <1>6 DEF Next

(* A passenger boards the trolley at the station, which is loading and has   *)
(* a free seat.                                                              *)
LEMMA BoardFacts ==
  ASSUME Inv, NEW p \in Passengers, Board(p)
  PROVE  /\ allow_in /\ current_trolley \in Trolley
         /\ passengers[current_trolley] \in 0 .. C - 1
         /\ passengers' = [passengers EXCEPT ![current_trolley] = @ + 1]
         /\ trolley_pc[current_trolley] \in {"to_wait_take", "cond_take", "retest_take"}
         /\ n[current_trolley] \in 1 .. N
         /\ \A u \in Trolley : trolley_pc'[u] =
              IF trolley_pc[u] = "cond_take" THEN "retest_take" ELSE trolley_pc[u]
<1> USE Parameters
        DEF Inv, StationInv, TypeOK
<1>1. /\ ~die /\ CanBoard
      /\ passengers' = [passengers EXCEPT ![current_trolley] = @ + 1]
  BY DEF Board, TestsStillHold
<1>2. /\ allow_in
      /\ passengers[current_trolley] \in 0 .. C - 1
  BY <1>1 DEF CanBoard, Seats
<1>3. Loading(current_trolley) /\ trolley_pc[current_trolley] # "taken"
  BY <1>2 DEF Doors, MutexIn, PassengerHoldsIn, TrolleyHoldsIn, Board
<1>4. n[current_trolley] \in 1 .. N
  BY <1>3 DEF Loading, Rounds
<1>5. \A u \in Trolley : trolley_pc'[u] =
        IF trolley_pc[u] = "cond_take" THEN "retest_take" ELSE trolley_pc[u]
  BY DEF Board, Woken
<1> QED BY <1>1, <1>2, <1>3, <1>4, <1>5 DEF Loading

(* Nobody is aboard when die is set; a passenger leaves the trolley at the   *)
(* station, which is waiting for that.                                       *)
LEMMA LeaveFacts ==
  ASSUME Inv, NEW p \in Passengers, Leave(p)
  PROVE  /\ ~die /\ allow_out /\ trolley_of[p] = current_trolley
         /\ passengers[current_trolley] \in 1 .. C
         /\ passengers' = [passengers EXCEPT ![current_trolley] = @ - 1]
         /\ trolley_pc[current_trolley] \in {"to_wait_drop", "cond_drop", "retest_drop"}
         /\ n[current_trolley] \in 1 .. N
         /\ \A u \in Trolley : trolley_pc'[u] =
              IF trolley_pc[u] = "cond_drop" THEN "retest_drop" ELSE trolley_pc[u]
<1> DEFINE t == trolley_of[p]
<1> USE Parameters
        DEF Inv, StationInv, TypeOK
<1>1. t \in Trolley /\ p \in Aboard(t) /\ Aboard(t) \in SUBSET Passengers
  BY DEF Leave, Aboard, Seated
<1>2. IsFiniteSet(Aboard(t))
  BY <1>1, FS_Subset, ArgumentsAssumption DEF ArgumentsAssumption
<1>3. passengers[t] \in 1 .. C
  <2>1. Cardinality(Aboard(t)) # 0
    BY <1>1, <1>2, FS_EmptySet
  <2> QED BY <1>1, <2>1 DEF SeatsCount, Seats
<1>4. ~die
  <2> SUFFICES ASSUME die PROVE FALSE
    OBVIOUS
  <2>1. n[t] = N + 1
    BY <1>1 DEF DieLast, Rounds
  <2> QED BY <1>1, <1>3, <2>1 DEF Seats
<1>5. allow_out /\ t = current_trolley
  BY <1>4 DEF Leave, TestsStillHold, CanLeave
<1>6. Unloading(current_trolley) /\ trolley_pc[current_trolley] # "dropped"
  BY <1>5 DEF Doors, MutexOut, PassengerHoldsOut, TrolleyHoldsOut, Leave
<1>7. n[current_trolley] \in 1 .. N
  BY <1>6 DEF Unloading, Rounds
<1>8. /\ passengers' = [passengers EXCEPT ![t] = @ - 1]
      /\ \A u \in Trolley : trolley_pc'[u] =
           IF trolley_pc[u] = "cond_drop" THEN "retest_drop" ELSE trolley_pc[u]
  BY <1>4 DEF Leave, Woken
<1> QED BY <1>3, <1>4, <1>5, <1>6, <1>7, <1>8 DEF Unloading

LEMMA SeatsCountNext ==
  ASSUME Inv, [Next]_vars
  PROVE  SeatsCount'
<1>1. TypeOK /\ current_trolley \in Trolley /\ passengers \in [Trolley -> Int]
  BY DEF Inv, StationInv, TypeOK
<1>2. \A u \in Trolley : passengers[u] = Cardinality(Aboard(u))
  BY DEF Inv, StationInv, SeatsCount
<1>3. \A u \in Trolley : IsFiniteSet(Aboard(u))
  BY FS_Subset, ArgumentsAssumption DEF ArgumentsAssumption, Aboard, Seated
<1>4. ASSUME NEW p \in Passengers, Board(p) PROVE SeatsCount'
  <2>1. /\ p \notin Aboard(current_trolley)
        /\ \A u \in Trolley : Aboard(u)' =
             IF u = current_trolley THEN Aboard(u) \cup {p} ELSE Aboard(u)
    BY <1>1, <1>4, AboardBoard
  <2>2. Cardinality(Aboard(current_trolley) \cup {p}) = passengers[current_trolley] + 1
    BY <1>1, <1>2, <1>3, <2>1, FS_AddElement
  <2>3. passengers' = [passengers EXCEPT ![current_trolley] = @ + 1]
    BY <1>4, BoardFacts
  <2>4. ASSUME NEW u \in Trolley PROVE passengers'[u] = Cardinality(Aboard(u)')
    BY <1>1, <1>2, <2>1, <2>2, <2>3
  <2> QED BY <2>4 DEF SeatsCount
<1>5. ASSUME NEW p \in Passengers, Leave(p) PROVE SeatsCount'
  <2>1. /\ trolley_of[p] = current_trolley
        /\ passengers' = [passengers EXCEPT ![current_trolley] = @ - 1]
    BY <1>5, LeaveFacts
  <2>2. /\ p \in Aboard(current_trolley)
        /\ \A u \in Trolley : Aboard(u)' =
             IF u = current_trolley THEN Aboard(u) \ {p} ELSE Aboard(u)
    BY <1>1, <1>5, <2>1, AboardLeave
  <2>3. Cardinality(Aboard(current_trolley) \ {p}) = passengers[current_trolley] - 1
    BY <1>1, <1>2, <1>3, <2>2, FS_RemoveElement
  <2>4. ASSUME NEW u \in Trolley PROVE passengers'[u] = Cardinality(Aboard(u)')
    BY <1>1, <1>2, <2>1, <2>2, <2>3
  <2> QED BY <2>4 DEF SeatsCount
<1>6. CASE SeatsKept
  BY <1>2, <1>6 DEF SeatsKept, SeatsCount
<1> QED BY <1>1, <1>4, <1>5, <1>6, AboardNext

(* No trolley is overloaded, leaves with a free seat or is put away with    *)
(* somebody inside.                                                         *)
LEMMA SeatsNext ==
  ASSUME Inv, [Next]_vars
  PROVE Seats'
<1> USE Parameters DEF Inv, StationInv, MutexQueue, HoldsQueue, Doors, AtStation,
   Loading, Unloading, Rounds, Seats, Loaded, TypeOK, Goto, Woken, shared,
   mutexes, button
<1>1. ASSUME NEW p \in Passengers, PassengerStep(p) PROVE Seats'
  <2>1. CASE AcquireIn(p)
    BY <2>1 DEF AcquireIn
  <2>2. CASE WaitIn(p)
    BY <2>2 DEF WaitIn
  <2>3. CASE DismissedIn(p)
    BY <2>3 DEF DismissedIn
  <2>4. CASE Board(p)
    <3>1. /\ n' = n /\ current_trolley \in Trolley
          /\ passengers[current_trolley] \in 0 .. C - 1
          /\ passengers' = [passengers EXCEPT ![current_trolley] = @ + 1]
          /\ trolley_pc[current_trolley] \in {"to_wait_take", "cond_take", "retest_take"}
          /\ n[current_trolley] \in 1 .. N
          /\ \A u \in Trolley : trolley_pc'[u] =
               IF trolley_pc[u] = "cond_take" THEN "retest_take" ELSE trolley_pc[u]
      <4>1. n' = n
        BY <2>4 DEF Board
      <4> HIDE DEF Inv
      <4> QED BY <2>4, <4>1, BoardFacts
    <3> QED BY <3>1
  <2>5. CASE ReachBarrier(p)
    BY <2>5 DEF ReachBarrier, AtPassengersBarrier
  <2>6. CASE PressButton(p)
    BY <2>6 DEF PressButton
  <2>7. CASE AcquireOut(p)
    BY <2>7 DEF AcquireOut
  <2>8. CASE WaitOut(p)
    BY <2>8 DEF WaitOut
  <2>9. CASE Leave(p)
    <3>1. /\ n' = n /\ current_trolley \in Trolley
          /\ passengers[current_trolley] \in 1 .. C
          /\ passengers' = [passengers EXCEPT ![current_trolley] = @ - 1]
          /\ trolley_pc[current_trolley] \in {"to_wait_drop", "cond_drop", "retest_drop"}
          /\ n[current_trolley] \in 1 .. N
          /\ \A u \in Trolley : trolley_pc'[u] =
               IF trolley_pc[u] = "cond_drop" THEN "retest_drop" ELSE trolley_pc[u]
      <4>1. n' = n /\ current_trolley \in Trolley
        BY <2>9 DEF Leave
      <4> HIDE DEF Inv
      <4> QED BY <2>9, <4>1, LeaveFacts
    <3> QED BY <3>1
  <2> QED BY <1>1, <2>1, <2>2, <2>3, <2>4, <2>5, <2>6, <2>7, <2>8, <2>9 DEF
     PassengerStep
<1>2. ASSUME NEW t \in Trolley, TrolleyStep(t) PROVE Seats'
  <2>1. CASE AcquireQueue(t)
    BY <2>1 DEF AcquireQueue
  <2>2. CASE WaitQueue(t)
    BY <2>2 DEF WaitQueue
  <2>3. CASE OpenToLeave(t)
    BY <2>3 DEF OpenToLeave, Emptied
  <2>4. CASE WaitDrop(t)
    BY <2>4 DEF WaitDrop
  <2>5. CASE RetestDrop(t)
    BY <2>5 DEF RetestDrop, Emptied
  <2>6. CASE Dropped(t)
    BY <2>6 DEF Dropped
  <2>7. CASE OpenToBoard(t)
    BY <2>7 DEF OpenToBoard, Filled
  <2>8. CASE WaitTake(t)
    BY <2>8 DEF WaitTake
  <2>9. CASE RetestTake(t)
    BY <2>9 DEF RetestTake, Filled
  <2>10. CASE Taken(t)
    BY <2>10 DEF Taken
  <2>11. CASE EnableButton(t)
    BY <2>11 DEF EnableButton
  <2>12. CASE AwaitPress(t)
    BY <2>12 DEF AwaitPress
  <2>13. CASE Close(t)
    BY <2>13 DEF Close
  <2>14. CASE ArriveAtBarrier(t)
    BY <2>14 DEF ArriveAtBarrier, AtTrolleysBarrier, Inside, Beyond
  <2> QED BY <1>2, <2>1, <2>2, <2>3, <2>4, <2>5, <2>6, <2>7, <2>8, <2>9, <2>10,
     <2>11, <2>12, <2>13, <2>14 DEF TrolleyStep
<1>3. CASE MainStep
  <2>1. CASE JoinTrolleys
    BY <2>1 DEF JoinTrolleys
  <2>2. CASE WakeIn
    BY <2>2 DEF WakeIn
  <2>3. CASE WakeOut
    BY <2>3 DEF WakeOut
  <2>4. CASE FreeButton
    BY <2>4 DEF FreeButton
  <2>5. CASE JoinPassengers
    BY <2>5 DEF JoinPassengers
  <2> QED BY <1>3, <2>1, <2>2, <2>3, <2>4, <2>5 DEF MainStep
<1>4. ASSUME NEW p \in Passengers, SpuriousPassenger(p) PROVE Seats'
  BY <1>4 DEF SpuriousPassenger
<1>5. ASSUME NEW t \in Trolley, SpuriousTrolley(t) PROVE Seats'
  BY <1>5 DEF SpuriousTrolley
<1>6. CASE UNCHANGED vars
  BY <1>6 DEF vars
<1> QED BY <1>1, <1>2, <1>3, <1>4, <1>5, <1>6 DEF Next

-----------------------------------------------------------------------------
LEMMA NextInv == Inv /\ [Next]_vars => Inv'
<1> SUFFICES ASSUME Inv, [Next]_vars PROVE Inv'
  OBVIOUS
<1>1. /\ TypeOK /\ MutexQueue /\ MutexIn /\ MutexOut /\ Doors /\ TestsStillHold
      /\ Rounds /\ DieLast
  BY DEF Inv, StationInv
<1>2. TypeOK' /\ Rounds' /\ DieLast'
  BY <1>1, TypeOKNext, RoundsNext, DieLastNext
<1>3. MutexQueue' /\ MutexIn' /\ MutexOut'
  BY <1>1, MutexQueueNext, MutexInNext, MutexOutNext
<1>4. Doors' /\ TestsStillHold'
  BY <1>1, DoorsNext, TestsStillHoldNext
<1>5. Seats' /\ SeatsCount'
  BY SeatsNext, SeatsCountNext
<1> QED BY <1>2, <1>3, <1>4, <1>5 DEF Inv, StationInv

LEMMA Invariance == Spec => []Inv
<1>1. Init => Inv
  BY InitInv
<1>2. Inv /\ [Next]_vars => Inv'
  BY NextInv
<1> QED BY <1>1, <1>2, PTL DEF Spec

(* Every variable keeps its type; n stays within 0 .. N + 1, so each         *)
(* trolley_routine goes round its loop at most N + 1 times.                  *)
THEOREM TypeCorrect == Spec => []TypeOK
<1>1. Inv => TypeOK
  BY DEF Inv
<1> QED BY <1>1, Invariance, PTL

(* The mutexes exclude, the doors are open only at the station, tests still  *)
(* hold when they are acted on, no trolley is overloaded or leaves with a    *)
(* free seat, the counters count the threads inside, die comes last.         *)
THEOREM StationCorrect == Spec => []StationInv
<1>1. Inv => StationInv
  BY DEF Inv
<1> QED BY <1>1, Invariance, PTL

(* The seats of a trolley change only at the station through the open door,  *)
(* one passenger at a time.                                                  *)
THEOREM DoorCorrect == Spec => OnlyThroughTheOpenDoor
<1> DEFINE Door ==
      \A t \in Trolley : passengers'[t] # passengers[t] =>
        /\ t = current_trolley
        /\ \/ allow_in /\ passengers'[t] = passengers[t] + 1
           \/ allow_out /\ passengers'[t] = passengers[t] - 1
<1>1. Inv /\ [Next]_vars => Door
  <2> SUFFICES ASSUME Inv, [Next]_vars PROVE Door
    OBVIOUS
  <2>1. TypeOK /\ passengers \in [Trolley -> Int]
    BY DEF Inv, TypeOK
  <2>2. ASSUME NEW p \in Passengers, Board(p) PROVE Door
    <3>1. allow_in /\ passengers' = [passengers EXCEPT ![current_trolley] = @ + 1]
      BY <2>2, BoardFacts
    <3> QED BY <2>1, <3>1
  <2>3. ASSUME NEW p \in Passengers, Leave(p) PROVE Door
    <3>1. allow_out /\ passengers' = [passengers EXCEPT ![current_trolley] = @ - 1]
      BY <2>3, LeaveFacts
    <3> QED BY <2>1, <3>1
  <2>4. CASE SeatsKept
    BY <2>4 DEF SeatsKept
  <2> QED BY <2>1, <2>2, <2>3, <2>4, AboardNext
<1>2. Inv /\ [Next]_vars => [Door]_vars
  BY <1>1
<1> QED BY <1>2, Invariance, PTL DEF Spec, OnlyThroughTheOpenDoor
=============================================================================
