----------------------------- MODULE RideProofs ------------------------------
(***************************************************************************)
(* The rides of module Trolleys, for any number of passengers, trolleys,   *)
(* seats and rides: the order of the trolleys, the two barriers, the       *)
(* button, and that the threads implement the abstract roller coaster.     *)
(***************************************************************************)
EXTENDS TrolleysProofs

(* Where a trolley is in its round, without the details of its waits        *)
Place(t) ==
  IF trolley_pc[t] \in {"lock_queue", "to_wait_queue", "cond_queue", "drop", "to_wait_drop",
                        "cond_drop", "retest_drop", "dropped"} THEN "early"
  ELSE IF trolley_pc[t] \in {"take", "to_wait_take", "cond_take", "retest_take", "taken",
                             "signal", "press", "close"} THEN "late"
  ELSE IF trolley_pc[t] \in {"depart", "in_depart"} THEN "depart"
  ELSE IF trolley_pc[t] \in {"ride", "in_arrive"} THEN "ride"
  ELSE IF trolley_pc[t] \in {"final", "in_final"} THEN "final"
  ELSE "done"

Early(t) == Place(t) = "early"

Before(t) == Place(t) \in {"early", "late"}

All(place) == \A t \in Trolley : Place(t) = place

(* A trolley counts a round when it opens its door to passengers; rounds    *)
(* are counted by all in turn.                                              *)
Counted == \A t, u \in Trolley :
  n[t] - (IF Early(t) THEN 0 ELSE 1) = n[u] - (IF Early(u) THEN 0 ELSE 1)

(* The trolleys before the one at the station wait at the barrier for those *)
(* that have still to be served; when nobody is left to be served they all  *)
(* do the same.                                                             *)
Platform ==
  /\ current_trolley > 0 =>
       \A t \in Trolley : IF t < current_trolley THEN Place(t) \in {"depart", "final"} ELSE Before(t)
  /\ current_trolley = 0 =>
       (\A t \in Trolley : Before(t)) \/ All("depart") \/ All("ride") \/ All("final") \/ All("done")

OrderInv == Counted /\ Platform

(* A step that is no turning point of a trolley                             *)
Quiet == UNCHANGED <<n, current_trolley>> /\ \A t \in Trolley : Place(t)' = Place(t)

-----------------------------------------------------------------------------
(* The button and the barrier of the passengers                            *)

Starting(p) == passenger_pc[p] \in {"barrier", "in_barrier", "button"}

AtLoad(t) ==
  trolley_pc[t] \in {"take", "to_wait_take", "cond_take", "retest_take", "taken", "signal", "press"}

(* Those aboard wait for one another, or are all there, and one of them at  *)
(* most has still to press the button.                                      *)
Gathering(t) == \A p \in Aboard(t) : passenger_pc[p] \in {"barrier", "in_barrier"}

Released(t) ==
  /\ passengers[t] = C
  /\ \A p \in Aboard(t) : passenger_pc[p] \notin {"barrier", "in_barrier"}
  /\ \A p, q \in Aboard(t) : passenger_pc[p] = "button" /\ passenger_pc[q] = "button" => p = q

StartersAtStation ==
  \A p \in Passengers : Starting(p) => trolley_of[p] = current_trolley /\ AtLoad(current_trolley)

OneForTheButton == AtLoad(current_trolley) => Gathering(current_trolley) \/ Released(current_trolley)

Pressed ==
  /\ ~mutex_button_press =>
       /\ trolley_pc[current_trolley] = "press" /\ mutex_button_wait
       /\ \A p \in Passengers : ~Starting(p)
  /\ ~mutex_button_wait =>
       trolley_pc[current_trolley] = "press" \/ main_pc \in {"join_passengers", "exited"}

NotYetServed == \A t \in Trolley : n[t] = 0 => passengers[t] = 0

ButtonInv == StartersAtStation /\ OneForTheButton /\ Pressed /\ NotYetServed

-----------------------------------------------------------------------------
(* The turning points of a trolley are four: it is served for the first     *)
(* time, it has let everybody out, it leaves the station, a barrier opens.  *)
LEMMA QuietNext ==
  ASSUME TypeOK, [Next]_vars
  PROVE \/ Quiet
        \/ \E t \in Trolley : AcquireQueue(t) \/ Dropped(t) \/ Close(t) \/ ArriveAtBarrier(t)
<1> USE DEF Quiet, Place, TypeOK, Goto, Woken, shared, mutexes, button
<1>1. ASSUME NEW p \in Passengers, PassengerStep(p) PROVE Quiet
  <2>1. CASE AcquireIn(p) \/ WaitIn(p) \/ DismissedIn(p)
    BY <2>1 DEF AcquireIn, WaitIn, DismissedIn
  <2>2. CASE Board(p)
    BY <2>2 DEF Board
  <2>3. CASE ReachBarrier(p) \/ PressButton(p)
    BY <2>3 DEF ReachBarrier, PressButton
  <2>4. CASE AcquireOut(p) \/ WaitOut(p)
    BY <2>4 DEF AcquireOut, WaitOut
  <2>5. CASE Leave(p)
    BY <2>5 DEF Leave
  <2> QED BY <1>1, <2>1, <2>2, <2>3, <2>4, <2>5 DEF PassengerStep
<1>2. ASSUME NEW t \in Trolley, TrolleyStep(t)
      PROVE Quiet \/ AcquireQueue(t) \/ Dropped(t) \/ Close(t) \/ ArriveAtBarrier(t)
  <2>1. CASE WaitQueue(t)
    BY <2>1 DEF WaitQueue
  <2>2. CASE OpenToLeave(t) \/ RetestDrop(t)
    BY <2>2 DEF OpenToLeave, RetestDrop, Emptied
  <2>3. CASE WaitDrop(t)
    BY <2>3 DEF WaitDrop
  <2>4. CASE OpenToBoard(t) \/ RetestTake(t)
    BY <2>4 DEF OpenToBoard, RetestTake, Filled
  <2>5. CASE WaitTake(t)
    BY <2>5 DEF WaitTake
  <2>6. CASE Taken(t)
    BY <2>6 DEF Taken
  <2>7. CASE EnableButton(t) \/ AwaitPress(t)
    BY <2>7 DEF EnableButton, AwaitPress
  <2> QED BY <1>2, <2>1, <2>2, <2>3, <2>4, <2>5, <2>6, <2>7 DEF TrolleyStep
<1>3. CASE MainStep
  BY <1>3 DEF MainStep, JoinTrolleys, WakeIn, WakeOut, FreeButton, JoinPassengers
<1>4. ASSUME NEW p \in Passengers, SpuriousPassenger(p) PROVE Quiet
  BY <1>4 DEF SpuriousPassenger
<1>5. ASSUME NEW t \in Trolley, SpuriousTrolley(t) PROVE Quiet
  BY <1>5 DEF SpuriousTrolley
<1>6. CASE UNCHANGED vars
  BY <1>6 DEF vars
<1> QED BY <1>1, <1>2, <1>3, <1>4, <1>5, <1>6 DEF Next

(* What each of the four does to the places                                 *)
LEMMA AcquireQueueEffect ==
  ASSUME TypeOK, NEW t \in Trolley, AcquireQueue(t)
  PROVE  \/ Quiet
         \/ /\ t = current_trolley /\ current_trolley' = current_trolley
            /\ n[t] = 0 /\ n' = [n EXCEPT ![t] = 1]
            /\ Early(t) /\ Place(t)' = "late"
            /\ \A u \in Trolley \ {t} : Place(u)' = Place(u)
  BY DEF AcquireQueue, Quiet, Place, Early, TypeOK, Goto, shared

LEMMA DroppedEffect ==
  ASSUME TypeOK, Rounds, Doors, NEW t \in Trolley, Dropped(t)
  PROVE  /\ t = current_trolley /\ current_trolley' = current_trolley
         /\ n' = [n EXCEPT ![t] = @ + 1] /\ n[t] \in 1 .. N
         /\ Early(t) /\ Place(t)' = "late"
         /\ \A u \in Trolley \ {t} : Place(u)' = Place(u)
<1>1. t = current_trolley /\ n[t] \in 1 .. N
  BY DEF Dropped, Doors, AtStation, HoldsQueue, Rounds
<1> QED BY <1>1 DEF Dropped, Place, Early, TypeOK, Goto

LEMMA CloseEffect ==
  ASSUME TypeOK, Doors, NEW t \in Trolley, Close(t)
  PROVE  /\ t = current_trolley /\ current_trolley' = (t + 1) % T
         /\ n' = n
         /\ Place(t) = "late" /\ Place(t)' = IF n[t] > N THEN "final" ELSE "depart"
         /\ \A u \in Trolley \ {t} : Place(u)' = Place(u)
<1>1. t = current_trolley
  BY DEF Close, Doors, AtStation, HoldsQueue
<1> QED BY <1>1 DEF Close, Place, TypeOK, Goto, Woken

LEMMA AllTrolleys ==
  ASSUME NEW S \in SUBSET Trolley, ~(Cardinality(S) < T)
  PROVE  S = Trolley
<1>1. IsFiniteSet(Trolley) /\ Cardinality(Trolley) = T
  BY Parameters, FS_Interval DEF Trolley
<1>2. Cardinality(S) \in Nat /\ Cardinality(S) <= T /\ (Cardinality(S) = T => S = Trolley)
  BY <1>1, FS_Subset, FS_CardinalityType
<1> QED BY <1>2, Parameters

(* A barrier opens when everybody is there, and then all do the same.       *)
LEMMA BarrierEffect ==
  ASSUME TypeOK, Platform, NEW t \in Trolley, ArriveAtBarrier(t)
  PROVE  \/ Quiet
         \/ /\ current_trolley = 0 /\ UNCHANGED <<n, current_trolley>>
            /\ \/ All("depart") /\ All("ride")'
               \/ All("ride") /\ All("early")'
               \/ All("final") /\ All("done")'
<1> DEFINE arrived == AtTrolleysBarrier \cup {t}
           pc == Goto(trolley_pc, t, Inside[trolley_pc[t]])
<1>1. trolley_pc[t] \in {"depart", "ride", "final"} /\ UNCHANGED <<n, current_trolley>>
  BY DEF ArriveAtBarrier, shared
<1>2. CASE Cardinality(arrived) < T
  <2>1. trolley_pc' = pc
    BY <1>2 DEF ArriveAtBarrier
  <2> QED BY <1>1, <2>1 DEF Quiet, Place, Goto, Inside, TypeOK
<1>3. CASE ~(Cardinality(arrived) < T)
  <2>1. trolley_pc' = [u \in Trolley |-> IF u \in arrived THEN Beyond[pc[u]] ELSE pc[u]]
    BY <1>3 DEF ArriveAtBarrier
  <2>2. arrived = Trolley
    BY <1>3, AllTrolleys DEF AtTrolleysBarrier
  <2>3. \A u \in Trolley : Place(u) \in {"depart", "ride", "final"}
    BY <1>1, <2>2 DEF AtTrolleysBarrier, Place
  <2>4. current_trolley = 0
    <3>1. T - 1 \in Trolley /\ current_trolley \in 0 .. T - 1
      BY Parameters DEF Trolley, TypeOK
    <3>2. ~Before(T - 1)
      BY <2>3, <3>1 DEF Before
    <3> QED BY <3>1, <3>2, Parameters DEF Platform, Trolley
  <2>5. All("depart") \/ All("ride") \/ All("final")
    BY <2>3, <2>4 DEF Platform, All, Before
  <2>6. \A u \in Trolley : trolley_pc'[u] = Beyond[pc[u]]
    BY <2>1, <2>2
  <2>7. \A u \in Trolley :
          /\ Place(u) = "depart" => trolley_pc'[u] = "ride"
          /\ Place(u) = "ride" => trolley_pc'[u] = "lock_queue"
          /\ Place(u) = "final" => trolley_pc'[u] = "done"
    BY <1>1, <2>2, <2>6 DEF AtTrolleysBarrier, Place, Goto, Inside, Beyond, TypeOK
  <2>8. \A u \in Trolley :
          /\ Place(u) = "depart" => Place(u)' = "ride"
          /\ Place(u) = "ride" => Place(u)' = "early"
          /\ Place(u) = "final" => Place(u)' = "done"
    BY <2>7 DEF Place
  <2> QED BY <1>1, <2>4, <2>5, <2>8 DEF All
<1> QED BY <1>2, <1>3

LEMMA InitOrder == Init => OrderInv
BY Parameters DEF Init, OrderInv, Counted, Platform, Place, Early, Before

LEMMA OrderNext ==
  ASSUME Inv, OrderInv, [Next]_vars
  PROVE  OrderInv'
<1> USE Parameters
<1>1. TypeOK /\ Rounds /\ Doors
  BY DEF Inv, StationInv
<1>2. current_trolley \in Trolley /\ n \in [Trolley -> Int] /\ Trolley \subseteq Nat
  BY <1>1 DEF TypeOK, Trolley
<1>3. Counted /\ Platform
  BY DEF OrderInv
<1>4. CASE Quiet
  BY <1>3, <1>4 DEF OrderInv, Counted, Platform, Quiet, Early, Before, All
<1>5. ASSUME NEW t \in Trolley, t = current_trolley, current_trolley' = current_trolley,
             n' = [n EXCEPT ![t] = @ + 1], Early(t), Place(t)' = "late",
             \A u \in Trolley \ {t} : Place(u)' = Place(u)
      PROVE  OrderInv'
  <2>1. Counted'
    BY <1>2, <1>3, <1>5 DEF Counted, Early
  <2>2. \A u \in Trolley : Before(u)' <=> Before(u)
    BY <1>5 DEF Before, Early
  <2>3. CASE current_trolley > 0
    <3>1. \A u \in Trolley :
            IF u < current_trolley THEN Place(u) \in {"depart", "final"} ELSE Before(u)
      BY <1>3, <2>3 DEF Platform
    <3>2. \A u \in Trolley : u < current_trolley => Place(u)' = Place(u)
      BY <1>2, <1>5
    <3>3. \A u \in Trolley :
            IF u < current_trolley THEN Place(u)' \in {"depart", "final"} ELSE Before(u)'
      BY <2>2, <3>1, <3>2
    <3> QED BY <1>5, <2>1, <2>3, <3>3 DEF OrderInv, Platform
  <2>4. CASE current_trolley = 0
    <3>1. \A u \in Trolley : Before(u)
      <4>1. Place(t) = "early"
        BY <1>5 DEF Early
      <4>2. ~All("depart") /\ ~All("ride") /\ ~All("final") /\ ~All("done")
        BY <4>1 DEF All
      <4> QED BY <1>3, <2>4, <4>2 DEF Platform
    <3>2. \A u \in Trolley : Before(u)'
      BY <2>2, <3>1
    <3> QED BY <1>5, <2>1, <2>4, <3>2 DEF OrderInv, Platform
  <2> QED BY <1>2, <2>1, <2>3, <2>4 DEF OrderInv, Trolley
<1>6. ASSUME NEW t \in Trolley, AcquireQueue(t) PROVE OrderInv'
  <2>1. CASE n[t] = 0 /\ n' = [n EXCEPT ![t] = 1]
    <3>1. n' = [n EXCEPT ![t] = @ + 1]
      BY <1>2, <2>1
    <3> QED BY <1>1, <1>4, <1>5, <1>6, <3>1, AcquireQueueEffect
  <2> QED BY <1>1, <1>4, <1>6, <2>1, AcquireQueueEffect
<1>7. ASSUME NEW t \in Trolley, Dropped(t) PROVE OrderInv'
  BY <1>1, <1>5, <1>7, DroppedEffect
<1>8. ASSUME NEW t \in Trolley, Close(t) PROVE OrderInv'
  <2>1. /\ t = current_trolley /\ current_trolley' = (t + 1) % T /\ n' = n
        /\ Place(t) = "late" /\ Place(t)' = IF n[t] > N THEN "final" ELSE "depart"
        /\ \A u \in Trolley \ {t} : Place(u)' = Place(u)
    BY <1>1, <1>8, CloseEffect
  <2>2. Counted'
    BY <1>3, <2>1 DEF Counted, Early
  <2>3. \A u \in Trolley : IF u < t THEN Place(u) \in {"depart", "final"} ELSE Before(u)
    <3>1. CASE t > 0
      BY <1>3, <2>1, <3>1 DEF Platform
    <3>2. CASE t = 0
      BY <1>2, <1>3, <2>1, <3>2 DEF Platform, Before, All
    <3> QED BY <1>2, <3>1, <3>2
  <2>4. CASE t < T - 1
    <3>1. current_trolley' = t + 1
      BY <1>2, <2>1, <2>4
    <3>2. \A u \in Trolley : IF u < t + 1 THEN Place(u)' \in {"depart", "final"} ELSE Before(u)'
      BY <1>2, <2>1, <2>3 DEF Before
    <3> QED BY <1>2, <2>2, <3>1, <3>2 DEF OrderInv, Platform
  <2>5. CASE t = T - 1
    <3>1. current_trolley' = 0
      BY <1>2, <2>1, <2>5
    <3>2. \A u \in Trolley : Place(u)' \in {"depart", "final"}
      BY <1>2, <2>1, <2>3, <2>5 DEF Trolley
    <3>3. \A u \in Trolley : n'[u] = n'[t]
      BY <1>2, <2>1, <2>2, <3>2 DEF Counted, Early
    <3>4. \A u \in Trolley : Place(u)' = IF n'[u] > N THEN "final" ELSE "depart"
      <4>1. Rounds'
        BY <1>1, RoundsNext
      <4>2. TypeOK'
        BY <1>1, TypeOKNext
      <4> QED BY <3>2, <4>1, <4>2 DEF Rounds, Place, TypeOK
    <3>5. All("depart")' \/ All("final")'
      BY <3>3, <3>4 DEF All
    <3> QED BY <2>2, <3>1, <3>5 DEF OrderInv, Platform
  <2> QED BY <1>2, <2>4, <2>5 DEF Trolley
<1>9. ASSUME NEW t \in Trolley, ArriveAtBarrier(t) PROVE OrderInv'
  <2>1. CASE /\ current_trolley = 0 /\ UNCHANGED <<n, current_trolley>>
             /\ \/ All("depart") /\ All("ride")'
                \/ All("ride") /\ All("early")'
                \/ All("final") /\ All("done")'
    <3>1. Platform'
      BY <2>1 DEF Platform, All, Before
    <3>2. Counted'
      BY <1>2, <1>3, <2>1 DEF Counted, Early, All
    <3> QED BY <3>1, <3>2 DEF OrderInv
  <2> QED BY <1>1, <1>3, <1>4, <1>9, <2>1, BarrierEffect
<1> QED BY <1>1, <1>4, <1>6, <1>7, <1>8, <1>9, QuietNext

-----------------------------------------------------------------------------
(* A step that concerns neither the button nor those who are on their way   *)
(* to it                                                                    *)
Still ==
  /\ UNCHANGED <<current_trolley, passengers, n, trolley_of, button>>
  /\ \A p \in Passengers : passenger_pc'[p] # passenger_pc[p] => ~Starting(p) /\ ~Starting(p)'
  /\ \A t \in Trolley : Aboard(t)' = Aboard(t)
  /\ \A t \in Trolley : AtLoad(t)' = AtLoad(t) /\ (trolley_pc'[t] = "press" <=> trolley_pc[t] = "press")
  /\ main_pc \in {"join_passengers", "exited"} => main_pc' \in {"join_passengers", "exited"}

LEMMA StillNext ==
  ASSUME TypeOK, [Next]_vars
  PROVE \/ Still \/ FreeButton
        \/ \E p \in Passengers : Board(p) \/ Leave(p) \/ ReachBarrier(p) \/ PressButton(p)
        \/ \E t \in Trolley :
             AcquireQueue(t) \/ Dropped(t) \/ EnableButton(t) \/ AwaitPress(t) \/ Close(t)
<1> USE DEF Still, Starting, AtLoad, Aboard, Seated, TypeOK, Goto, Woken, shared, mutexes, button
<1>1. ASSUME NEW p \in Passengers, PassengerStep(p)
      PROVE  Still \/ Board(p) \/ Leave(p) \/ ReachBarrier(p) \/ PressButton(p)
  <2>1. CASE AcquireIn(p) \/ WaitIn(p) \/ DismissedIn(p)
    BY <2>1 DEF AcquireIn, WaitIn, DismissedIn
  <2>2. CASE AcquireOut(p) \/ WaitOut(p)
    BY <2>2 DEF AcquireOut, WaitOut
  <2> QED BY <1>1, <2>1, <2>2 DEF PassengerStep
<1>2. ASSUME NEW t \in Trolley, TrolleyStep(t)
      PROVE  Still \/ AcquireQueue(t) \/ Dropped(t) \/ EnableButton(t) \/ AwaitPress(t) \/ Close(t)
  <2>1. CASE WaitQueue(t)
    BY <2>1 DEF WaitQueue
  <2>2. CASE OpenToLeave(t) \/ RetestDrop(t)
    BY <2>2 DEF OpenToLeave, RetestDrop, Emptied
  <2>3. CASE WaitDrop(t)
    BY <2>3 DEF WaitDrop
  <2>4. CASE OpenToBoard(t) \/ RetestTake(t)
    BY <2>4 DEF OpenToBoard, RetestTake, Filled
  <2>5. CASE WaitTake(t)
    BY <2>5 DEF WaitTake
  <2>6. CASE Taken(t)
    BY <2>6 DEF Taken
  <2>7. CASE ArriveAtBarrier(t)
    BY <2>7 DEF ArriveAtBarrier, AtTrolleysBarrier, Inside, Beyond
  <2> QED BY <1>2, <2>1, <2>2, <2>3, <2>4, <2>5, <2>6, <2>7 DEF TrolleyStep
<1>3. CASE MainStep
  BY <1>3 DEF MainStep, JoinTrolleys, WakeIn, WakeOut, JoinPassengers
<1>4. ASSUME NEW p \in Passengers, SpuriousPassenger(p) PROVE Still
  BY <1>4 DEF SpuriousPassenger
<1>5. ASSUME NEW t \in Trolley, SpuriousTrolley(t) PROVE Still
  BY <1>5 DEF SpuriousTrolley
<1>6. CASE UNCHANGED vars
  BY <1>6 DEF vars
<1> QED BY <1>1, <1>2, <1>3, <1>4, <1>5, <1>6 DEF Next

LEMMA EmptyTrolley ==
  ASSUME Inv, NEW t \in Trolley, passengers[t] = 0
  PROVE  Aboard(t) = {}
<1>1. IsFiniteSet(Aboard(t))
  BY FS_Subset, ArgumentsAssumption DEF ArgumentsAssumption, Aboard, Seated
<1> QED BY <1>1, FS_EmptySet DEF Inv, StationInv, SeatsCount

LEMMA AtStationOnly ==
  ASSUME Inv, NEW t \in Trolley, AtLoad(t) \/ trolley_pc[t] \in {"dropped", "close"}
  PROVE  t = current_trolley
  BY DEF Inv, StationInv, Doors, AtStation, HoldsQueue, AtLoad

(* When a trolley leaves, the next one has still to come to the station.    *)
LEMMA NobodyLoads ==
  ASSUME Inv, NEW t \in Trolley, Close(t)
  PROVE  \A u \in Trolley : ~AtLoad(u)'
<1>1. \A u \in Trolley \ {t} : ~AtLoad(u)
  BY AtStationOnly DEF Close, AtLoad
<1> QED BY <1>1 DEF AtLoad, Close, Inv, TypeOK, Goto, Woken

(* Who meets at the barrier are the passengers of one trolley, and when it  *)
(* opens they are all of them.                                              *)
LEMMA BarrierOpens ==
  ASSUME Inv, ButtonInv, NEW p \in Passengers, ReachBarrier(p)
  PROVE  LET c == current_trolley IN
         /\ AtLoad(c) /\ Gathering(c) /\ Aboard(c)' = Aboard(c)
         /\ \/ passenger_pc' = [passenger_pc EXCEPT ![p] = "in_barrier"]
            \/ /\ passengers[c] = C
               /\ \E serial \in Aboard(c) : \A q \in Passengers :
                    passenger_pc'[q] = IF q = serial THEN "button"
                                       ELSE IF q \in Aboard(c) THEN "lock_out" ELSE passenger_pc[q]
<1> DEFINE c == current_trolley
           arrived == AtPassengersBarrier \cup {p}
<1> USE DEF Inv, StationInv
<1>1. c \in Trolley /\ Starting(p) /\ passenger_pc[p] = "barrier"
  BY DEF TypeOK, Starting, ReachBarrier
<1>2. trolley_of[p] = c /\ AtLoad(c) /\ p \in Aboard(c)
  BY <1>1 DEF ButtonInv, StartersAtStation, Aboard, Seated
<1>3. Gathering(c)
  BY <1>1, <1>2 DEF ButtonInv, OneForTheButton, Released
<1>4. arrived \subseteq Aboard(c)
  BY <1>1, <1>2 DEF ButtonInv, StartersAtStation, Starting, AtPassengersBarrier, Aboard, Seated
<1>5. trolley_of' = trolley_of /\ current_trolley' = current_trolley
  BY DEF ReachBarrier, shared
<1>6. CASE Cardinality(arrived) < C
  <2>1. passenger_pc' = [passenger_pc EXCEPT ![p] = "in_barrier"]
    BY <1>6 DEF ReachBarrier, Goto
  <2>2. Aboard(c)' = Aboard(c)
    BY <1>1, <1>2, <1>5, <2>1 DEF Aboard, Seated, TypeOK
  <2> QED BY <1>2, <1>3, <2>1, <2>2
<1>7. CASE ~(Cardinality(arrived) < C)
  <2>1. PICK serial \in arrived : passenger_pc' = [q \in Passengers |->
                 IF q = serial THEN "button"
                 ELSE IF q \in arrived THEN "lock_out" ELSE passenger_pc[q]]
    BY <1>7 DEF ReachBarrier
  <2>2. IsFiniteSet(Aboard(c)) /\ Cardinality(Aboard(c)) = passengers[c] /\ passengers[c] \in 0 .. C
    BY <1>1, FS_Subset, ArgumentsAssumption DEF ArgumentsAssumption, Aboard, Seated, SeatsCount, Seats
  <2>3. IsFiniteSet(arrived) /\ Cardinality(arrived) <= Cardinality(Aboard(c))
        /\ (Cardinality(Aboard(c)) = Cardinality(arrived) => Aboard(c) = arrived)
    BY <1>4, <2>2, FS_Subset
  <2>4. Cardinality(arrived) \in Nat
    BY <2>3, FS_CardinalityType
  <2>5. passengers[c] = C /\ arrived = Aboard(c)
    BY <1>7, <2>2, <2>3, <2>4, Parameters
  <2>6. serial \in Aboard(c) /\ \A q \in Passengers :
          passenger_pc'[q] = IF q = serial THEN "button"
                             ELSE IF q \in Aboard(c) THEN "lock_out" ELSE passenger_pc[q]
    BY <2>1, <2>5
  <2>7. Aboard(c)' = Aboard(c)
    BY <1>1, <1>5, <2>6 DEF Aboard, Seated, TypeOK
  <2> QED BY <1>2, <1>3, <2>5, <2>6, <2>7
<1> QED BY <1>6, <1>7

(* The passenger who presses the button is the only one on the way to it.   *)
LEMMA PressesAlone ==
  ASSUME Inv, ButtonInv, NEW p \in Passengers, PressButton(p)
  PROVE  /\ AtLoad(current_trolley) /\ Released(current_trolley) /\ ~die
         /\ p \in Aboard(current_trolley)
         /\ \A q \in Passengers \ {p} : ~Starting(q)
<1> DEFINE c == current_trolley
<1>1. c \in Trolley /\ passenger_pc[p] = "button" /\ Starting(p)
  BY DEF Inv, TypeOK, Starting, PressButton
<1>2. AtLoad(c) /\ p \in Aboard(c)
  BY <1>1 DEF ButtonInv, StartersAtStation, Aboard, Seated
<1>3. Released(c)
  BY <1>1, <1>2 DEF ButtonInv, OneForTheButton, Gathering
<1>4. ~die
  BY <1>1, <1>2 DEF Inv, StationInv, DieLast, AtLoad
<1>5. ASSUME NEW q \in Passengers \ {p}, Starting(q) PROVE FALSE
  <2>1. q \in Aboard(c)
    BY <1>5 DEF ButtonInv, StartersAtStation, Aboard, Seated, Starting
  <2> QED BY <1>1, <1>2, <1>3, <1>5, <2>1 DEF Released, Starting
<1> QED BY <1>2, <1>3, <1>4, <1>5

-----------------------------------------------------------------------------
LEMMA StartersNext ==
  ASSUME Inv, ButtonInv, [Next]_vars
  PROVE  StartersAtStation'
<1> DEFINE c == current_trolley
<1>1. TypeOK /\ c \in Trolley /\ StartersAtStation
  BY DEF Inv, TypeOK, ButtonInv
<1>2. CASE Still
  BY <1>1, <1>2 DEF Still, StartersAtStation, Starting
<1>3. CASE FreeButton
  BY <1>1, <1>3 DEF FreeButton, StartersAtStation, Starting, AtLoad, shared
<1>4. ASSUME NEW p \in Passengers, Board(p) PROVE StartersAtStation'
  <2>1. AtLoad(c) /\ AtLoad(c)'
    BY <1>1, <1>4, BoardFacts DEF AtLoad, Board
  <2>2. /\ trolley_of' = [trolley_of EXCEPT ![p] = c] /\ current_trolley' = c
        /\ \A q \in Passengers \ {p} : Starting(q)' => Starting(q)
    BY <1>1, <1>4 DEF Board, Starting, TypeOK, Goto, Woken
  <2> QED BY <1>1, <2>1, <2>2 DEF StartersAtStation, TypeOK
<1>5. ASSUME NEW p \in Passengers, Leave(p) PROVE StartersAtStation'
  <2>1. ~AtLoad(c)
    BY <1>5, LeaveFacts DEF AtLoad
  <2>2. \A q \in Passengers : Starting(q)' => Starting(q)
    BY <1>1, <1>5 DEF Leave, Starting, TypeOK, Goto, Woken
  <2> QED BY <1>1, <2>1, <2>2 DEF StartersAtStation
<1>6. ASSUME NEW p \in Passengers, ReachBarrier(p) PROVE StartersAtStation'
  <2>1. UNCHANGED <<trolley_of, current_trolley, trolley_pc>>
    BY <1>6 DEF ReachBarrier, shared
  <2>2. AtLoad(c) /\ \A q \in Passengers : Starting(q)' => Starting(q) \/ q \in Aboard(c)
    BY <1>1, <1>6, BarrierOpens DEF Starting, TypeOK, ReachBarrier
  <2> QED BY <1>1, <2>1, <2>2 DEF StartersAtStation, AtLoad, Aboard, Seated
<1>7. ASSUME NEW p \in Passengers, PressButton(p) PROVE StartersAtStation'
  BY <1>1, <1>7 DEF PressButton, StartersAtStation, Starting, AtLoad, shared, TypeOK, Goto
<1>8. ASSUME NEW t \in Trolley, AcquireQueue(t) PROVE StartersAtStation'
  BY <1>1, <1>8 DEF AcquireQueue, StartersAtStation, Starting, AtLoad, shared, TypeOK, Goto
<1>9. ASSUME NEW t \in Trolley, Dropped(t) \/ EnableButton(t) PROVE StartersAtStation'
  BY <1>1, <1>9 DEF Dropped, EnableButton, StartersAtStation, Starting, AtLoad, shared, TypeOK, Goto
<1>10. ASSUME NEW t \in Trolley, AwaitPress(t) PROVE StartersAtStation'
  BY <1>10 DEF AwaitPress, StartersAtStation, Starting, ButtonInv, Pressed
<1>11. ASSUME NEW t \in Trolley, Close(t) PROVE StartersAtStation'
  <2>1. \A q \in Passengers : ~Starting(q)
    BY <1>1, <1>11, AtStationOnly DEF StartersAtStation, AtLoad, Close
  <2> QED BY <1>11, <2>1 DEF StartersAtStation, Starting, Close
<1> QED BY <1>1, <1>2, <1>3, <1>4, <1>5, <1>6, <1>7, <1>8, <1>9, <1>10, <1>11, StillNext

LEMMA OneForTheButtonNext ==
  ASSUME Inv, ButtonInv, [Next]_vars
  PROVE  OneForTheButton'
<1> DEFINE c == current_trolley
<1>1. TypeOK /\ c \in Trolley /\ OneForTheButton
  BY DEF Inv, TypeOK, ButtonInv
<1>2. ASSUME AtLoad(c)' => AtLoad(c), UNCHANGED <<current_trolley, passengers>>, Aboard(c)' = Aboard(c),
             \A p \in Aboard(c) : passenger_pc'[p] = passenger_pc[p]
      PROVE  OneForTheButton'
  BY <1>1, <1>2 DEF OneForTheButton, Gathering, Released
<1>3. CASE Still
  <2>1. \A p \in Aboard(c) : passenger_pc'[p] # passenger_pc[p] => ~Starting(p) /\ ~Starting(p)'
    BY <1>3 DEF Still, Aboard, Seated
  <2> QED BY <1>1, <1>3, <2>1 DEF Still, OneForTheButton, Gathering, Released, Starting
<1>4. CASE FreeButton
  BY <1>2, <1>4 DEF FreeButton, AtLoad, shared, Aboard, Seated
<1>5. ASSUME NEW p \in Passengers, Board(p) PROVE OneForTheButton'
  <2>1. /\ AtLoad(c) /\ passengers[c] \in 0 .. C - 1 /\ passengers'[c] = passengers[c] + 1
    BY <1>1, <1>5, BoardFacts DEF AtLoad, TypeOK
  <2>2. /\ Aboard(c)' = Aboard(c) \cup {p} /\ current_trolley' = c /\ p \notin Aboard(c)
    BY <1>1, <1>5, AboardBoard DEF Board
  <2>3. Gathering(c)
    BY <1>1, <2>1, Parameters DEF OneForTheButton, Released
  <2>4. CASE C > 1
    <3>1. passenger_pc'[p] = "barrier"
      BY <1>1, <1>5, <2>4 DEF Board, TypeOK, Goto, Woken
    <3>2. \A q \in Aboard(c) : passenger_pc'[q] \in {"barrier", "in_barrier"}
      BY <1>1, <1>5, <2>2, <2>3 DEF Board, TypeOK, Goto, Woken, Gathering, Aboard, Seated
    <3> QED BY <2>2, <3>1, <3>2 DEF OneForTheButton, Gathering
  <2>5. CASE C = 1
    <3>1. Aboard(c)' = {p}
      BY <1>1, <2>1, <2>2, <2>5, EmptyTrolley
    <3>2. passenger_pc'[p] = "button"
      BY <1>1, <1>5, <2>5 DEF Board, TypeOK, Goto, Woken
    <3> QED BY <2>1, <2>2, <2>5, <3>1, <3>2 DEF OneForTheButton, Released
  <2> QED BY <2>4, <2>5, Parameters
<1>6. ASSUME NEW p \in Passengers, Leave(p) PROVE OneForTheButton'
  BY <1>1, <1>6, LeaveFacts DEF OneForTheButton, AtLoad, Leave
<1>7. ASSUME NEW p \in Passengers, ReachBarrier(p) PROVE OneForTheButton'
  <2>1. /\ UNCHANGED <<current_trolley, passengers>> /\ Aboard(c)' = Aboard(c) /\ Gathering(c)
        /\ Aboard(c) \subseteq Passengers
    BY <1>7, BarrierOpens DEF ReachBarrier, shared, Aboard, Seated
  <2>2. CASE passenger_pc' = [passenger_pc EXCEPT ![p] = "in_barrier"]
    BY <1>1, <2>1, <2>2 DEF OneForTheButton, Gathering, TypeOK
  <2>3. CASE /\ passengers[c] = C
             /\ \E serial \in Aboard(c) : \A q \in Passengers :
                  passenger_pc'[q] = IF q = serial THEN "button"
                                     ELSE IF q \in Aboard(c) THEN "lock_out" ELSE passenger_pc[q]
    BY <2>1, <2>3 DEF OneForTheButton, Released
  <2> QED BY <1>7, <2>2, <2>3, BarrierOpens
<1>8. ASSUME NEW p \in Passengers, PressButton(p) PROVE OneForTheButton'
  <2>1. Released(c)
    BY <1>8, PressesAlone
  <2>2. /\ UNCHANGED <<current_trolley, passengers, trolley_of>>
        /\ passenger_pc' = [passenger_pc EXCEPT ![p] = "lock_out"]
        /\ passenger_pc[p] = "button"
    BY <1>8 DEF PressButton, shared, Goto
  <2>3. Aboard(c)' = Aboard(c) /\ Aboard(c) \subseteq Passengers
    BY <1>1, <2>2 DEF Aboard, Seated, TypeOK
  <2> QED BY <1>1, <2>1, <2>2, <2>3 DEF OneForTheButton, Released, TypeOK
<1>9. ASSUME NEW t \in Trolley, passengers[t] = 0, t = c, current_trolley' = c, Aboard(t)' = Aboard(t)
      PROVE  OneForTheButton'
  BY <1>9, EmptyTrolley DEF OneForTheButton, Gathering
<1>10. ASSUME NEW t \in Trolley, AcquireQueue(t) PROVE OneForTheButton'
  <2>1. /\ UNCHANGED <<current_trolley, passengers, passenger_pc>> /\ Aboard(t)' = Aboard(t)
        /\ Aboard(c)' = Aboard(c)
    BY <1>10 DEF AcquireQueue, shared, Aboard, Seated
  <2>2. CASE t = c /\ n[t] = 0
    BY <1>9, <2>1, <2>2 DEF ButtonInv, NotYetServed
  <2>3. CASE ~(t = c /\ n[t] = 0)
    <3>1. AtLoad(c)' => AtLoad(c)
      BY <1>1, <1>10, <2>1, <2>3 DEF AcquireQueue, AtLoad, TypeOK, Goto
    <3> QED BY <1>2, <2>1, <3>1
  <2> QED BY <2>2, <2>3
<1>11. ASSUME NEW t \in Trolley, Dropped(t) PROVE OneForTheButton'
  <2>1. passengers[t] = 0 /\ t = c
    BY <1>11, AtStationOnly DEF Dropped, Inv, StationInv, Seats
  <2>2. current_trolley' = c /\ Aboard(t)' = Aboard(t)
    BY <1>11 DEF Dropped, Aboard, Seated
  <2> QED BY <1>9, <2>1, <2>2
<1>12. ASSUME NEW t \in Trolley, EnableButton(t) \/ AwaitPress(t) PROVE OneForTheButton'
  <2>1. AtLoad(t) /\ t = c
    BY <1>12, AtStationOnly DEF EnableButton, AwaitPress, AtLoad
  <2>2. UNCHANGED <<current_trolley, passengers, passenger_pc, trolley_of>>
    BY <1>12 DEF EnableButton, AwaitPress, shared
  <2>3. Aboard(c)' = Aboard(c)
    BY <2>2 DEF Aboard, Seated
  <2> QED BY <1>2, <2>1, <2>2, <2>3
<1>13. ASSUME NEW t \in Trolley, Close(t) PROVE OneForTheButton'
  <2>1. TypeOK'
    BY NextInv DEF Inv
  <2> QED BY <1>13, <2>1, NobodyLoads DEF OneForTheButton, TypeOK
<1> QED BY <1>1, <1>3, <1>4, <1>5, <1>6, <1>7, <1>8, <1>10, <1>11, <1>12, <1>13, StillNext

LEMMA PressedNext ==
  ASSUME Inv, ButtonInv, [Next]_vars
  PROVE  Pressed'
<1> DEFINE c == current_trolley
<1>1. TypeOK /\ c \in Trolley /\ Pressed /\ TestsStillHold /\ Doors
  BY DEF Inv, StationInv, TypeOK, ButtonInv
<1>2. CASE Still
  BY <1>1, <1>2 DEF Still, Pressed, Starting, button
<1>3. CASE FreeButton
  BY <1>1, <1>3, Parameters DEF FreeButton, Pressed, Starting, shared, Inv, StationInv, DieLast
<1>4. ASSUME NEW p \in Passengers, Board(p) PROVE Pressed'
  <2>1. trolley_pc[c] # "press"
    BY <1>4, BoardFacts
  <2>2. mutex_button_press /\ (~mutex_button_wait => main_pc \in {"join_passengers", "exited"})
    BY <1>1, <2>1 DEF Pressed
  <2> QED BY <1>4, <2>2 DEF Board, Pressed, button
<1>5. ASSUME NEW p \in Passengers, Leave(p) PROVE Pressed'
  <2>1. trolley_pc[c] # "press"
    BY <1>5, LeaveFacts
  <2>2. mutex_button_press /\ (~mutex_button_wait => main_pc \in {"join_passengers", "exited"})
    BY <1>1, <2>1 DEF Pressed
  <2> QED BY <1>5, <2>2 DEF Leave, Pressed, button
<1>6. ASSUME NEW p \in Passengers, ReachBarrier(p) PROVE Pressed'
  <2>1. mutex_button_press
    BY <1>1, <1>6 DEF Pressed, Starting, ReachBarrier
  <2> QED BY <1>1, <1>6, <2>1 DEF ReachBarrier, Pressed, button, shared
<1>7. ASSUME NEW p \in Passengers, PressButton(p) PROVE Pressed'
  <2>1. ~die /\ \A q \in Passengers \ {p} : ~Starting(q)
    BY <1>7, PressesAlone
  <2>2. main_pc = "join_trolleys" /\ ~mutex_button_wait
    BY <1>7, <2>1 DEF PressButton, Inv, StationInv, DieLast
  <2>3. trolley_pc[c] = "press"
    BY <1>1, <2>2 DEF Pressed
  <2>4. /\ mutex_button_wait' = TRUE /\ mutex_button_press' = FALSE
        /\ UNCHANGED <<trolley_pc, current_trolley>>
        /\ passenger_pc' = [passenger_pc EXCEPT ![p] = "lock_out"]
    BY <1>7, <2>1 DEF PressButton, Goto, shared
  <2>5. \A q \in Passengers : ~Starting(q)'
    BY <1>1, <2>1, <2>4 DEF Starting, TypeOK
  <2> QED BY <2>3, <2>4, <2>5 DEF Pressed
<1>8. ASSUME NEW t \in Trolley, AcquireQueue(t) PROVE Pressed'
  BY <1>1, <1>8 DEF AcquireQueue, Pressed, Starting, shared, button, TypeOK, Goto
<1>9. ASSUME NEW t \in Trolley, Dropped(t) PROVE Pressed'
  BY <1>1, <1>9, AtStationOnly DEF Dropped, Pressed, button
<1>10. ASSUME NEW t \in Trolley, EnableButton(t) PROVE Pressed'
  <2>1. t = c /\ mutex_button_press
    BY <1>1, <1>10, AtStationOnly DEF EnableButton, AtLoad, Pressed
  <2> QED BY <1>1, <1>10, <2>1 DEF EnableButton, Pressed, shared, TypeOK, Goto
<1>11. ASSUME NEW t \in Trolley, AwaitPress(t) PROVE Pressed'
  BY <1>1, <1>11 DEF AwaitPress, Pressed
<1>12. ASSUME NEW t \in Trolley, Close(t) PROVE Pressed'
  <2>1. trolley_pc[c] = "close"
    BY <1>12, AtStationOnly DEF Close
  <2>2. mutex_button_press /\ (~mutex_button_wait => main_pc \in {"join_passengers", "exited"})
    BY <1>1, <2>1 DEF Pressed
  <2> QED BY <1>12, <2>2 DEF Close, Pressed, button
<1> QED BY <1>1, <1>2, <1>3, <1>4, <1>5, <1>6, <1>7, <1>8, <1>9, <1>10, <1>11, <1>12, StillNext

LEMMA NotYetServedNext ==
  ASSUME Inv, ButtonInv, [Next]_vars
  PROVE  NotYetServed'
<1>1. /\ current_trolley \in Trolley /\ n \in [Trolley -> 0 .. N + 1]
      /\ passengers \in [Trolley -> Int] /\ NotYetServed
  BY DEF Inv, TypeOK, ButtonInv
<1>2. \A t \in Trolley : n'[t] = 0 => n[t] = 0
  <2>1. TypeOK /\ Rounds /\ Doors
    BY DEF Inv, StationInv
  <2>2. ASSUME NEW t \in Trolley, AcquireQueue(t) PROVE n' = n \/ n' = [n EXCEPT ![t] = 1]
    BY <2>2 DEF AcquireQueue
  <2>3. ASSUME NEW t \in Trolley, Dropped(t) PROVE n' = [n EXCEPT ![t] = @ + 1]
    BY <2>3 DEF Dropped
  <2>4. ASSUME NEW t \in Trolley, Close(t) \/ ArriveAtBarrier(t) PROVE n' = n
    BY <2>4 DEF Close, ArriveAtBarrier
  <2> QED BY <1>1, <2>1, <2>2, <2>3, <2>4, QuietNext, Parameters DEF Quiet
<1>3. ASSUME NEW p \in Passengers, Board(p)
      PROVE  \A t \in Trolley : n[t] = 0 => passengers'[t] = passengers[t]
  BY <1>1, <1>3, BoardFacts
<1>4. ASSUME NEW p \in Passengers, Leave(p)
      PROVE  \A t \in Trolley : n[t] = 0 => passengers'[t] = passengers[t]
  BY <1>1, <1>4, LeaveFacts
<1>5. CASE SeatsKept
  BY <1>1, <1>2, <1>5 DEF SeatsKept, NotYetServed
<1> QED BY <1>1, <1>2, <1>3, <1>4, <1>5, AboardNext DEF NotYetServed, Inv

LEMMA InitButton == Init => ButtonInv
<1> SUFFICES ASSUME Init PROVE ButtonInv
  OBVIOUS
<1>1. \A p \in Passengers : ~Starting(p)
  BY DEF Init, Starting
<1>2. 0 \in Trolley
  BY Parameters DEF Trolley
<1> QED BY <1>1, <1>2 DEF Init, ButtonInv, StartersAtStation, OneForTheButton, AtLoad, Pressed, NotYetServed

-----------------------------------------------------------------------------
RideInv == Inv /\ OrderInv /\ ButtonInv

LEMMA RideInvariance == Spec => []RideInv
<1>1. Init => RideInv
  BY InitInv, InitOrder, InitButton DEF RideInv
<1>2. RideInv /\ [Next]_vars => RideInv'
  <2> SUFFICES ASSUME RideInv, [Next]_vars PROVE RideInv'
    OBVIOUS
  <2>1. Inv /\ OrderInv /\ ButtonInv
    BY DEF RideInv
  <2>2. Inv' /\ OrderInv'
    BY <2>1, NextInv, OrderNext
  <2>3. ButtonInv'
    BY <2>1, StartersNext, OneForTheButtonNext, PressedNext, NotYetServedNext DEF ButtonInv
  <2> QED BY <2>2, <2>3 DEF RideInv
<1> QED BY <1>1, <1>2, PTL DEF Spec

(* Trolleys stay in order: one is at most a round ahead of those behind it. *)
THEOREM OrderCorrect == Spec => []InOrder
<1>1. RideInv => InOrder
  <2> SUFFICES ASSUME RideInv, NEW t \in Trolley, NEW u \in Trolley, t < u
               PROVE  n[t] - n[u] \in 0 .. 1
    BY DEF InOrder
  <2>1. TypeOK /\ Doors /\ Counted /\ Platform
    BY DEF RideInv, Inv, StationInv, OrderInv
  <2>2. /\ current_trolley \in Nat /\ t \in Nat /\ u \in Nat
        /\ n[t] \in Int /\ n[u] \in Int
    BY <2>1, SMTT(30) DEF TypeOK, Trolley
  <2>3. n[t] - (IF Early(t) THEN 0 ELSE 1) = n[u] - (IF Early(u) THEN 0 ELSE 1)
    BY <2>1 DEF Counted
  <2>4. ASSUME Early(t), ~Early(u) PROVE FALSE
    <3>1. current_trolley <= t /\ Before(u)
      <4>1. CASE current_trolley > 0
        BY <2>1, <2>2, <2>4, <4>1 DEF Platform, Early, Before
      <4>2. CASE current_trolley = 0
        <5>1. ~All("depart") /\ ~All("ride") /\ ~All("final") /\ ~All("done")
          BY <2>4 DEF All, Early
        <5> QED BY <2>1, <2>2, <4>2, <5>1 DEF Platform
      <4> QED BY <2>2, <4>1, <4>2
    <3>2. AtStation(u)
      BY <2>4, <3>1 DEF Before, Early, Place, AtStation, HoldsQueue
    <3>3. u = current_trolley
      BY <2>1, <3>2 DEF Doors
    <3> QED BY <2>2, <3>1, <3>3
  <2> QED BY <2>2, <2>3, <2>4
<1> QED BY <1>1, RideInvariance, PTL

(* A trolley that closes its door after boarding has had the button pressed *)
(* this time, and nobody is on the way to the button.                       *)
THEOREM ButtonCorrect == Spec => []ButtonPressed
<1>1. RideInv => ButtonPressed
  <2> SUFFICES ASSUME RideInv, NEW t \in Trolley, trolley_pc[t] = "close"
               PROVE  /\ mutex_button_wait /\ mutex_button_press
                      /\ \A p \in Passengers :
                           passenger_pc[p] \notin {"barrier", "in_barrier", "button"}
    BY DEF ButtonPressed
  <2>1. Inv /\ StartersAtStation /\ Pressed
    BY DEF RideInv, ButtonInv
  <2>2. t = current_trolley
    BY <2>1, AtStationOnly
  <2>3. main_pc = "join_trolleys"
    BY <2>1 DEF Inv, StationInv, DieLast
  <2>4. \A p \in Passengers : ~Starting(p)
    BY <2>1, <2>2 DEF StartersAtStation, AtLoad
  <2> QED BY <2>1, <2>2, <2>3, <2>4 DEF Pressed, Starting
<1> QED BY <1>1, RideInvariance, PTL

(* While one trolley is under way all are, on the same ride, with full      *)
(* seats and closed doors.                                                  *)
THEOREM RideCorrect == Spec => []RideTogether
<1>1. RideInv => RideTogether
  <2> SUFFICES ASSUME RideInv, NEW t \in Trolley, trolley_pc[t] = "ride"
               PROVE  /\ ~allow_in /\ ~allow_out
                      /\ \A u \in Trolley :
                           /\ trolley_pc[u] \in {"ride", "in_arrive"}
                           /\ n[u] = n[t]
                           /\ Cardinality(Aboard(u)) = C
                           /\ \A p \in Aboard(u) :
                                passenger_pc[p] \in {"lock_out", "to_wait_out", "cond_out"}
    BY DEF RideTogether
  <2>1. /\ TypeOK /\ Doors /\ TestsStillHold /\ Rounds /\ Seats /\ SeatsCount /\ DieLast
        /\ Counted /\ Platform /\ StartersAtStation
    BY DEF RideInv, Inv, StationInv, OrderInv, ButtonInv
  <2>2. current_trolley \in Trolley /\ current_trolley \in Nat /\ n \in [Trolley -> Int]
    BY <2>1 DEF TypeOK, Trolley
  <2>3. \A u \in Trolley : Place(u) = "ride"
    <3>1. Place(t) = "ride"
      BY DEF Place
    <3>2. CASE current_trolley > 0
      BY <2>1, <3>1, <3>2 DEF Platform, Before
    <3>3. CASE current_trolley = 0
      BY <2>1, <3>1, <3>3 DEF Platform, Before, All
    <3> QED BY <2>2, <3>2, <3>3
  <2>4. \A u \in Trolley : trolley_pc[u] \in {"ride", "in_arrive"} /\ n[u] = n[t]
    <3>1. \A u \in Trolley : trolley_pc[u] \in {"ride", "in_arrive"}
      BY <2>3 DEF Place
    <3>2. \A u \in Trolley : n[u] - 1 = n[t] - 1
      BY <2>1, <2>3 DEF Counted, Early
    <3> QED BY <2>2, <3>1, <3>2
  <2>5. ~allow_in /\ ~allow_out /\ ~die /\ ~AtLoad(current_trolley)
    BY <2>1, <2>2, <2>4 DEF Doors, Loading, Unloading, DieLast, AtLoad
  <2>6. ASSUME NEW u \in Trolley
        PROVE  /\ Cardinality(Aboard(u)) = C
               /\ \A p \in Aboard(u) :
                    passenger_pc[p] \in {"lock_out", "to_wait_out", "cond_out"}
    <3>1. Loaded(u)
      BY <2>1, <2>4 DEF Loaded, Rounds
    <3>2. \A p \in Aboard(u) : p \in Passengers /\ ~Starting(p) /\ passenger_pc[p] # "body_out"
      BY <2>1, <2>5 DEF StartersAtStation, TestsStillHold, CanLeave, Aboard, Seated
    <3> QED BY <2>1, <3>1, <3>2 DEF Seats, SeatsCount, Aboard, Seated, Starting
  <2> QED BY <2>4, <2>5, <2>6
<1> QED BY <1>1, RideInvariance, PTL

-----------------------------------------------------------------------------
(* The threads implement the roller coaster: the stage of a trolley is told *)
(* by its place, and the number of rides by the rounds that are counted.    *)

StageAt(t) ==
  IF Early(t) \/ (Place(t) = "late" /\ n[t] > N) THEN "unload"
  ELSE IF Place(t) = "late" THEN "load"
  ELSE IF Place(t) \in {"depart", "ride"} THEN "track" ELSE "finished"

RoundsOf(t) == n[t] - (IF Early(t) THEN 0 ELSE 1)

LEMMA StageByPlace ==
  TypeOK /\ Rounds => \A t \in Trolley : StageOf(t) = StageAt(t)
<1> SUFFICES ASSUME TypeOK, Rounds, NEW t \in Trolley PROVE StageOf(t) = StageAt(t)
  OBVIOUS
<1>1. trolley_pc[t] \in TrolleyPC /\ n[t] \in Nat
  BY DEF TypeOK
<1>2. CASE Early(t)
  BY <1>2 DEF Early, Place, StageOf, StageAt, Loading
<1>3. CASE Place(t) = "late"
  <2>1. CASE trolley_pc[t] = "close"
    BY <1>1, <1>3, <2>1, Parameters DEF StageOf, StageAt, Loading, Early
  <2>2. CASE trolley_pc[t] # "close"
    <3>1. StageOf(t) = "load"
      BY <1>3, <2>2 DEF Place, StageOf, Loading
    <3>2. ~(n[t] > N)
      BY <1>1, <1>3, <2>2, Parameters DEF Place, Rounds
    <3> QED BY <1>3, <3>1, <3>2 DEF StageAt, Early
  <2> QED BY <2>1, <2>2
<1>4. CASE Place(t) \in {"depart", "ride"}
  BY <1>4 DEF Early, Place, StageOf, StageAt
<1>5. CASE Place(t) \notin {"early", "late", "depart", "ride"}
  BY <1>1, <1>5 DEF Early, Place, StageOf, StageAt, TrolleyPC
<1> QED BY <1>2, <1>3, <1>4, <1>5 DEF Early

LEMMA UnderWayAll ==
  TypeOK /\ Platform => (UnderWay <=> All("ride"))
<1> SUFFICES ASSUME TypeOK, Platform PROVE UnderWay <=> All("ride")
  OBVIOUS
<1>1. 0 \in Trolley /\ current_trolley \in Trolley /\ Trolley \subseteq Nat
  BY Parameters DEF Trolley, TypeOK
<1>2. \A t \in Trolley : Place(t) = "ride" <=> trolley_pc[t] \in {"ride", "in_arrive"}
  BY DEF Place
<1>3. ASSUME NEW t \in Trolley, Place(t) = "ride" PROVE All("ride")
  <2>1. CASE current_trolley > 0
    BY <1>3, <2>1 DEF Platform, Before
  <2>2. CASE current_trolley = 0
    BY <1>3, <2>2 DEF Platform, Before, All
  <2> QED BY <1>1, <2>1, <2>2
<1> QED BY <1>1, <1>2, <1>3 DEF UnderWay, All

LEMMA RidesByRounds ==
  RideInv => \A t \in Trolley : RidesStarted = RoundsOf(t) + (IF UnderWay THEN 1 ELSE 0)
<1> SUFFICES ASSUME RideInv, NEW t \in Trolley
             PROVE  RidesStarted = RoundsOf(t) + (IF UnderWay THEN 1 ELSE 0)
  OBVIOUS
<1>1. TypeOK /\ Rounds /\ Counted /\ Platform
  BY DEF RideInv, Inv, StationInv, OrderInv
<1> DEFINE last == T - 1
<1>2. last \in Trolley
  BY Parameters DEF Trolley
<1>3. RoundsOf(last) = RoundsOf(t)
  BY <1>1, <1>2 DEF Counted, RoundsOf
<1>4. StageOf(last) = StageAt(last)
  BY <1>1, <1>2, StageByPlace
<1>5. n[last] \in Nat /\ (UnderWay <=> Place(last) = "ride")
  <2>1. UnderWay => Place(last) = "ride"
    BY <1>1, <1>2, UnderWayAll DEF All
  <2>2. Place(last) = "ride" => UnderWay
    BY <1>2 DEF Place, UnderWay
  <2> QED BY <1>1, <1>2, <2>1, <2>2 DEF TypeOK
<1>6. /\ Early(last) \/ Place(last) = "ride" => n[last] <= N
      /\ Place(last) \notin {"early", "late", "depart", "ride"} => n[last] > N
  BY <1>1, <1>2, Parameters DEF TypeOK, TrolleyPC, Rounds, Early, Place
<1>7. RidesStarted = IF n[last] > N \/ (StageOf(last) # "unload" /\ ~UnderWay)
                       THEN n[last] - 1 ELSE n[last]
  BY DEF RidesStarted
<1>8. RidesStarted = RoundsOf(last) + (IF UnderWay THEN 1 ELSE 0)
  BY <1>4, <1>5, <1>6, <1>7, Parameters DEF StageAt, RoundsOf, Early
<1> QED BY <1>3, <1>8

LEMMA InitRollerCoaster == Init => RC!Init
<1> SUFFICES ASSUME Init PROVE RC!Init
  OBVIOUS
<1>1. \A t \in Trolley : StageOf(t) = "unload" /\ Aboard(t) = {}
  BY DEF Init, StageOf, Loading, Aboard, Seated
<1>2. ~UnderWay
  BY DEF Init, UnderWay
<1>3. RidesStarted = 0
  BY <1>1, Parameters DEF Init, RidesStarted, Trolley
<1> QED BY <1>1, <1>2, <1>3 DEF RC!Init, RC!Trolley, Trolley

(* What the abstract state is, in terms of places and rounds                *)
AbstractState ==
  /\ \A t \in Trolley : StageOf(t) = StageAt(t)
  /\ UnderWay <=> All("ride")
  /\ \A t \in Trolley : RidesStarted = RoundsOf(t) + (IF UnderWay THEN 1 ELSE 0)

LEMMA Abstraction == RideInv => AbstractState
BY StageByPlace, UnderWayAll, RidesByRounds DEF AbstractState, RideInv, Inv, StationInv, OrderInv

(* All that come before the trolley at the station have left.               *)
LEMMA OthersHaveLeft ==
  ASSUME RideInv, Before(current_trolley)
  PROVE  /\ \A u \in Trolley : u < current_trolley => StageOf(u) \in {"track", "finished"}
         /\ ~UnderWay
<1>1. TypeOK /\ Platform /\ AbstractState
  BY Abstraction DEF RideInv, Inv, OrderInv
<1>2. current_trolley \in Trolley /\ current_trolley \in Nat /\ Trolley \subseteq Nat
  BY <1>1 DEF TypeOK, Trolley
<1>3. ~UnderWay
  BY <1>1, <1>2 DEF AbstractState, All, Before
<1>4. ASSUME NEW u \in Trolley, u < current_trolley PROVE Place(u) \in {"depart", "final"}
  BY <1>1, <1>2, <1>4 DEF Platform
<1> QED BY <1>1, <1>3, <1>4 DEF AbstractState, StageAt, Early

(* Nothing changes for who watches the platform.                            *)
LEMMA Unseen ==
  ASSUME TypeOK, RideInv, RideInv', Quiet
  PROVE  /\ \A t \in Trolley : StageOf(t)' = StageOf(t)
         /\ UnderWay' = UnderWay /\ RidesStarted' = RidesStarted
<1>1. AbstractState /\ AbstractState'
  BY Abstraction, PTL
<1>2. \A t \in Trolley : StageOf(t)' = StageOf(t) /\ RoundsOf(t)' = RoundsOf(t)
  BY <1>1 DEF AbstractState, StageAt, RoundsOf, Early, Quiet
<1>3. UnderWay' = UnderWay
  <2>1. UnderWay' <=> UnderWay
    BY <1>1 DEF AbstractState, All, Quiet
  <2> QED BY <2>1 DEF UnderWay
<1>4. 0 \in Trolley
  BY Parameters DEF Trolley
<1> QED BY <1>1, <1>2, <1>3, <1>4 DEF AbstractState

LEMMA CardinalityOfInstance == \A S : RC!Cardinality(S) = Cardinality(S)
BY DEF RC!Cardinality, Cardinality

LEMMA BoardImplements ==
  ASSUME RideInv, RideInv', NEW p \in Passengers, Board(p)
  PROVE  RC!Board(p, current_trolley)
<1> DEFINE c == current_trolley
<1>1. Inv /\ TypeOK /\ c \in Trolley /\ SeatsCount
  BY DEF RideInv, Inv, StationInv, TypeOK
<1>2. Quiet
  BY <1>1 DEF Quiet, Board, Place, TypeOK, Goto, Woken
<1>3. passengers[c] \in 0 .. C - 1 /\ n[c] \in 1 .. N /\ Place(c) = "late"
  BY <1>1, BoardFacts DEF Place
<1>4. StageOf(c) = "load"
  BY <1>1, <1>3, Abstraction, Parameters DEF AbstractState, StageAt, Early
<1>5. /\ \A u \in Trolley : u < c => StageOf(u) \in {"track", "finished"}
  BY <1>3, OthersHaveLeft DEF Before
<1>6. \A u \in Trolley : p \notin Aboard(u)
  BY DEF Aboard, Seated, Board
<1>7. Cardinality(Aboard(c)) < C
  BY <1>1, <1>3, Parameters DEF SeatsCount
<1>8. \A u \in Trolley : Aboard(u)' = IF u = c THEN Aboard(u) \cup {p} ELSE Aboard(u)
  BY <1>1, AboardBoard
<1>9. /\ \A t \in Trolley : StageOf(t)' = StageOf(t)
      /\ UnderWay' = UnderWay /\ RidesStarted' = RidesStarted
  BY <1>1, <1>2, Unseen
<1> DEFINE riders == [t \in Trolley |-> Aboard(t)]
<1>10. riders' = [riders EXCEPT ![c] = @ \cup {p}]
  BY <1>1, <1>8
<1>11. Cardinality(riders[c]) < C /\ \A u \in Trolley : p \notin riders[u]
  BY <1>1, <1>6, <1>7
<1>12. RC!AtPlatform(c)
  BY <1>1, <1>4, <1>5 DEF RC!AtPlatform, RC!Trolley, Trolley
<1>13. RC!Cardinality(riders[c]) < C
  BY <1>11, CardinalityOfInstance
<1>14. [t \in Trolley |-> StageOf(t)][c] = "load" /\ UNCHANGED [t \in Trolley |-> StageOf(t)]
  BY <1>1, <1>4, <1>9
<1> QED BY <1>9, <1>10, <1>11, <1>12, <1>13, <1>14 DEF RC!Board, RC!Trolley, Trolley

LEMMA LeaveImplements ==
  ASSUME RideInv, RideInv', NEW p \in Passengers, Leave(p)
  PROVE  RC!Leave(p, current_trolley)
<1> DEFINE c == current_trolley
<1>1. Inv /\ TypeOK /\ c \in Trolley
  BY DEF RideInv, Inv, TypeOK
<1>2. Quiet
  BY <1>1 DEF Quiet, Leave, Place, TypeOK, Goto, Woken
<1>3. Place(c) = "early" /\ trolley_of[p] = c
  BY <1>1, LeaveFacts DEF Place
<1>4. StageOf(c) = "unload"
  BY <1>1, <1>3, Abstraction DEF AbstractState, StageAt, Early
<1>5. /\ \A u \in Trolley : u < c => StageOf(u) \in {"track", "finished"}
  BY <1>3, OthersHaveLeft DEF Before
<1>6. /\ p \in Aboard(c)
      /\ \A u \in Trolley : Aboard(u)' = IF u = c THEN Aboard(u) \ {p} ELSE Aboard(u)
  BY <1>1, <1>3, AboardLeave
<1>7. /\ \A t \in Trolley : StageOf(t)' = StageOf(t)
      /\ UnderWay' = UnderWay /\ RidesStarted' = RidesStarted
  BY <1>1, <1>2, Unseen
<1> QED BY <1>1, <1>4, <1>5, <1>6, <1>7 DEF RC!Leave, RC!AtPlatform, RC!Trolley, Trolley

(* A trolley that has let everybody out is ready to admit, or to be put     *)
(* away after the last ride.                                                *)
LEMMA AdmitImplements ==
  ASSUME RideInv, RideInv', NEW t \in Trolley, t = current_trolley, current_trolley' = t,
         n' = [n EXCEPT ![t] = @ + 1], Early(t), Place(t)' = "late",
         \A u \in Trolley \ {t} : Place(u)' = Place(u),
         passengers[t] = 0, UNCHANGED <<passenger_pc, trolley_of>>
  PROVE  IF n[t] < N THEN RC!Admit(t) ELSE UNCHANGED RC!vars
<1>1. Inv /\ AbstractState /\ AbstractState' /\ n \in [Trolley -> 0 .. N + 1]
  BY Abstraction, PTL DEF RideInv, Inv, TypeOK
<1>2. /\ Aboard(t) = {} /\ \A u \in Trolley : Aboard(u)' = Aboard(u)
  BY <1>1, EmptyTrolley DEF Aboard, Seated
<1>3. /\ \A u \in Trolley : u < t => StageOf(u) \in {"track", "finished"}
      /\ ~UnderWay
  BY OthersHaveLeft DEF Before, Early
<1>4. ~UnderWay'
  BY <1>1 DEF AbstractState, All
<1>5. RidesStarted = n[t] /\ RidesStarted' = n[t]
  BY <1>1, <1>3, <1>4 DEF AbstractState, RoundsOf, Early
<1>6. StageOf(t) = "unload" /\ StageOf(t)' = IF n[t] < N THEN "load" ELSE "unload"
  BY <1>1, Parameters DEF AbstractState, StageAt, Early
<1>7. \A u \in Trolley \ {t} : StageOf(u)' = StageOf(u)
  BY <1>1 DEF AbstractState, StageAt, Early
<1> DEFINE stage == [u \in Trolley |-> StageOf(u)]
           riders == [u \in Trolley |-> Aboard(u)]
<1>8. riders' = riders /\ UnderWay' = UnderWay /\ RidesStarted' = RidesStarted
  BY <1>2, <1>3, <1>4, <1>5 DEF UnderWay
<1>9. CASE n[t] < N
  <2>1. stage' = [stage EXCEPT ![t] = "load"]
    BY <1>6, <1>7, <1>9
  <2>2. stage[t] = "unload" /\ riders[t] = {} /\ \A u \in Trolley : u < t => stage[u] \in {"track", "finished"}
    BY <1>2, <1>3, <1>6
  <2>3. RC!AtPlatform(t)
    BY <2>2 DEF RC!AtPlatform, RC!Trolley, Trolley
  <2> QED BY <1>5, <1>8, <1>9, <2>1, <2>2, <2>3 DEF RC!Admit
<1>10. CASE ~(n[t] < N)
  <2>1. stage' = stage
    BY <1>6, <1>7, <1>10
  <2> QED BY <1>8, <1>10, <2>1 DEF RC!vars
<1> QED BY <1>9, <1>10

LEMMA CloseImplements ==
  ASSUME RideInv, RideInv', NEW t \in Trolley, Close(t)
  PROVE  RC!Dispatch(t) \/ RC!PutAway(t)
<1>1. /\ Inv /\ TypeOK /\ Rounds /\ Doors /\ Seats /\ SeatsCount /\ n \in [Trolley -> 0 .. N + 1]
      /\ AbstractState /\ AbstractState'
  BY Abstraction, PTL DEF RideInv, Inv, StationInv, TypeOK
<1>2. /\ t = current_trolley /\ n' = n
      /\ Place(t) = "late" /\ Place(t)' = IF n[t] > N THEN "final" ELSE "depart"
      /\ \A u \in Trolley \ {t} : Place(u)' = Place(u)
  BY <1>1, CloseEffect
<1>3. \A u \in Trolley : Aboard(u)' = Aboard(u)
  BY DEF Close, Aboard, Seated
<1>4. /\ \A u \in Trolley : u < t => StageOf(u) \in {"track", "finished"}
      /\ ~UnderWay
  BY <1>2, OthersHaveLeft DEF Before
<1>5. ~UnderWay'
  BY <1>1, <1>2 DEF AbstractState, All
<1>6. RidesStarted = n[t] - 1 /\ RidesStarted' = n[t] - 1
  BY <1>1, <1>2, <1>4, <1>5 DEF AbstractState, RoundsOf, Early
<1>7. /\ StageOf(t) = IF n[t] > N THEN "unload" ELSE "load"
      /\ StageOf(t)' = IF n[t] > N THEN "finished" ELSE "track"
  BY <1>1, <1>2 DEF AbstractState, StageAt, Early
<1>8. \A u \in Trolley \ {t} : StageOf(u)' = StageOf(u)
  BY <1>1, <1>2 DEF AbstractState, StageAt, Early
<1> DEFINE stage == [u \in Trolley |-> StageOf(u)]
           riders == [u \in Trolley |-> Aboard(u)]
<1>9. riders' = riders /\ UnderWay' = UnderWay /\ RidesStarted' = RidesStarted
  BY <1>3, <1>4, <1>5, <1>6 DEF UnderWay
<1>10. RC!AtPlatform(t)
  <2>1. stage[t] \in {"unload", "load"} /\ \A u \in Trolley : u < t => stage[u] \in {"track", "finished"}
    BY <1>4, <1>7
  <2> QED BY <2>1 DEF RC!AtPlatform, RC!Trolley, Trolley
<1>11. CASE n[t] > N
  <2>1. riders[t] = {} /\ RidesStarted = N
    <3>1. passengers[t] = 0 /\ n[t] = N + 1
      BY <1>1, <1>11, Parameters DEF Seats
    <3> QED BY <1>1, <1>6, <3>1, EmptyTrolley, Parameters
  <2>2. stage[t] = "unload" /\ stage' = [stage EXCEPT ![t] = "finished"]
    BY <1>7, <1>8, <1>11
  <2> QED BY <1>9, <1>10, <2>1, <2>2 DEF RC!PutAway
<1>12. CASE ~(n[t] > N)
  <2>1. RC!Cardinality(riders[t]) = C
    <3>1. Loaded(t)
      BY <1>1, <1>12, Parameters DEF Loaded, Close
    <3> QED BY <1>1, <3>1, CardinalityOfInstance DEF Seats, SeatsCount
  <2>2. stage[t] = "load" /\ stage' = [stage EXCEPT ![t] = "track"]
    BY <1>7, <1>8, <1>12
  <2> QED BY <1>9, <1>10, <2>1, <2>2 DEF RC!Dispatch
<1> QED BY <1>11, <1>12

(* The ride starts and ends for all the trolleys at once.                   *)
LEMMA BarrierImplements ==
  ASSUME RideInv, RideInv', NEW t \in Trolley, ArriveAtBarrier(t)
  PROVE  RC!StartRide \/ RC!EndRide \/ UNCHANGED RC!vars
<1>1. TypeOK /\ Platform /\ AbstractState /\ AbstractState' /\ n \in [Trolley -> 0 .. N + 1]
  BY Abstraction, PTL DEF RideInv, Inv, OrderInv, TypeOK
<1>2. \A u \in Trolley : Aboard(u)' = Aboard(u)
  BY DEF ArriveAtBarrier, Aboard, Seated
<1>3. 0 \in Trolley
  BY Parameters DEF Trolley
<1> DEFINE stage == [u \in Trolley |-> StageOf(u)]
           riders == [u \in Trolley |-> Aboard(u)]
<1>4. riders' = riders
  BY <1>2
<1>5. CASE Quiet
  BY <1>1, <1>4, <1>5, Unseen DEF RC!vars
<1>6. ASSUME n' = n, All("depart"), All("ride")' PROVE RC!StartRide
  <2>1. \A u \in Trolley : StageOf(u) = "track" /\ StageOf(u)' = "track"
    BY <1>1, <1>6 DEF AbstractState, All, StageAt, Early
  <2>2. ~UnderWay /\ UnderWay'
    BY <1>1, <1>3, <1>6 DEF AbstractState, All
  <2>3. RidesStarted = n[0] - 1 /\ RidesStarted' = n[0]
    BY <1>1, <1>3, <1>6, <2>2 DEF AbstractState, All, RoundsOf, Early
  <2>4. RidesStarted' = RidesStarted + 1
    BY <1>1, <1>3, <2>3
  <2>5. \A u \in RC!Trolley : stage[u] = "track"
    BY <2>1 DEF RC!Trolley, Trolley
  <2>6. UnderWay' = TRUE
    BY <2>2 DEF UnderWay
  <2>7. stage' = stage
    BY <2>1
  <2> QED BY <1>4, <2>2, <2>4, <2>5, <2>6, <2>7 DEF RC!StartRide
<1>7. ASSUME n' = n, All("ride"), All("early")' PROVE RC!EndRide
  <2>1. \A u \in Trolley : StageOf(u)' = "unload"
    BY <1>1, <1>7 DEF AbstractState, All, StageAt, Early
  <2>2. UnderWay /\ ~UnderWay'
    BY <1>1, <1>3, <1>7 DEF AbstractState, All
  <2>3. RidesStarted = n[0] /\ RidesStarted' = n[0]
    BY <1>1, <1>3, <1>7, <2>2 DEF AbstractState, All, RoundsOf, Early
  <2>4. UnderWay' = FALSE
    BY <2>2 DEF UnderWay
  <2>5. stage' = [u \in RC!Trolley |-> "unload"]
    BY <2>1 DEF RC!Trolley, Trolley
  <2> QED BY <1>4, <2>2, <2>3, <2>4, <2>5 DEF RC!EndRide
<1>8. ASSUME n' = n, All("final"), All("done")' PROVE UNCHANGED RC!vars
  <2>1. \A u \in Trolley : StageOf(u) = "finished" /\ StageOf(u)' = "finished"
    BY <1>1, <1>8 DEF AbstractState, All, StageAt, Early
  <2>2. ~UnderWay /\ ~UnderWay'
    BY <1>1, <1>3, <1>8 DEF AbstractState, All
  <2>3. RidesStarted = n[0] - 1 /\ RidesStarted' = n[0] - 1
    BY <1>1, <1>3, <1>8, <2>2 DEF AbstractState, All, RoundsOf, Early
  <2>4. UnderWay' = UnderWay
    BY <2>2 DEF UnderWay
  <2>5. stage' = stage
    BY <2>1
  <2> QED BY <1>4, <2>3, <2>4, <2>5 DEF RC!vars
<1> QED BY <1>1, <1>5, <1>6, <1>7, <1>8, BarrierEffect

(* Every step of a thread is a step of the roller coaster or is not seen.   *)
LEMMA StepImplements ==
  ASSUME RideInv, RideInv', [Next]_vars
  PROVE  [RC!Next]_(RC!vars)
<1>1. /\ Inv /\ TypeOK /\ Rounds /\ Doors /\ Seats /\ NotYetServed
      /\ n \in [Trolley -> 0 .. N + 1] /\ current_trolley \in Trolley
  BY DEF RideInv, Inv, StationInv, ButtonInv, TypeOK
<1>2. RC!Trolley = Trolley
  BY DEF RC!Trolley, Trolley
<1>3. ASSUME NEW p \in Passengers, Board(p) \/ Leave(p) PROVE RC!Next
  BY <1>1, <1>2, <1>3, BoardImplements, LeaveImplements DEF RC!Next
<1>4. ASSUME Quiet, SeatsKept PROVE UNCHANGED RC!vars
  <2>1. [t \in Trolley |-> StageOf(t)]' = [t \in Trolley |-> StageOf(t)]
    BY <1>1, <1>4, Unseen
  <2>2. [t \in Trolley |-> Aboard(t)]' = [t \in Trolley |-> Aboard(t)]
    BY <1>4 DEF SeatsKept
  <2> QED BY <1>1, <1>4, <2>1, <2>2, Unseen DEF RC!vars
<1>5. ASSUME NEW t \in Trolley, t = current_trolley, current_trolley' = t,
             n' = [n EXCEPT ![t] = @ + 1], Early(t), Place(t)' = "late",
             \A u \in Trolley \ {t} : Place(u)' = Place(u),
             passengers[t] = 0, UNCHANGED <<passenger_pc, trolley_of>>
      PROVE  [RC!Next]_(RC!vars)
  <2>1. IF n[t] < N THEN RC!Admit(t) ELSE UNCHANGED RC!vars
    BY <1>5, AdmitImplements
  <2> QED BY <1>2, <2>1 DEF RC!Next
<1>6. ASSUME NEW t \in Trolley, AcquireQueue(t) PROVE [RC!Next]_(RC!vars)
  <2>1. UNCHANGED <<passenger_pc, trolley_of, passengers>>
    BY <1>6 DEF AcquireQueue, shared
  <2>2. CASE Quiet
    BY <1>4, <2>1, <2>2 DEF SeatsKept, Aboard, Seated
  <2>3. CASE ~Quiet
    <3>1. /\ t = current_trolley /\ current_trolley' = current_trolley
          /\ n[t] = 0 /\ n' = [n EXCEPT ![t] = 1]
          /\ Early(t) /\ Place(t)' = "late"
          /\ \A u \in Trolley \ {t} : Place(u)' = Place(u)
      BY <1>1, <1>6, <2>3, AcquireQueueEffect
    <3>2. n' = [n EXCEPT ![t] = @ + 1] /\ passengers[t] = 0
      BY <1>1, <3>1 DEF NotYetServed
    <3> QED BY <1>5, <2>1, <3>1, <3>2
  <2> QED BY <2>2, <2>3
<1>7. ASSUME NEW t \in Trolley, Dropped(t) PROVE [RC!Next]_(RC!vars)
  <2>1. UNCHANGED <<passenger_pc, trolley_of>> /\ passengers[t] = 0
    BY <1>1, <1>7 DEF Dropped, Seats
  <2> QED BY <1>1, <1>5, <1>7, <2>1, DroppedEffect
<1>8. ASSUME NEW t \in Trolley, Close(t) PROVE RC!Next
  BY <1>2, <1>8, CloseImplements DEF RC!Next
<1>9. ASSUME NEW t \in Trolley, ArriveAtBarrier(t) PROVE [RC!Next]_(RC!vars)
  BY <1>9, BarrierImplements DEF RC!Next
<1> QED BY <1>1, <1>3, <1>4, <1>6, <1>7, <1>8, <1>9, QuietNext, AboardNext

(* What the threads do with mutexes, condition variables, barriers and the  *)
(* button is a behaviour of the abstract roller coaster.                    *)
THEOREM RollerCoasterCorrect == Spec => ImplementsRollerCoaster
<1>1. RideInv /\ RideInv' /\ [Next]_vars => [RC!Next]_(RC!vars)
  BY StepImplements
<1> QED BY <1>1, InitRollerCoaster, RideInvariance, PTL DEF Spec, ImplementsRollerCoaster, RC!Spec

=============================================================================
