-------------------------------- MODULE Belt --------------------------------
(***************************************************************************)
(* What the conveyor belt of cw07 promises to somebody who sees neither    *)
(* the ring buffer nor the semaphore: a first-in first-out belt that never *)
(* carries more than K packages or more than M kilograms, emptied into     *)
(* trucks that never carry more than X.  Module Conveyor implements it.    *)
(***************************************************************************)
EXTENDS Integers, Sequences

CONSTANTS
  Package,   \* the packages, records with a field weight
  X,         \* truck capacity
  K,         \* most packages on the belt
  M          \* most weight on the belt

VARIABLES
  belt,        \* the packages on the belt, the oldest first
  load,        \* the weight on the belt
  truck,       \* the weight in the truck
  delivered,   \* the packages put in trucks, in that order
  closed       \* the trucker has given up

vars == <<belt, load, truck, delivered, closed>>

Init ==
  /\ belt = <<>> /\ load = 0 /\ truck = 0
  /\ delivered = <<>>
  /\ closed = FALSE

Put(p) ==
  /\ ~closed
  /\ Len(belt) < K /\ load + p.weight <= M
  /\ belt' = Append(belt, p)
  /\ load' = load + p.weight
  /\ UNCHANGED <<truck, delivered, closed>>

Fits == truck + Head(belt).weight <= X

Take ==
  /\ ~closed
  /\ belt # <<>> /\ Fits
  /\ delivered' = Append(delivered, Head(belt))
  /\ truck' = truck + Head(belt).weight
  /\ load' = load - Head(belt).weight
  /\ belt' = Tail(belt)
  /\ UNCHANGED closed

Depart ==
  /\ ~closed
  /\ belt # <<>> /\ ~Fits /\ truck > 0
  /\ truck' = 0
  /\ UNCHANGED <<belt, load, delivered, closed>>

GiveUp ==
  /\ ~closed
  /\ belt # <<>> /\ ~Fits /\ truck = 0
  /\ closed' = TRUE
  /\ UNCHANGED <<belt, load, truck, delivered>>

Next == (\E p \in Package : Put(p)) \/ Take \/ Depart \/ GiveUp

Spec == Init /\ [][Next]_vars
=============================================================================
