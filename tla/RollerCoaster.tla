--------------------------- MODULE RollerCoaster ---------------------------
(***************************************************************************)
(* What the roller coaster of cw09/zad1 promises to somebody who watches   *)
(* the platform and knows nothing of threads, mutexes or buttons.          *)
(*                                                                         *)
(* Trolleys visit the platform one at a time, in the order of their        *)
(* numbers.  At the platform a trolley first lets everybody out, then      *)
(* takes exactly C passengers and is dispatched to the track.  When all of *)
(* them are on the track they ride together, N times; afterwards each one  *)
(* lets its last passengers out and is put away.                           *)
(*                                                                         *)
(* Module Trolleys, which models the program thread by thread, implements  *)
(* this specification (Trolleys!ImplementsRollerCoaster).                  *)
(***************************************************************************)
EXTENDS Integers, FiniteSets

CONSTANTS
  Passengers,  \* the passengers of the amusement park
  T,           \* number of trolleys
  C,           \* capacity of a trolley
  N            \* number of rides

Trolley == 0 .. T - 1

VARIABLES
  stage,   \* where each trolley is in its round
  riders,  \* who sits in each trolley
  riding,  \* the trolleys are under way
  rides    \* number of rides that have started

vars == <<stage, riders, riding, rides>>

Stages == {"unload", "load", "track", "finished"}

TypeOK ==
  /\ stage \in [Trolley -> Stages]
  /\ riders \in [Trolley -> SUBSET Passengers]
  /\ riding \in BOOLEAN
  /\ rides \in 0 .. N

Init ==
  /\ stage = [t \in Trolley |-> "unload"]
  /\ riders = [t \in Trolley |-> {}]
  /\ riding = FALSE
  /\ rides = 0

(* It is the turn of trolley t: all the trolleys before it have left.       *)
AtPlatform(t) ==
  /\ stage[t] \in {"unload", "load"}
  /\ \A u \in Trolley : u < t => stage[u] \in {"track", "finished"}

Leave(p, t) ==
  /\ AtPlatform(t) /\ stage[t] = "unload"
  /\ p \in riders[t]
  /\ riders' = [riders EXCEPT ![t] = @ \ {p}]
  /\ UNCHANGED <<stage, riding, rides>>

Admit(t) ==
  /\ AtPlatform(t) /\ stage[t] = "unload"
  /\ riders[t] = {}
  /\ rides < N
  /\ stage' = [stage EXCEPT ![t] = "load"]
  /\ UNCHANGED <<riders, riding, rides>>

Board(p, t) ==
  /\ AtPlatform(t) /\ stage[t] = "load"
  /\ \A u \in Trolley : p \notin riders[u]
  /\ Cardinality(riders[t]) < C
  /\ riders' = [riders EXCEPT ![t] = @ \cup {p}]
  /\ UNCHANGED <<stage, riding, rides>>

Dispatch(t) ==
  /\ AtPlatform(t) /\ stage[t] = "load"
  /\ Cardinality(riders[t]) = C
  /\ stage' = [stage EXCEPT ![t] = "track"]
  /\ UNCHANGED <<riders, riding, rides>>

StartRide ==
  /\ ~riding
  /\ \A t \in Trolley : stage[t] = "track"
  /\ riding' = TRUE
  /\ rides' = rides + 1
  /\ UNCHANGED <<stage, riders>>

EndRide ==
  /\ riding
  /\ riding' = FALSE
  /\ stage' = [t \in Trolley |-> "unload"]
  /\ UNCHANGED <<riders, rides>>

PutAway(t) ==
  /\ AtPlatform(t) /\ stage[t] = "unload"
  /\ riders[t] = {}
  /\ rides = N
  /\ stage' = [stage EXCEPT ![t] = "finished"]
  /\ UNCHANGED <<riders, riding, rides>>

Next ==
  \/ \E t \in Trolley :
        \/ Admit(t) \/ Dispatch(t) \/ PutAway(t)
        \/ \E p \in Passengers : Leave(p, t) \/ Board(p, t)
  \/ StartRide
  \/ EndRide

Spec == Init /\ [][Next]_vars
=============================================================================
