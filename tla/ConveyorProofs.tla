--------------------------- MODULE ConveyorProofs ---------------------------
(***************************************************************************)
(* What is proved of the conveyor belt, for any number of loaders, any     *)
(* belt, truck and weights: types and mutual exclusion, for zad1 and zad2  *)
(* and with SIGINT to whoever may receive it; and, when nobody is          *)
(* interrupted, that it implements module Belt and that no package is      *)
(* lost, repeated or overtaken by another of its loader.                   *)
(***************************************************************************)
EXTENDS Conveyor, FiniteSetTheorems, TLAPS

(* The trucker works on the belt, and has not been interrupted              *)
Working ==
  trucker_pc \notin {"set_limits", "finish", "count", "block", "drain", "cleanup", "gone"}

AddingPC == {"write", "add_weight", "read_number", "write_number", "commit"}

(* Who computes a place on the belt modulo belt_K finds it set.             *)
BeltIsSet ==
  /\ Working => belt_K = K
  /\ left > 0 => belt_K = K
  /\ current_total_number_of_packages > 0 => belt_K = K
  /\ \A l \in Loaders : loader_pc[l] \in AddingPC => belt_K = K

(* A loader that is on its way to the belt has drawn a weight and has still *)
(* packages to load.                                                        *)
HasPackage ==
  \A l \in Loaders :
    /\ loader_pc[l] \in {"take", "test"} \cup AddingPC => weight[l] # 0
    /\ loader_pc[l] \in {"draw", "take", "test"} \cup AddingPC => loaded[l] < C
    /\ loader_pc[l] = "give" /\ weight[l] # 0 => loaded[l] < C

TypeInv == TypeOK /\ BeltIsSet /\ HasPackage

(* Whoever finds the semaphore free finds nobody inside.                    *)
MutexInv ==
  /\ loader_pc \in [Loaders -> LoaderPC]
  /\ sem = "free" => ~InsideTrucker /\ \A l \in Loaders : ~InsideLoader(l)
  /\ MutualExclusion

-----------------------------------------------------------------------------
(* SIGINT takes a process out of its critical section, and gives back the   *)
(* semaphore only if the process had taken it.                              *)
LEMMA MutexNext == MutexInv /\ [Next]_vars => MutexInv'
<1> SUFFICES ASSUME MutexInv, [Next]_vars PROVE MutexInv'
  OBVIOUS
<1> USE DEF MutexInv, MutualExclusion, InsideTrucker, InsideLoader, LoaderPC, Goto
<1>1. ASSUME NEW l \in Loaders, LoaderStep(l) PROVE MutexInv'
  <2>1. CASE Draw(l)
    BY <2>1 DEF Draw, trucker
  <2>2. CASE FindNoTrucker(l)
    BY <2>2 DEF FindNoTrucker, trucker
  <2>3. CASE LoaderTake(l)
    BY <2>3 DEF LoaderTake, trucker
  <2>4. CASE LoaderTest(l)
    BY <2>4 DEF LoaderTest, trucker
  <2>5. CASE WritePackage(l)
    BY <2>5 DEF WritePackage, trucker
  <2>6. CASE AddWeight(l)
    BY <2>6 DEF AddWeight, trucker
  <2>7. CASE ReadNumber(l)
    BY <2>7 DEF ReadNumber, trucker
  <2>8. CASE WriteNumber(l)
    BY <2>8 DEF WriteNumber, trucker
  <2>9. CASE Commit(l)
    BY <2>9 DEF Commit, trucker
  <2>10. CASE LoaderGive(l)
    BY <2>10 DEF LoaderGive, trucker
  <2> QED BY <1>1, <2>1, <2>2, <2>3, <2>4, <2>5, <2>6, <2>7, <2>8, <2>9, <2>10 DEF LoaderStep
<1>2. ASSUME NEW l \in Loaders, LoaderInterrupt(l) PROVE MutexInv'
  BY <1>2 DEF LoaderInterrupt, trucker
<1>3. CASE TruckerStep
  <2>1. CASE SetLimits \/ ResetEnds \/ ResetNumber \/ ResetWeight
    BY <2>1 DEF SetLimits, ResetEnds, ResetNumber, ResetWeight, loaders
  <2>2. CASE TruckerTake
    BY <2>2 DEF TruckerTake, loaders
  <2>3. CASE TruckerTest
    BY <2>3 DEF TruckerTest, loaders
  <2>4. CASE Examine
    BY <2>4 DEF Examine, loaders
  <2>5. CASE Advance \/ Uncount \/ Unweigh \/ Load
    BY <2>5 DEF Advance, Uncount, Unweigh, Load, loaders
  <2>6. CASE TruckerGive
    BY <2>6 DEF TruckerGive, loaders
  <2>7. CASE Finish \/ CountLeft \/ BlockLoaders
    BY <2>7 DEF Finish, CountLeft, BlockLoaders, loaders
  <2>8. CASE Drain
    BY <2>8 DEF Drain, loaders
  <2>9. CASE Cleanup
    BY <2>9 DEF Cleanup, loaders
  <2> QED BY <1>3, <2>1, <2>2, <2>3, <2>4, <2>5, <2>6, <2>7, <2>8, <2>9 DEF TruckerStep
<1>4. CASE TruckerInterrupt
  BY <1>4 DEF TruckerInterrupt, loaders
<1>5. CASE UNCHANGED vars
  BY <1>5 DEF vars, trucker, loaders
<1> QED BY <1>1, <1>2, <1>3, <1>4, <1>5 DEF Next

(* No two processes are in their critical sections at once, whoever is      *)
(* interrupted and wherever, with SEM_UNDO as without it.                   *)
THEOREM MutexCorrect == Spec => []MutualExclusion
<1>1. Init => MutexInv
  BY DEF Init, MutexInv, MutualExclusion, InsideTrucker, InsideLoader, LoaderPC
<1>2. MutexInv => MutualExclusion
  BY DEF MutexInv
<1> QED BY <1>1, <1>2, MutexNext, PTL DEF Spec

-----------------------------------------------------------------------------
(* Facts about numbers                                                      *)
LEMMA WrapType == \A x \in Int : Wrap(x) \in 0 .. Word - 1
  BY ArgumentsAssumption DEF Wrap

LEMMA SlotNext == \A s \in Slot : (s + 1) % K \in Slot
  BY ArgumentsAssumption DEF Slot

LEMMA PackageWeight == \A p \in Package \cup {Unwritten} : p.weight \in Nat
<1> SUFFICES ASSUME NEW p \in Package \cup {Unwritten} PROVE p.weight \in Nat
  OBVIOUS
<1>1. CASE p \in Package
  <2>1. p.weight \in Weights
    BY <1>1 DEF Package
  <2> QED BY <2>1, ArgumentsAssumption
<1>2. CASE p = Unwritten
  BY <1>2 DEF Unwritten
<1> QED BY <1>1, <1>2

LEMMA InitTypes == Init => TypeInv
<1> SUFFICES ASSUME Init PROVE TypeInv
  OBVIOUS
<1> USE ArgumentsAssumption DEF Init
<1>1. TypeOK
  BY DEF TypeOK, Slot, TruckerPC, LoaderPC
<1>2. BeltIsSet
  BY DEF BeltIsSet, Working, AddingPC
<1>3. HasPackage
  BY DEF HasPackage, AddingPC
<1> QED BY <1>1, <1>2, <1>3 DEF TypeInv

LEMMA LoaderTypes ==
  ASSUME TypeInv, NEW l \in Loaders, LoaderStep(l) PROVE TypeInv'
<1> USE DEF TypeInv
<1>0. /\ weight[l] \in Nat /\ loaded[l] \in 0 .. C /\ register[l] \in 0 .. Word - 1
      /\ C \in Nat /\ K \in Nat \ {0} /\ Word \in Nat /\ Weights \subseteq Nat \ {0}
  <2>1. weight[l] \in Weights \cup {0} /\ loaded[l] \in 0 .. C /\ register[l] \in 0 .. Word - 1
    BY DEF TypeOK
  <2>2. Weights \subseteq Nat \ {0} /\ C \in Nat /\ K \in Nat \ {0} /\ Word \in Nat
    BY ArgumentsAssumption
  <2>3. weight[l] \in Nat
    <3>1. \A w \in Weights : w \in Nat
      BY ArgumentsAssumption
    <3>2. weight[l] \in Weights \/ weight[l] = 0
      BY <2>1
    <3> QED BY <3>1, <3>2
  <2> QED BY <2>1, <2>2, <2>3
<1>1. CASE Draw(l)
  <2> USE <1>1 DEF Draw, Goto, conveyor, trucker
  <2>1. TypeOK'
    BY DEF TypeOK, LoaderPC
  <2>2. BeltIsSet'
    BY DEF BeltIsSet, Working, AddingPC, TypeOK
  <2>3. HasPackage'
    BY <1>0 DEF HasPackage, AddingPC, TypeOK
  <2> QED BY <2>1, <2>2, <2>3
<1>2. CASE FindNoTrucker(l)
  <2> USE <1>2 DEF FindNoTrucker, Goto, conveyor, trucker
  <2>1. TypeOK'
    BY DEF TypeOK, LoaderPC
  <2>2. BeltIsSet'
    BY DEF BeltIsSet, Working, AddingPC, TypeOK
  <2>3. HasPackage'
    BY <1>0 DEF HasPackage, AddingPC, TypeOK
  <2> QED BY <2>1, <2>2, <2>3
<1>3. CASE LoaderTake(l)
  <2> USE <1>3 DEF LoaderTake, Goto, conveyor, trucker
  <2>1. TypeOK'
    BY DEF TypeOK, LoaderPC
  <2>2. BeltIsSet'
    BY DEF BeltIsSet, Working, AddingPC, TypeOK
  <2>3. HasPackage'
    BY <1>0 DEF HasPackage, AddingPC, TypeOK
  <2> QED BY <2>1, <2>2, <2>3
<1>4. CASE LoaderTest(l)
  <2> USE <1>4 DEF LoaderTest, Goto, conveyor, trucker
  <2>1. TypeOK'
    BY DEF TypeOK, LoaderPC
  <2>2. HasRoom(weight[l]) => belt_K = K
    BY <1>0 DEF HasRoom, TypeOK
  <2>3. BeltIsSet'
    BY <2>2 DEF BeltIsSet, Working, AddingPC, TypeOK
  <2>4. HasPackage'
    BY <1>0 DEF HasPackage, AddingPC, TypeOK
  <2> QED BY <2>1, <2>3, <2>4
<1>5. CASE WritePackage(l)
  <2> USE <1>5 DEF WritePackage, Goto, trucker
  <2>1. [loader |-> l, number |-> loaded[l] + 1, weight |-> weight[l]] \in Package
    BY <1>0 DEF HasPackage, AddingPC, TypeOK, Package
  <2>2. TypeOK'
    BY <2>1 DEF TypeOK, LoaderPC
  <2>3. BeltIsSet'
    BY DEF BeltIsSet, Working, AddingPC, TypeOK
  <2>4. HasPackage'
    BY <1>0 DEF HasPackage, AddingPC, TypeOK
  <2> QED BY <2>2, <2>3, <2>4
<1>6. CASE AddWeight(l)
  <2> USE <1>6 DEF AddWeight, Goto, trucker
  <2>1. current_total_weight_of_packages' \in 0 .. Word - 1
    BY <1>0, WrapType DEF TypeOK
  <2>2. TypeOK'
    BY <2>1 DEF TypeOK, LoaderPC
  <2>3. BeltIsSet'
    BY DEF BeltIsSet, Working, AddingPC, TypeOK
  <2>4. HasPackage'
    BY <1>0 DEF HasPackage, AddingPC, TypeOK
  <2> QED BY <2>2, <2>3, <2>4
<1>7. CASE ReadNumber(l)
  <2> USE <1>7 DEF ReadNumber, Goto, conveyor, trucker
  <2>1. TypeOK'
    BY DEF TypeOK, LoaderPC
  <2>2. BeltIsSet'
    BY DEF BeltIsSet, Working, AddingPC, TypeOK
  <2>3. HasPackage'
    BY <1>0 DEF HasPackage, AddingPC, TypeOK
  <2> QED BY <2>1, <2>2, <2>3
<1>8. CASE WriteNumber(l)
  <2> USE <1>8 DEF WriteNumber, Goto, trucker
  <2>1. current_total_number_of_packages' \in 0 .. Word - 1
    BY <1>0, WrapType
  <2>2. TypeOK'
    BY <2>1 DEF TypeOK, LoaderPC
  <2>3. BeltIsSet'
    BY DEF BeltIsSet, Working, AddingPC, TypeOK
  <2>4. HasPackage'
    BY <1>0 DEF HasPackage, AddingPC, TypeOK
  <2> QED BY <2>2, <2>3, <2>4
<1>9. CASE Commit(l)
  <2> USE <1>9 DEF Commit, Goto, trucker
  <2>1. tail' \in Slot
    BY SlotNext DEF BeltIsSet, AddingPC, TypeOK
  <2>2. loaded[l] + 1 \in 0 .. C
    BY <1>0 DEF HasPackage, AddingPC
  <2>3. TypeOK'
    BY <1>0, <2>1, <2>2 DEF TypeOK, LoaderPC
  <2>4. BeltIsSet'
    BY DEF BeltIsSet, Working, AddingPC, TypeOK
  <2>5. HasPackage'
    BY <1>0 DEF HasPackage, AddingPC, TypeOK
  <2> QED BY <2>3, <2>4, <2>5
<1>10. CASE LoaderGive(l)
  <2> USE <1>10 DEF LoaderGive, Goto, conveyor, trucker
  <2>1. TypeOK'
    BY DEF TypeOK, LoaderPC
  <2>2. BeltIsSet'
    BY DEF BeltIsSet, Working, AddingPC, TypeOK
  <2>3. HasPackage'
    BY <1>0 DEF HasPackage, AddingPC, TypeOK
  <2> QED BY <2>1, <2>2, <2>3
<1> QED BY <1>1, <1>2, <1>3, <1>4, <1>5, <1>6, <1>7, <1>8, <1>9, <1>10 DEF LoaderStep

LEMMA TruckerTypes == ASSUME TypeInv, TruckerStep PROVE TypeInv'
<1> USE DEF TypeInv
<1>0. /\ packages[first] \in Package \cup {Unwritten} /\ packages[first].weight \in Nat
      /\ packages[head] \in Package \cup {Unwritten} /\ packages[head].weight \in Nat
      /\ K \in Nat \ {0} /\ Word \in Nat /\ Word > K
  BY PackageWeight, ArgumentsAssumption DEF TypeOK
<1>1. HasPackage'
  BY DEF HasPackage, AddingPC, TruckerStep, SetLimits, ResetEnds, ResetNumber, ResetWeight,
         TruckerTake, TruckerTest, Examine, Advance, Uncount, Unweigh, Load, TruckerGive,
         Finish, CountLeft, BlockLoaders, Drain, Cleanup, loaders
<1>2. CASE SetLimits \/ ResetEnds \/ ResetNumber \/ ResetWeight
  <2> USE <1>2 DEF SetLimits, ResetEnds, ResetNumber, ResetWeight, loaders
  <2>1. TypeOK'
    <3>1. CASE SetLimits
      BY <1>0, <3>1 DEF TypeOK, TruckerPC
    <3>2. CASE ResetEnds
      BY <1>0, <3>2 DEF TypeOK, TruckerPC, Slot
    <3>3. CASE ResetNumber
      BY <1>0, <3>3 DEF TypeOK, TruckerPC
    <3>4. CASE ResetWeight
      BY <1>0, <3>4 DEF TypeOK, TruckerPC
    <3> QED BY <1>2, <3>1, <3>2, <3>3, <3>4
  <2>2. BeltIsSet'
    BY <1>0 DEF BeltIsSet, Working, AddingPC, TypeOK
  <2> QED BY <1>1, <2>1, <2>2
<1>3. CASE TruckerTake \/ TruckerTest \/ Examine \/ TruckerGive
  <2> USE <1>3 DEF TruckerTake, TruckerTest, Examine, TruckerGive, conveyor, loaders
  <2>1. TypeOK'
    <3>1. CASE TruckerTake
      BY <1>0, <3>1 DEF TypeOK, TruckerPC
    <3>2. CASE TruckerTest
      BY <1>0, <3>2 DEF TypeOK, TruckerPC
    <3>3. CASE Examine
      BY <1>0, <3>3 DEF TypeOK, TruckerPC
    <3>4. CASE TruckerGive
      BY <1>0, <3>4 DEF TypeOK, TruckerPC
    <3> QED BY <1>3, <3>1, <3>2, <3>3, <3>4
  <2>2. BeltIsSet'
    BY <1>0 DEF BeltIsSet, Working, AddingPC, TypeOK
  <2> QED BY <1>1, <2>1, <2>2
<1>4. CASE Advance
  <2> USE <1>4 DEF Advance, loaders
  <2>1. head' \in Slot
    BY SlotNext DEF BeltIsSet, Working, TypeOK
  <2>2. TypeOK'
    BY <2>1 DEF TypeOK, TruckerPC
  <2>3. BeltIsSet'
    BY DEF BeltIsSet, Working, AddingPC, TypeOK
  <2> QED BY <1>1, <2>2, <2>3
<1>5. CASE Uncount
  <2> USE <1>5 DEF Uncount, loaders
  <2>1. current_total_number_of_packages' \in 0 .. Word - 1
    BY <1>0, WrapType DEF TypeOK
  <2>2. TypeOK'
    BY <2>1 DEF TypeOK, TruckerPC
  <2>3. BeltIsSet'
    BY <1>0 DEF BeltIsSet, Working, AddingPC, TypeOK
  <2> QED BY <1>1, <2>2, <2>3
<1>6. CASE Unweigh
  <2> USE <1>6 DEF Unweigh, loaders
  <2>1. current_total_weight_of_packages' \in 0 .. Word - 1
    <3>1. current_total_weight_of_packages - packages[first].weight \in Int
      BY <1>0 DEF TypeOK
    <3> QED BY <3>1, WrapType
  <2>2. TypeOK'
    BY <2>1 DEF TypeOK, TruckerPC
  <2>3. BeltIsSet'
    BY <1>0 DEF BeltIsSet, Working, AddingPC, TypeOK
  <2> QED BY <1>1, <2>2, <2>3
<1>7. CASE Load
  <2> USE <1>7 DEF Load, conveyor, loaders
  <2>1. truck' \in 0 .. Word - 1
    <3>1. truck + packages[first].weight \in Int
      BY <1>0 DEF TypeOK
    <3> QED BY <3>1, WrapType
  <2>2. delivered' \in Seq(Package \cup {Unwritten})
    BY <1>0 DEF TypeOK
  <2>3. TypeOK'
    BY <2>1, <2>2 DEF TypeOK, TruckerPC
  <2>4. BeltIsSet'
    BY <1>0 DEF BeltIsSet, Working, AddingPC, TypeOK
  <2> QED BY <1>1, <2>3, <2>4
<1>8. CASE Finish \/ CountLeft \/ BlockLoaders \/ Cleanup
  <2> USE <1>8 DEF Finish, CountLeft, BlockLoaders, Cleanup, conveyor, loaders
  <2>1. belt_K \in 0 .. Word - 1
    BY <1>0 DEF TypeOK
  <2>2. TypeOK'
    BY <2>1 DEF TypeOK, TruckerPC
  <2>3. BeltIsSet'
    BY <1>0 DEF BeltIsSet, Working, AddingPC, TypeOK
  <2> QED BY <1>1, <2>2, <2>3
<1>9. CASE Drain
  <2> USE <1>9 DEF Drain, loaders
  <2>1. head' \in Slot
    BY <1>0, SlotNext DEF BeltIsSet, TypeOK
  <2>2. truck' \in 0 .. Word - 1
    <3>1. truck + packages[head].weight \in Int /\ truck \in 0 .. Word - 1 /\ 0 \in 0 .. Word - 1
      BY <1>0 DEF TypeOK
    <3> QED BY <3>1, WrapType
  <2>3. delivered' \in Seq(Package \cup {Unwritten})
    <3>1. delivered \in Seq(Package \cup {Unwritten})
      BY DEF TypeOK
    <3> QED BY <1>0, <3>1
  <2>4. left' \in 0 .. Word - 1 /\ (left' > 0 => left > 0)
    BY <1>0 DEF TypeOK
  <2>5. TypeOK'
    BY <2>1, <2>2, <2>3, <2>4 DEF TypeOK, TruckerPC
  <2>6. BeltIsSet'
    BY <1>0, <2>4 DEF BeltIsSet, Working, AddingPC, TypeOK
  <2> QED BY <1>1, <2>5, <2>6
<1> QED BY <1>2, <1>3, <1>4, <1>5, <1>6, <1>7, <1>8, <1>9 DEF TruckerStep

LEMMA NextTypes == TypeInv /\ [Next]_vars => TypeInv'
<1> SUFFICES ASSUME TypeInv, [Next]_vars PROVE TypeInv'
  OBVIOUS
<1> USE DEF TypeInv
<1>1. ASSUME NEW l \in Loaders, LoaderInterrupt(l) PROVE TypeInv'
  <2> USE <1>1 DEF LoaderInterrupt, Goto, conveyor, trucker
  <2>1. TypeOK'
    BY DEF TypeOK, LoaderPC
  <2>2. BeltIsSet'
    BY DEF BeltIsSet, Working, AddingPC, TypeOK
  <2>3. HasPackage'
    BY DEF HasPackage, AddingPC, TypeOK
  <2> QED BY <2>1, <2>2, <2>3
<1>2. CASE TruckerInterrupt
  <2> USE <1>2 DEF TruckerInterrupt, conveyor, loaders
  <2>1. TypeOK'
    BY DEF TypeOK, TruckerPC
  <2>2. BeltIsSet'
    BY DEF BeltIsSet, Working, AddingPC, TypeOK
  <2>3. HasPackage'
    BY DEF HasPackage, AddingPC, TypeOK
  <2> QED BY <2>1, <2>2, <2>3
<1>3. CASE UNCHANGED vars
  BY <1>3 DEF vars, conveyor, trucker, loaders, TypeOK, BeltIsSet, Working, HasPackage, AddingPC
<1> QED BY <1>1, <1>2, <1>3, LoaderTypes, TruckerTypes DEF Next

(* The indices of the ring stay inside of it and the counters are unsigned  *)
(* numbers, in every state that a signal or an early loader may leave.      *)
THEOREM TypesCorrect == Spec => []TypeOK
<1>1. TypeInv => TypeOK
  BY DEF TypeInv
<1> QED BY <1>1, InitTypes, NextTypes, PTL DEF Spec

-----------------------------------------------------------------------------
(***************************************************************************)
(* The ring buffer implements the first-in first-out belt, for any number  *)
(* of loaders, places, packages and weights, provided that nobody is       *)
(* interrupted and no loader comes before the belt has been set up.        *)
(***************************************************************************)

(* What the refinement needs of those who use the programs                  *)
Undisturbed == ~EarlyLoaders /\ ~LoaderSignals /\ ~TruckerSignals

number == current_total_number_of_packages
total == current_total_weight_of_packages

Setting == {"set_limits", "reset_ends", "reset_number", "reset_weight"}

(* Before the belt is set up nobody uses it; when the trucker has given up  *)
(* nobody can.                                                              *)
Phases ==
  /\ trucker_pc \in Setting =>
       /\ truck = Word - 1 /\ head = 0 /\ tail = 0 /\ delivered = <<>>
       /\ number = 0 /\ total = 0
       /\ \A l \in Loaders : loader_pc[l] = "draw"
  /\ trucker_pc \notin Setting => truck # Word - 1 /\ truck <= X
  /\ trucker_pc # "set_limits" => belt_K = K /\ belt_M = M
  /\ trucker_pc \notin {"finish", "count", "block", "drain"}
  /\ trucker_pc \in {"cleanup", "gone"} => sem # "free" /\ \A l \in Loaders : ~InsideLoader(l)

(* What somebody inside has found out, or done, still holds.                *)
InHand ==
  /\ \A l \in Loaders :
       /\ loader_pc[l] \in AddingPC => OnBelt < K /\ BeltLoad + weight[l] <= M
       /\ loader_pc[l] = "write_number" => register[l] = number
       /\ loader_pc[l] \in AddingPC \ {"write"} =>
            packages[tail] = [loader |-> l, number |-> loaded[l] + 1, weight |-> weight[l]]
  /\ trucker_pc \in {"examine", "advance"} => first = head /\ OnBelt > 0
  /\ trucker_pc = "advance" \/ Lifted =>
       packages[first] \in Package /\ truck + packages[first].weight <= X

(* The i-th package on the belt                                             *)
Place(i) == (head + i - 1) % K

(* rest[i] is the weight of the packages from the i-th on: the load is the  *)
(* weight of what is on the belt.                                           *)
Weighs(rest) ==
  /\ rest[1] = BeltLoad /\ rest[OnBelt + 1] = 0
  /\ \A i \in 1 .. OnBelt : rest[i] = packages[Place(i)].weight + rest[i + 1]

Ring ==
  /\ OnBelt \in 0 .. K /\ tail = (head + OnBelt) % K
  /\ \A i \in 1 .. OnBelt : packages[Place(i)] \in Package
  /\ BeltLoad <= M
  /\ \E rest \in [1 .. OnBelt + 1 -> Nat] : Weighs(rest)

BeltInv == TypeInv /\ MutexInv /\ Phases /\ InHand /\ Ring

-----------------------------------------------------------------------------
(* The two counters and whoever is just changing them                       *)

CountsByLoader == \A l \in Loaders : InsideLoader(l) =>
  /\ OnBelt = number - (IF loader_pc[l] = "commit" THEN 1 ELSE 0)
  /\ BeltLoad = total - (IF loader_pc[l] \in {"read_number", "write_number", "commit"} THEN weight[l] ELSE 0)

CountsByTrucker == (\A l \in Loaders : ~InsideLoader(l)) =>
  /\ OnBelt = number - (IF trucker_pc = "uncount" THEN 1 ELSE 0)
  /\ BeltLoad = total - (IF trucker_pc \in {"uncount", "unweigh"} THEN packages[first].weight ELSE 0)

LEMMA WeightType == TypeOK => \A l \in Loaders : weight[l] \in Nat
<1> SUFFICES ASSUME TypeOK, NEW l \in Loaders PROVE weight[l] \in Nat
  OBVIOUS
<1>1. weight[l] \in Weights \/ weight[l] = 0
  BY DEF TypeOK
<1>2. \A w \in Weights : w \in Nat
  BY ArgumentsAssumption
<1> QED BY <1>1, <1>2

LEMMA Counts == TypeOK /\ MutexInv => CountsByLoader /\ CountsByTrucker
<1> SUFFICES ASSUME TypeOK, MutexInv PROVE CountsByLoader /\ CountsByTrucker
  OBVIOUS
<1>0. number \in Int /\ total \in Int
  BY DEF TypeOK, number, total
<1> DEFINE some == Adding({"read_number", "write_number", "commit"})
<1>1. ASSUME NEW l \in Loaders, InsideLoader(l)
      PROVE  /\ OnBelt = number - (IF loader_pc[l] = "commit" THEN 1 ELSE 0)
             /\ BeltLoad = total - (IF loader_pc[l] \in {"read_number", "write_number", "commit"}
                                      THEN weight[l] ELSE 0)
  <2>1. \A m \in Loaders : InsideLoader(m) => m = l
    BY <1>1 DEF MutexInv, MutualExclusion
  <2>2. ~InsideTrucker
    BY <1>1 DEF MutexInv, MutualExclusion
  <2>3. Adding({"commit"}) = IF loader_pc[l] = "commit" THEN {l} ELSE {}
    BY <2>1 DEF Adding, InsideLoader
  <2>4. Cardinality(Adding({"commit"})) = IF loader_pc[l] = "commit" THEN 1 ELSE 0
    BY <2>3, FS_EmptySet, FS_Singleton
  <2>5. some = IF loader_pc[l] \in {"read_number", "write_number", "commit"} THEN {l} ELSE {}
    BY <2>1 DEF Adding, InsideLoader
  <2>6. OnBelt = number - (IF loader_pc[l] = "commit" THEN 1 ELSE 0)
    BY <1>0, <2>2, <2>4 DEF OnBelt, InsideTrucker, number
  <2>7. (CHOOSE x \in {l} : TRUE) = l
    OBVIOUS
  <2>8. BeltLoad = total - (IF loader_pc[l] \in {"read_number", "write_number", "commit"}
                               THEN weight[l] ELSE 0)
    <3>1. BeltLoad = total - (IF some = {} THEN 0 ELSE weight[CHOOSE x \in some : TRUE])
                       - (IF trucker_pc \in {"uncount", "unweigh"} THEN packages[first].weight ELSE 0)
      BY DEF BeltLoad, total
    <3>2. trucker_pc \notin {"uncount", "unweigh"}
      BY <2>2 DEF InsideTrucker
    <3>3. weight[l] \in Int
      BY WeightType
    <3> HIDE DEF some
    <3>4. CASE loader_pc[l] \in {"read_number", "write_number", "commit"}
      <4>1. some = {l} /\ (CHOOSE x \in some : TRUE) = l
        BY <2>5, <2>7, <3>4
      <4> QED BY <1>0, <3>1, <3>2, <3>3, <3>4, <4>1
    <3>5. CASE loader_pc[l] \notin {"read_number", "write_number", "commit"}
      BY <1>0, <2>5, <3>1, <3>2, <3>5
    <3> QED BY <3>4, <3>5
  <2> QED BY <2>6, <2>8
<1>2. ASSUME \A l \in Loaders : ~InsideLoader(l)
      PROVE  /\ OnBelt = number - (IF trucker_pc = "uncount" THEN 1 ELSE 0)
             /\ BeltLoad = total - (IF trucker_pc \in {"uncount", "unweigh"}
                                      THEN packages[first].weight ELSE 0)
  <2>1. Adding({"commit"}) = {} /\ some = {}
    BY <1>2 DEF Adding, InsideLoader
  <2>2. packages[first].weight \in Int
    BY PackageWeight DEF TypeOK
  <2>3. BeltLoad = total - (IF some = {} THEN 0 ELSE weight[CHOOSE x \in some : TRUE])
                     - (IF trucker_pc \in {"uncount", "unweigh"} THEN packages[first].weight ELSE 0)
    BY DEF BeltLoad, total
  <2> HIDE DEF some
  <2> QED BY <1>0, <2>1, <2>2, <2>3, FS_EmptySet DEF OnBelt, number
<1> QED BY <1>1, <1>2 DEF CountsByLoader, CountsByTrucker

LEMMA Sizes ==
  /\ K \in Nat \ {0} /\ M \in Nat /\ X \in Nat /\ C \in Nat /\ Word \in Nat /\ Word > K
  /\ \A w \in Weights : w \in Nat \ {0} /\ Word > X + M + w
BY ArgumentsAssumption

(* Where the places of the ring are                                         *)
LEMMA Around ==
  \A s \in Slot, j \in 0 .. K : (s + j) % K = IF s + j < K THEN s + j ELSE s + j - K
<1>1. \A x \in 0 .. K - 1 : x % K = x
  BY Sizes
<1>2. \A x \in K .. 2 * K - 1 : x % K = x - K
  BY Sizes
<1> QED BY <1>1, <1>2, Sizes DEF Slot

LEMMA Rotate ==
  ASSUME NEW s \in Slot, NEW j \in 1 .. K
  PROVE  (((s + 1) % K) + j - 1) % K = (s + j) % K
<1> DEFINE r == (s + 1) % K
<1>1. s \in Nat /\ s < K /\ j \in Nat /\ j >= 1 /\ j <= K /\ K \in Nat
  BY Sizes DEF Slot
<1>2. r = IF s + 1 < K THEN s + 1 ELSE s + 1 - K
  BY <1>1, Around, Sizes
<1>3. r \in Slot
  BY SlotNext
<1>4. (s + j) % K = IF s + j < K THEN s + j ELSE s + j - K
  BY <1>1, Around
<1> DEFINE k == j - 1
<1>5. k \in 0 .. K /\ j = k + 1
  BY <1>1
<1> HIDE DEF r, k
<1>6. (r + k) % K = IF r + k < K THEN r + k ELSE r + k - K
  BY <1>3, <1>5, Around
<1>7. r \in Nat /\ r + j - 1 = r + k
  BY <1>1, <1>3, <1>5 DEF Slot
<1>8. (r + j - 1) % K = (s + j) % K
  BY <1>1, <1>2, <1>4, <1>5, <1>6, <1>7
<1> QED BY <1>8 DEF r

LEMMA Unwrapped == \A x \in 0 .. Word - 1 : Wrap(x) = x
BY Sizes DEF Wrap

(* The load, given the weights of those who are adding                      *)
LEMMA LoadOfOne ==
  ASSUME LET some == Adding({"read_number", "write_number", "commit"})
         IN some' = some /\ \A m \in some : weight'[m] = weight[m],
         UNCHANGED <<total, packages, first, trucker_pc>>
  PROVE  BeltLoad' = BeltLoad
<1> DEFINE some == Adding({"read_number", "write_number", "commit"})
           who == CHOOSE m \in some : TRUE
<1>1. some' = some /\ who' = who
  OBVIOUS
<1>2. some # {} => who \in some
  OBVIOUS
<1>3. some # {} => weight'[who'] = weight[who]
  BY <1>1, <1>2
<1>4. BeltLoad = total - (IF some = {} THEN 0 ELSE weight[who])
                   - (IF trucker_pc \in {"uncount", "unweigh"} THEN packages[first].weight ELSE 0)
  BY DEF BeltLoad, total
<1>5. BeltLoad' = total' - (IF some' = {} THEN 0 ELSE weight'[who'])
                   - (IF trucker_pc' \in {"uncount", "unweigh"} THEN packages'[first'].weight ELSE 0)
  BY DEF BeltLoad, total
<1> HIDE DEF some, who
<1> QED BY <1>1, <1>3, <1>4, <1>5

(* A step that neither commits nor lifts a package leaves the belt as it is,*)
(* although it may change a counter.                                        *)
Kept ==
  /\ UNCHANGED <<OnBelt, BeltLoad, head, tail>>
  /\ \A i \in 1 .. OnBelt : packages'[Place(i)] = packages[Place(i)]

(* The steps of a loader that is outside, or goes in or out                 *)
LEMMA KeptByOthers ==
  ASSUME BeltInv, TypeOK', MutexInv', NEW l \in Loaders,
         Draw(l) \/ FindNoTrucker(l) \/ LoaderTake(l) \/ LoaderTest(l) \/ ReadNumber(l) \/ LoaderGive(l)
  PROVE  Kept
<1> USE DEF Draw, FindNoTrucker, LoaderTake, LoaderTest, ReadNumber, LoaderGive, Goto, conveyor, trucker, BeltInv, TypeInv
<1>1. UNCHANGED <<head, tail, packages, number, total, trucker_pc, first, weight>> \/ Draw(l)
  BY DEF number, total
<1>2. UNCHANGED <<head, tail, packages, number, total, trucker_pc, first>>
  BY DEF number, total
<1>3. Adding({"commit"})' = Adding({"commit"})
  BY DEF Adding, TypeOK
<1>4. OnBelt' = OnBelt
  BY <1>2, <1>3 DEF OnBelt, number
<1> DEFINE some == Adding({"read_number", "write_number", "commit"})
<1>5. some' = some /\ \A m \in some : weight'[m] = weight[m]
  BY DEF Adding, TypeOK
<1>6. BeltLoad' = BeltLoad
  BY <1>2, <1>5, LoadOfOne DEF total
<1> QED BY <1>2, <1>4, <1>6 DEF Kept, total, Place

(* The steps of the loader inside                                           *)
LEMMA KeptByLoader ==
  ASSUME BeltInv, TypeOK', MutexInv', NEW l \in Loaders,
         WritePackage(l) \/ AddWeight(l) \/ WriteNumber(l)
  PROVE  Kept
<1> USE DEF BeltInv, TypeInv
<1>1. InsideLoader(l) /\ InsideLoader(l)' /\ loader_pc[l] \in AddingPC
  BY DEF InsideLoader, AddingPC, WritePackage, AddWeight, WriteNumber, Goto, TypeOK
<1>2. CountsByLoader /\ CountsByLoader'
  BY Counts, PTL
<1>3. /\ OnBelt = number - (IF loader_pc[l] = "commit" THEN 1 ELSE 0)
      /\ BeltLoad = total - (IF loader_pc[l] \in {"read_number", "write_number", "commit"} THEN weight[l] ELSE 0)
      /\ OnBelt' = number' - (IF loader_pc'[l] = "commit" THEN 1 ELSE 0)
      /\ BeltLoad' = total' - (IF loader_pc'[l] \in {"read_number", "write_number", "commit"} THEN weight'[l] ELSE 0)
  BY <1>1, <1>2 DEF CountsByLoader
<1>4. number \in Nat /\ total \in Nat /\ weight[l] \in Nat /\ OnBelt < K /\ BeltLoad + weight[l] <= M
      /\ OnBelt \in 0 .. K /\ head \in Slot /\ tail \in Slot /\ packages \in [Slot -> Package \cup {Unwritten}]
  <2>1. OnBelt < K /\ BeltLoad + weight[l] <= M /\ weight[l] \in Nat
    BY <1>1, WeightType DEF InHand
  <2> QED BY <2>1 DEF TypeOK, number, total, Ring
<1>5. CASE WritePackage(l)
  <2>1. loader_pc[l] = "write" /\ loader_pc'[l] = "add_weight" /\ UNCHANGED <<number, total, head, tail, weight>>
    BY <1>5 DEF WritePackage, Goto, TypeOK, number, total
  <2>2. OnBelt' = OnBelt /\ BeltLoad' = BeltLoad
    BY <1>3, <1>4, <2>1
  <2>3. ASSUME NEW i \in 1 .. OnBelt PROVE Place(i) \in Slot /\ Place(i) # tail
    <3>1. i - 1 \in 0 .. K /\ head + i - 1 = head + (i - 1)
      BY <1>4, Sizes DEF Slot
    <3>2. Place(i) = IF head + (i - 1) < K THEN head + (i - 1) ELSE head + (i - 1) - K
      BY <1>4, <3>1, Around DEF Place
    <3>3. tail = IF head + OnBelt < K THEN head + OnBelt ELSE head + OnBelt - K
      BY <1>4, Around DEF Ring
    <3> QED BY <1>4, <3>2, <3>3, Sizes DEF Slot
  <2>4. \A i \in 1 .. OnBelt : packages'[Place(i)] = packages[Place(i)]
    BY <1>4, <1>5, <2>3 DEF WritePackage
  <2> QED BY <2>1, <2>2, <2>4 DEF Kept
<1>6. CASE AddWeight(l)
  <2>1. /\ loader_pc[l] = "add_weight" /\ loader_pc'[l] = "read_number"
        /\ UNCHANGED <<number, head, tail, packages, weight>> /\ total' = Wrap(total + weight[l])
    BY <1>6 DEF AddWeight, Goto, TypeOK, number, total
  <2>2. total' = total + weight[l]
    <3>1. weight[l] \in Weights
      BY <1>1 DEF HasPackage, TypeOK
    <3>2. total + weight[l] < Word
      BY <1>3, <1>4, <2>1, <3>1, Sizes
    <3> QED BY <1>4, <2>1, <3>2, Unwrapped, Sizes
  <2> QED BY <1>3, <1>4, <2>1, <2>2 DEF Kept
<1>7. CASE WriteNumber(l)
  <2>1. /\ loader_pc[l] = "write_number" /\ loader_pc'[l] = "commit"
        /\ UNCHANGED <<total, head, tail, packages, weight>> /\ number' = Wrap(register[l] + 1)
    BY <1>7 DEF WriteNumber, Goto, TypeOK, number, total
  <2>2. number' = number + 1
    <3>1. register[l] = number /\ number + 1 < Word
      BY <1>3, <1>4, <2>1, Sizes DEF InHand
    <3> QED BY <1>4, <2>1, <3>1, Unwrapped, Sizes
  <2> QED BY <1>3, <1>4, <2>1, <2>2 DEF Kept
<1> QED BY <1>5, <1>6, <1>7

(* The steps of the trucker                                                 *)
LEMMA KeptByTrucker ==
  ASSUME BeltInv, TypeOK', MutexInv', TruckerStep
  PROVE  Kept \/ Advance
<1> USE DEF BeltInv, TypeInv
<1>1. CountsByTrucker /\ CountsByTrucker'
  BY Counts, PTL
<1>2. CASE SetLimits \/ ResetEnds \/ ResetNumber \/ ResetWeight
  <2> USE <1>2 DEF SetLimits, ResetEnds, ResetNumber, ResetWeight, loaders
  <2>1. /\ \A l \in Loaders : ~InsideLoader(l) /\ ~InsideLoader(l)'
        /\ UNCHANGED <<number, total, head, tail, packages>>
        /\ trucker_pc \notin {"uncount", "unweigh"} /\ trucker_pc' \notin {"uncount", "unweigh"}
    BY DEF Phases, Setting, InsideLoader, number, total
  <2> QED BY <1>1, <2>1 DEF CountsByTrucker, Kept
<1>3. CASE TruckerTake \/ TruckerTest \/ Examine \/ Load \/ TruckerGive \/ Cleanup
  <2> USE <1>3 DEF TruckerTake, TruckerTest, Examine, Load, TruckerGive, Cleanup, loaders, conveyor
  <2>1. /\ UNCHANGED <<number, total, head, tail, packages, loader_pc, weight>>
        /\ trucker_pc \notin {"uncount", "unweigh"} /\ trucker_pc' \notin {"uncount", "unweigh"}
    BY DEF number, total
  <2>2. UNCHANGED OnBelt
    BY <2>1 DEF OnBelt, Adding, number
  <2>3. UNCHANGED BeltLoad
    BY <2>1 DEF BeltLoad, Adding, total
  <2> QED BY <2>1, <2>2, <2>3 DEF Kept
<1>4. CASE Uncount \/ Unweigh
  <2> USE <1>4 DEF Uncount, Unweigh, loaders
  <2>1. /\ \A l \in Loaders : ~InsideLoader(l) /\ ~InsideLoader(l)'
    BY DEF MutexInv, MutualExclusion, InsideTrucker, InsideLoader
  <2>2. /\ OnBelt = number - (IF trucker_pc = "uncount" THEN 1 ELSE 0)
        /\ BeltLoad = total - packages[first].weight
    BY <1>1, <2>1 DEF CountsByTrucker
  <2>3. /\ OnBelt' = number' - (IF trucker_pc' = "uncount" THEN 1 ELSE 0)
        /\ BeltLoad' = total' - (IF trucker_pc' \in {"uncount", "unweigh"} THEN packages'[first'].weight ELSE 0)
    BY <1>1, <2>1 DEF CountsByTrucker
  <2>4. number \in 0 .. Word - 1 /\ total \in 0 .. Word - 1 /\ packages[first].weight \in Nat
        /\ OnBelt \in Nat /\ BeltLoad \in Nat
    BY PackageWeight, Sizes DEF TypeOK, number, total, Ring, Weighs
  <2>5. CASE Uncount
    <3>1. number' = Wrap(number - 1) /\ UNCHANGED <<head, tail, packages, first, total>> /\ trucker_pc' = "unweigh"
      BY <2>5 DEF number, total
    <3>2. number' = number - 1
      BY <2>2, <2>4, <2>5, <3>1, Unwrapped, Sizes
    <3> QED BY <2>2, <2>3, <2>4, <2>5, <3>1, <3>2 DEF Kept
  <2>6. CASE Unweigh
    <3>1. total' = Wrap(total - packages[first].weight) /\ UNCHANGED <<head, tail, packages, first, number>> /\ trucker_pc' = "load"
      BY <2>6 DEF number, total
    <3>2. total' = total - packages[first].weight
      BY <2>2, <2>4, <2>6, <3>1, Unwrapped, Sizes
    <3> QED BY <2>2, <2>3, <2>4, <2>6, <3>1, <3>2 DEF Kept
  <2> QED BY <2>5, <2>6
<1>5. CASE Finish \/ CountLeft \/ BlockLoaders \/ Drain
  BY <1>5 DEF Phases, Finish, CountLeft, BlockLoaders, Drain
<1> QED BY <1>2, <1>3, <1>4, <1>5 DEF TruckerStep

LEMMA BeltKept ==
  ASSUME BeltInv, TypeOK', MutexInv', Undisturbed, [Next]_vars
  PROVE  Kept \/ Advance \/ \E l \in Loaders : Commit(l)
<1>1. ASSUME NEW l \in Loaders, LoaderStep(l) PROVE Kept \/ Commit(l)
  BY <1>1, KeptByOthers, KeptByLoader DEF LoaderStep
<1>2. ASSUME NEW l \in Loaders PROVE ~LoaderInterrupt(l)
  BY DEF Undisturbed, LoaderInterrupt
<1>3. ~TruckerInterrupt
  BY DEF Undisturbed, TruckerInterrupt
<1>4. CASE UNCHANGED vars
  BY <1>4 DEF vars, conveyor, trucker, loaders, Kept, OnBelt, BeltLoad, Adding
<1> QED BY <1>1, <1>2, <1>3, <1>4, KeptByTrucker DEF Next

(* What a loader commits has its place behind the last package.             *)
LEMMA CommitEffect ==
  ASSUME BeltInv, TypeOK', MutexInv', NEW l \in Loaders, Commit(l)
  PROVE  /\ OnBelt \in 0 .. K - 1 /\ OnBelt' = OnBelt + 1
         /\ head' = head /\ tail' = (tail + 1) % K /\ packages' = packages
         /\ packages[tail] = [loader |-> l, number |-> loaded[l] + 1, weight |-> weight[l]]
         /\ packages[tail] \in Package
         /\ BeltLoad' = BeltLoad + weight[l] /\ BeltLoad + weight[l] <= M
<1> USE DEF BeltInv, TypeInv
<1>1. /\ loader_pc[l] = "commit" /\ loader_pc'[l] = "give"
      /\ UNCHANGED <<number, total, head, packages>> /\ tail' = (tail + 1) % belt_K
  BY DEF Commit, Goto, TypeOK, number, total
<1>2. CountsByLoader /\ CountsByLoader'
  BY Counts, PTL
<1>3. /\ OnBelt = number - 1 /\ BeltLoad = total - weight[l]
      /\ OnBelt' = number' - (IF loader_pc'[l] = "commit" THEN 1 ELSE 0)
      /\ BeltLoad' = total' - (IF loader_pc'[l] \in {"read_number", "write_number", "commit"} THEN weight'[l] ELSE 0)
  BY <1>1, <1>2 DEF CountsByLoader, InsideLoader
<1>4. number \in Nat /\ total \in Nat /\ weight[l] \in Nat
  BY WeightType DEF TypeOK, number, total
<1>5. OnBelt' = OnBelt + 1 /\ BeltLoad' = BeltLoad + weight[l]
  BY <1>1, <1>3, <1>4
<1>6. OnBelt < K /\ BeltLoad + weight[l] <= M /\ belt_K = K
      /\ packages[tail] = [loader |-> l, number |-> loaded[l] + 1, weight |-> weight[l]]
  BY <1>1 DEF InHand, AddingPC, BeltIsSet
<1>7. loaded[l] + 1 \in 1 .. C /\ weight[l] \in Weights
  <2>1. loaded[l] < C /\ weight[l] # 0
    BY <1>1 DEF HasPackage, AddingPC
  <2>2. loaded[l] \in 0 .. C /\ weight[l] \in Weights \cup {0}
    BY DEF TypeOK
  <2> QED BY <2>1, <2>2, Sizes
<1>8. packages[tail] \in Package
  BY <1>6, <1>7 DEF Package
<1>9. OnBelt \in 0 .. K - 1
  BY <1>6, Sizes DEF Ring
<1> QED BY <1>1, <1>5, <1>6, <1>8, <1>9

LEMMA AdvanceEffect ==
  ASSUME BeltInv, TypeOK', MutexInv', Advance
  PROVE  /\ OnBelt \in 1 .. K /\ OnBelt' = OnBelt - 1
         /\ head' = (head + 1) % K /\ tail' = tail /\ packages' = packages
         /\ first = head
         /\ BeltLoad' = BeltLoad - packages[head].weight
<1> USE DEF BeltInv, TypeInv
<1>1. /\ trucker_pc = "advance" /\ trucker_pc' = "uncount"
      /\ UNCHANGED <<number, total, tail, first, packages>> /\ head' = (head + 1) % belt_K
  BY DEF Advance, number, total
<1>2. \A l \in Loaders : ~InsideLoader(l) /\ ~InsideLoader(l)'
  BY DEF MutexInv, MutualExclusion, InsideTrucker, InsideLoader, Advance, loaders
<1>3. CountsByTrucker /\ CountsByTrucker'
  BY Counts, PTL
<1>4. /\ OnBelt = number - (IF trucker_pc = "uncount" THEN 1 ELSE 0)
      /\ BeltLoad = total - (IF trucker_pc \in {"uncount", "unweigh"} THEN packages[first].weight ELSE 0)
      /\ OnBelt' = number' - (IF trucker_pc' = "uncount" THEN 1 ELSE 0)
      /\ BeltLoad' = total' - (IF trucker_pc' \in {"uncount", "unweigh"} THEN packages'[first'].weight ELSE 0)
  BY <1>2, <1>3 DEF CountsByTrucker
<1>5. number \in Nat /\ total \in Nat /\ packages[first].weight \in Nat
  BY PackageWeight DEF TypeOK, number, total
<1>6. OnBelt' = OnBelt - 1 /\ BeltLoad' = BeltLoad - packages[first].weight
  BY <1>1, <1>4, <1>5
<1>7. belt_K = K /\ first = head /\ OnBelt > 0 /\ OnBelt \in 0 .. K
  BY <1>1 DEF InHand, BeltIsSet, Working, Ring
<1> QED BY <1>1, <1>6, <1>7, Sizes

(* The sums of a belt with one package more, or one less                    *)
LEMMA Longer ==
  ASSUME NEW k \in Nat, NEW v \in [1 .. k + 1 -> Nat], NEW rest \in [1 .. k + 1 -> Nat],
         rest[k + 1] = 0, \A i \in 1 .. k : rest[i] = v[i] + rest[i + 1]
  PROVE  \E more \in [1 .. k + 2 -> Nat] :
           /\ more[1] = rest[1] + v[k + 1] /\ more[k + 2] = 0
           /\ \A i \in 1 .. k + 1 : more[i] = v[i] + more[i + 1]
<1> DEFINE more == [i \in 1 .. k + 2 |-> IF i = k + 2 THEN 0 ELSE rest[i] + v[k + 1]]
<1>1. \A i \in 1 .. k + 1 : rest[i] \in Nat /\ v[i] \in Nat
  OBVIOUS
<1>2. v[k + 1] \in Nat
  BY <1>1
<1>3. more \in [1 .. k + 2 -> Nat]
  BY <1>1, <1>2
<1>4. \A i \in 1 .. k + 1 : more[i] = rest[i] + v[k + 1]
  OBVIOUS
<1>5. more[k + 2] = 0
  OBVIOUS
<1> HIDE DEF more
<1>6. ASSUME NEW i \in 1 .. k PROVE more[i] = v[i] + more[i + 1]
  <2>1. i \in 1 .. k + 1 /\ i + 1 \in 1 .. k + 1
    OBVIOUS
  <2>2. rest[i + 1] \in Nat /\ v[i] \in Nat /\ more[i] = rest[i] + v[k + 1] /\ more[i + 1] = rest[i + 1] + v[k + 1]
    BY <1>1, <1>4, <2>1
  <2> QED BY <1>2, <2>2
<1>7. more[k + 1] = v[k + 1] + more[k + 2]
  <2>1. more[k + 1] = rest[k + 1] + v[k + 1] /\ (k + 1) \in 1 .. k + 1
    BY <1>4
  <2> QED BY <1>2, <1>5, <2>1
<1>8. more[1] = rest[1] + v[k + 1]
  BY <1>4
<1>9. \A i \in 1 .. k + 1 : more[i] = v[i] + more[i + 1]
  <2>1. \A i \in 1 .. k + 1 : i \in 1 .. k \/ (i = k + 1 /\ i + 1 = k + 2)
    OBVIOUS
  <2> QED BY <1>6, <1>7, <2>1
<1> QED BY <1>3, <1>5, <1>8, <1>9

LEMMA Shorter ==
  ASSUME NEW k \in Nat \ {0}, NEW v \in [1 .. k -> Nat], NEW rest \in [1 .. k + 1 -> Nat],
         rest[k + 1] = 0, \A i \in 1 .. k : rest[i] = v[i] + rest[i + 1]
  PROVE  \E less \in [1 .. k -> Nat] :
           /\ rest[1] = v[1] + less[1] /\ less[k] = 0
           /\ \A i \in 1 .. k - 1 : less[i] = v[i + 1] + less[i + 1]
<1> DEFINE less == [i \in 1 .. k |-> rest[i + 1]]
<1>1. less \in [1 .. k -> Nat] /\ less[1] = rest[2] /\ less[k] = rest[k + 1]
  OBVIOUS
<1>2. \A i \in 1 .. k - 1 : less[i] = rest[i + 1] /\ less[i + 1] = rest[(i + 1) + 1]
  OBVIOUS
<1>3. \A i \in 1 .. k - 1 : less[i] = v[i + 1] + less[i + 1]
  BY <1>2
<1>4. rest[1] = v[1] + rest[2]
  <2>1. 1 \in 1 .. k /\ 1 + 1 = 2
    OBVIOUS
  <2> QED BY <2>1
<1> HIDE DEF less
<1> QED BY <1>1, <1>3, <1>4

LEMMA NextPlace ==
  ASSUME head \in Slot, OnBelt \in 1 .. K, head' = (head + 1) % K, NEW i \in 1 .. OnBelt - 1
  PROVE  Place(i)' = Place(i + 1)
<1>1. head + (i + 1) - 1 = head + i /\ i \in 1 .. K
  BY Sizes DEF Slot
<1>2. (((head + 1) % K) + i - 1) % K = (head + i) % K
  BY <1>1, Rotate
<1> QED BY <1>1, <1>2 DEF Place

LEMMA RingNext ==
  ASSUME BeltInv, TypeOK', MutexInv', Undisturbed, [Next]_vars
  PROVE  Ring'
<1> USE DEF BeltInv, TypeInv
<1>1. head \in Slot /\ tail \in Slot /\ packages \in [Slot -> Package \cup {Unwritten}]
  BY DEF TypeOK
<1>2. PICK rest \in [1 .. OnBelt + 1 -> Nat] : Weighs(rest)
  BY DEF Ring
<1>3. OnBelt \in 0 .. K /\ BeltLoad \in Nat
  BY <1>2, Sizes DEF Ring, Weighs
<1>4. CASE Kept
  <2>1. \A i \in 1 .. OnBelt : Place(i)' = Place(i) /\ packages'[Place(i)] = packages[Place(i)]
    BY <1>4 DEF Kept, Place
  <2>2. Weighs(rest)'
    BY <1>2, <1>4, <2>1 DEF Weighs, Kept
  <2> QED BY <1>4, <2>1, <2>2 DEF Ring, Kept
<1>5. ASSUME NEW l \in Loaders, Commit(l) PROVE Ring'
  <2>1. /\ OnBelt \in 0 .. K - 1 /\ OnBelt' = OnBelt + 1
        /\ head' = head /\ tail' = (tail + 1) % K /\ packages' = packages
        /\ packages[tail] = [loader |-> l, number |-> loaded[l] + 1, weight |-> weight[l]]
        /\ packages[tail] \in Package
        /\ BeltLoad' = BeltLoad + weight[l] /\ BeltLoad + weight[l] <= M
    BY <1>5, CommitEffect
  <2>2. tail = Place(OnBelt + 1) /\ \A i \in 1 .. OnBelt + 1 : Place(i)' = Place(i)
    <3>1. head + (OnBelt + 1) - 1 = head + OnBelt
      BY <1>1, <2>1, Sizes DEF Slot
    <3> QED BY <2>1, <3>1 DEF Place, Ring
  <2>3. tail' = (head' + OnBelt') % K
    <3>1. tail = IF head + OnBelt < K THEN head + OnBelt ELSE head + OnBelt - K
      BY <1>1, <2>1, Around, Sizes DEF Ring
    <3>2. (head + (OnBelt + 1)) % K = IF head + (OnBelt + 1) < K THEN head + (OnBelt + 1) ELSE head + (OnBelt + 1) - K
      BY <1>1, <2>1, Around, Sizes
    <3>3. (tail + 1) % K = IF tail + 1 < K THEN tail + 1 ELSE tail + 1 - K
      BY <1>1, Around, Sizes
    <3>4. (tail + 1) % K = (head + (OnBelt + 1)) % K
      BY <1>1, <2>1, <3>1, <3>2, <3>3, Sizes DEF Slot
    <3> QED BY <2>1, <3>4
  <2>4. \A i \in 1 .. OnBelt' : packages'[Place(i)'] \in Package
    BY <2>1, <2>2, Sizes DEF Ring
  <2>5. \A i \in 1 .. OnBelt : packages[Place(i)].weight \in Nat
    BY PackageWeight DEF Ring
  <2>6. PICK more \in [1 .. OnBelt + 2 -> Nat] :
          /\ more[1] = BeltLoad + weight[l] /\ more[OnBelt + 2] = 0
          /\ \A i \in 1 .. OnBelt + 1 : more[i] = packages[Place(i)].weight + more[i + 1]
    <3> DEFINE v == [i \in 1 .. OnBelt + 1 |-> packages[Place(i)].weight]
    <3>1. v \in [1 .. OnBelt + 1 -> Nat]
      <4>1. packages[Place(OnBelt + 1)].weight \in Nat
        BY <2>1, <2>2, PackageWeight
      <4> QED BY <2>1, <2>5, <4>1, Sizes
    <3>2. v[OnBelt + 1] = weight[l]
      BY <2>1, <2>2, Sizes
    <3>3. \A i \in 1 .. OnBelt : rest[i] = v[i] + rest[i + 1]
      BY <1>2, <2>1, Sizes DEF Weighs
    <3>4. rest[1] = BeltLoad /\ rest[OnBelt + 1] = 0 /\ OnBelt \in Nat
      BY <1>2, <2>1, Sizes DEF Weighs
    <3>5. \A i \in 1 .. OnBelt + 1 : v[i] = packages[Place(i)].weight
      OBVIOUS
    <3> HIDE DEF v
    <3>6. \E more \in [1 .. OnBelt + 2 -> Nat] :
          /\ more[1] = rest[1] + v[OnBelt + 1] /\ more[OnBelt + 2] = 0
          /\ \A i \in 1 .. OnBelt + 1 : more[i] = v[i] + more[i + 1]
      BY <1>2, <3>1, <3>3, <3>4, Longer
    <3> QED BY <3>2, <3>4, <3>5, <3>6
  <2>7. more \in [1 .. OnBelt' + 1 -> Nat] /\ Weighs(more)'
    <3>1. OnBelt' + 1 = OnBelt + 2 /\ OnBelt' = OnBelt + 1
      BY <2>1, Sizes
    <3>2. more[1] = BeltLoad' /\ more[OnBelt' + 1] = 0
      BY <2>1, <2>6, <3>1
    <3>3. \A i \in 1 .. OnBelt' : more[i] = packages'[Place(i)'].weight + more[i + 1]
      BY <2>1, <2>2, <2>6
    <3> QED BY <2>6, <3>1, <3>2, <3>3 DEF Weighs
  <2>8. BeltLoad' <= M /\ OnBelt' \in 0 .. K
    BY <2>1, Sizes
  <2> QED BY <2>3, <2>4, <2>7, <2>8 DEF Ring
<1>6. CASE Advance
  <2>1. /\ OnBelt \in 1 .. K /\ OnBelt' = OnBelt - 1
        /\ head' = (head + 1) % K /\ tail' = tail /\ packages' = packages
        /\ BeltLoad' = BeltLoad - packages[head].weight
    BY <1>6, AdvanceEffect
  <2>3. tail' = (head' + OnBelt') % K
    <3>1. (((head + 1) % K) + OnBelt - 1) % K = (head + OnBelt) % K
      BY <1>1, <2>1, Rotate
    <3>2. ((head + 1) % K) + OnBelt - 1 = ((head + 1) % K) + (OnBelt - 1)
      BY <1>1, <2>1, SlotNext, Sizes DEF Slot
    <3> QED BY <2>1, <3>1, <3>2 DEF Ring
  <2>4. \A i \in 1 .. OnBelt - 1 : Place(i)' = Place(i + 1)
    BY <1>1, <2>1, NextPlace
  <2>5. \A i \in 1 .. OnBelt' : packages'[Place(i)'] \in Package
    <3>1. \A i \in 1 .. OnBelt' : i \in 1 .. OnBelt - 1 /\ i + 1 \in 1 .. OnBelt
      BY <2>1
    <3>2. \A i \in 1 .. OnBelt : packages[Place(i)] \in Package
      BY DEF Ring
    <3> QED BY <2>1, <2>4, <3>1, <3>2
  <2>6. \A i \in 1 .. OnBelt : packages[Place(i)].weight \in Nat
    BY PackageWeight DEF Ring
  <2>7. Place(1) = head
    <3>1. head + 1 - 1 = head + 0 /\ 0 \in 0 .. K /\ head + 0 = head /\ head < K
      BY <1>1, Sizes DEF Slot
    <3>2. (head + 0) % K = head
      BY <1>1, <3>1, Around
    <3> QED BY <3>1, <3>2 DEF Place
  <2>8. PICK less \in [1 .. OnBelt -> Nat] :
          /\ BeltLoad = packages[head].weight + less[1] /\ less[OnBelt] = 0
          /\ \A i \in 1 .. OnBelt - 1 : less[i] = packages[Place(i + 1)].weight + less[i + 1]
    <3> DEFINE v == [i \in 1 .. OnBelt |-> packages[Place(i)].weight]
    <3>1. v \in [1 .. OnBelt -> Nat]
      BY <2>6
    <3>2. v[1] = packages[head].weight
      BY <2>1, <2>7, Sizes
    <3>3. \A i \in 1 .. OnBelt : rest[i] = v[i] + rest[i + 1]
      BY <1>2 DEF Weighs
    <3>4. rest[1] = BeltLoad /\ rest[OnBelt + 1] = 0 /\ OnBelt \in Nat \ {0}
      BY <1>2, <2>1, Sizes DEF Weighs
    <3>5. \A i \in 1 .. OnBelt : v[i] = packages[Place(i)].weight
      OBVIOUS
    <3> HIDE DEF v
    <3>6. \E less \in [1 .. OnBelt -> Nat] :
          /\ rest[1] = v[1] + less[1] /\ less[OnBelt] = 0
          /\ \A i \in 1 .. OnBelt - 1 : less[i] = v[i + 1] + less[i + 1]
      BY <1>2, <3>1, <3>3, <3>4, Shorter
    <3>7. \A i \in 1 .. OnBelt - 1 : v[i + 1] = packages[Place(i + 1)].weight
      BY <3>4, <3>5
    <3> QED BY <3>2, <3>4, <3>6, <3>7
  <2>9. less \in [1 .. OnBelt' + 1 -> Nat] /\ Weighs(less)'
    <3>1. OnBelt' + 1 = OnBelt /\ OnBelt' = OnBelt - 1
      BY <2>1, Sizes
    <3>2. BeltLoad' = less[1]
      <4>1. packages[head].weight \in Nat /\ less[1] \in Nat
        BY <2>1, <2>6, <2>7, <2>8, Sizes
      <4> QED BY <2>1, <2>8, <4>1
    <3>3. \A i \in 1 .. OnBelt' : less[i] = packages'[Place(i)'].weight + less[i + 1]
      BY <2>1, <2>4, <2>8
    <3> QED BY <2>8, <3>1, <3>2, <3>3 DEF Weighs
  <2>10. BeltLoad' <= M /\ OnBelt' \in 0 .. K
    <3>1. packages[head].weight \in Nat /\ BeltLoad <= M
      BY <2>1, <2>6, <2>7, Sizes DEF Ring
    <3>2. OnBelt' \in 0 .. K
      BY <2>1, Sizes
    <3>3. BeltLoad' <= M
      BY <1>3, <2>1, <3>1, Sizes
    <3> QED BY <3>2, <3>3
  <2> QED BY <2>3, <2>5, <2>9, <2>10 DEF Ring
<1> QED BY <1>4, <1>5, <1>6, BeltKept

LEMMA PhasesNext ==
  ASSUME BeltInv, TypeOK', MutexInv', Undisturbed, [Next]_vars
  PROVE  Phases'
<1> USE DEF BeltInv, TypeInv, Setting, InsideLoader, Goto, number, total
<1>1. ASSUME NEW l \in Loaders, LoaderStep(l) PROVE Phases'
  <2>1. trucker_pc \notin Setting /\ UNCHANGED <<trucker_pc, truck>>
    <3>1. CASE Draw(l)
      BY <3>1 DEF Draw, Undisturbed, Phases, trucker
    <3>2. CASE ~Draw(l)
      <4>1. loader_pc[l] # "draw" \/ trucker_pc = "gone"
        BY <1>1, <3>2 DEF LoaderStep, FindNoTrucker, LoaderTake, LoaderTest, WritePackage, AddWeight,
                          ReadNumber, WriteNumber, Commit, LoaderGive
      <4>2. UNCHANGED <<trucker_pc, truck>>
        BY <1>1, <3>2 DEF LoaderStep, FindNoTrucker, LoaderTake, LoaderTest, WritePackage, AddWeight,
                          ReadNumber, WriteNumber, Commit, LoaderGive, trucker
      <4> QED BY <4>1, <4>2 DEF Phases
    <3> QED BY <3>1, <3>2
  <2>2. UNCHANGED <<belt_K, belt_M>>
    BY <1>1 DEF LoaderStep, Draw, FindNoTrucker, LoaderTake, LoaderTest, WritePackage, AddWeight,
                ReadNumber, WriteNumber, Commit, LoaderGive, conveyor
  <2>3. ASSUME trucker_pc \in {"cleanup", "gone"}
        PROVE  sem' # "free" /\ \A m \in Loaders : ~InsideLoader(m)'
    <3>1. sem # "free" /\ \A m \in Loaders : ~InsideLoader(m)
      BY <2>3 DEF Phases
    <3>2. Draw(l) \/ FindNoTrucker(l) \/ LoaderTake(l)
      BY <1>1, <3>1 DEF LoaderStep, LoaderTest, WritePackage, AddWeight, ReadNumber, WriteNumber, Commit, LoaderGive
    <3> QED BY <3>1, <3>2 DEF Draw, FindNoTrucker, LoaderTake, TypeOK
  <2> QED BY <2>1, <2>2, <2>3 DEF Phases
<1>2. CASE SetLimits \/ ResetEnds \/ ResetNumber \/ ResetWeight
  BY <1>2, Sizes DEF SetLimits, ResetEnds, ResetNumber, ResetWeight, Phases, loaders
<1>3. CASE TruckerTake \/ TruckerTest \/ Advance \/ Uncount \/ Unweigh \/ TruckerGive
  BY <1>3 DEF TruckerTake, TruckerTest, Advance, Uncount, Unweigh, TruckerGive, Phases, loaders, conveyor
<1>4. CASE Examine
  <2>1. sem # "free" /\ \A l \in Loaders : ~InsideLoader(l)
    BY <1>4 DEF Examine, MutexInv, MutualExclusion, InsideTrucker
  <2> QED BY <1>4, <2>1, Sizes DEF Examine, Phases, loaders, conveyor
<1>5. CASE Load
  <2>1. packages[first].weight \in Weights /\ truck \in Nat /\ truck + packages[first].weight <= X
    BY <1>5 DEF Load, InHand, Lifted, Package, TypeOK
  <2>2. truck' = truck + packages[first].weight /\ truck' # Word - 1
    BY <1>5, <2>1, Unwrapped, Sizes DEF Load
  <2> QED BY <1>5, <2>1, <2>2 DEF Load, Phases, loaders, conveyor
<1>6. CASE Cleanup
  BY <1>6 DEF Cleanup, Phases, loaders, conveyor
<1>7. CASE Finish \/ CountLeft \/ BlockLoaders \/ Drain
  BY <1>7 DEF Finish, CountLeft, BlockLoaders, Drain, Phases
<1>8. CASE UNCHANGED vars
  BY <1>8 DEF vars, conveyor, trucker, loaders, Phases
<1>9. ~TruckerInterrupt /\ \A l \in Loaders : ~LoaderInterrupt(l)
  BY DEF Undisturbed, TruckerInterrupt, LoaderInterrupt
<1> QED BY <1>1, <1>2, <1>3, <1>4, <1>5, <1>6, <1>7, <1>8, <1>9 DEF Next, TruckerStep

(* The first package on the belt                                            *)
LEMMA FirstOnBelt ==
  ASSUME BeltInv, OnBelt > 0
  PROVE  Place(1) = head /\ packages[head] \in Package
<1>1. head \in Slot /\ OnBelt \in 0 .. K /\ \A i \in 1 .. OnBelt : packages[Place(i)] \in Package
  BY DEF BeltInv, TypeInv, TypeOK, Ring
<1>2. head + 1 - 1 = head + 0 /\ 0 \in 0 .. K /\ head + 0 = head /\ head < K
  BY <1>1, Sizes DEF Slot
<1>3. Place(1) = head
  <2>1. (head + 0) % K = head
    BY <1>1, <1>2, Around
  <2> QED BY <1>2, <2>1 DEF Place
<1>4. 1 \in 1 .. OnBelt
  BY <1>1, Sizes
<1> QED BY <1>1, <1>3, <1>4

LEMMA InHandNext ==
  ASSUME BeltInv, TypeOK', MutexInv', Undisturbed, [Next]_vars
  PROVE  InHand'
<1> USE DEF BeltInv, TypeInv, Goto
<1>1. ASSUME NEW l \in Loaders, Draw(l) \/ FindNoTrucker(l) \/ LoaderTake(l) PROVE InHand'
  <2>1. Kept
    BY <1>1, KeptByOthers
  <2>2. /\ UNCHANGED <<number, packages, tail, head, first, truck, trucker_pc, loaded, register>>
        /\ loader_pc'[l] \notin AddingPC
        /\ \A m \in Loaders \ {l} : loader_pc'[m] = loader_pc[m] /\ weight'[m] = weight[m]
    BY <1>1 DEF Draw, FindNoTrucker, LoaderTake, conveyor, trucker, number, TypeOK, AddingPC
  <2>3. ASSUME NEW m \in Loaders
        PROVE  /\ loader_pc'[m] \in AddingPC => OnBelt' < K /\ BeltLoad' + weight'[m] <= M
               /\ loader_pc'[m] = "write_number" => register'[m] = number'
               /\ loader_pc'[m] \in AddingPC \ {"write"} =>
                    packages'[tail'] = [loader |-> m, number |-> loaded'[m] + 1, weight |-> weight'[m]]
    <3>1. CASE m = l
      BY <2>2, <3>1 DEF AddingPC
    <3>2. CASE m # l
      BY <2>1, <2>2, <3>2 DEF InHand, Kept
    <3> QED BY <3>1, <3>2
  <2>4. /\ trucker_pc' \in {"examine", "advance"} => first' = head' /\ OnBelt' > 0
        /\ trucker_pc' = "advance" \/ Lifted' =>
              packages'[first'] \in Package /\ truck' + packages'[first'].weight <= X
    BY <2>1, <2>2 DEF InHand, Kept, Lifted
  <2> QED BY <2>3, <2>4 DEF InHand
<1>2. ASSUME NEW l \in Loaders,
             LoaderTest(l) \/ WritePackage(l) \/ AddWeight(l) \/ ReadNumber(l) \/ WriteNumber(l) \/ Commit(l) \/ LoaderGive(l)
      PROVE  InHand'
  <2> USE <1>2 DEF LoaderTest, WritePackage, AddWeight, ReadNumber, WriteNumber, Commit, LoaderGive
  <2>1. InsideLoader(l) /\ ~InsideTrucker /\ \A m \in Loaders \ {l} : ~InsideLoader(m)
    BY DEF InsideLoader, MutexInv, MutualExclusion
  <2>2. trucker_pc' = trucker_pc /\ \A m \in Loaders \ {l} : loader_pc'[m] = loader_pc[m]
    BY DEF TypeOK, trucker
  <2>3. \A m \in Loaders \ {l} : loader_pc'[m] \notin AddingPC
    BY <2>1, <2>2 DEF AddingPC, InsideLoader
  <2>4. trucker_pc' \notin {"examine", "advance"} /\ ~Lifted'
    BY <2>1, <2>2 DEF InsideTrucker, Lifted
  <2>5. /\ loader_pc'[l] \in AddingPC => OnBelt' < K /\ BeltLoad' + weight'[l] <= M
        /\ loader_pc'[l] = "write_number" => register'[l] = number'
        /\ loader_pc'[l] \in AddingPC \ {"write"} =>
             packages'[tail'] = [loader |-> l, number |-> loaded'[l] + 1, weight |-> weight'[l]]
    <3>1. CASE LoaderTest(l)
      <4>1. Kept
        BY <3>1, KeptByOthers
      <4>2. OnBelt = number /\ BeltLoad = total
        <5>1. CountsByLoader /\ number \in Nat /\ total \in Nat
          BY Counts DEF TypeOK, number, total
        <5> QED BY <2>1, <3>1, <5>1 DEF CountsByLoader
      <4>3. ASSUME HasRoom(weight[l]) PROVE OnBelt < K /\ BeltLoad + weight[l] <= M
        <5>1. number < belt_K /\ Wrap(total + weight[l]) <= belt_M /\ belt_K \in {0, K} /\ belt_M \in {0, M}
          BY <4>3 DEF HasRoom, number, total, TypeOK
        <5>2. weight[l] \in Weights
          BY <3>1 DEF HasPackage, TypeOK
        <5>3. total \in Nat /\ number \in Nat /\ total <= M
          BY <4>2 DEF Ring, TypeOK, total, number
        <5>4. Wrap(total + weight[l]) = total + weight[l]
          BY <5>2, <5>3, Unwrapped, Sizes
        <5> QED BY <4>2, <5>1, <5>2, <5>3, <5>4, Sizes
      <4>4. loader_pc'[l] \in {"write", "give"} /\ (loader_pc'[l] = "write" => HasRoom(weight[l])) /\ weight' = weight
        BY <3>1 DEF TypeOK
      <4> QED BY <4>1, <4>3, <4>4 DEF Kept, AddingPC
    <3>2. CASE WritePackage(l) \/ AddWeight(l) \/ WriteNumber(l) \/ ReadNumber(l)
      <4>1. Kept
        BY <3>2, KeptByOthers, KeptByLoader
      <4>2. OnBelt < K /\ BeltLoad + weight[l] <= M /\ UNCHANGED <<weight, loaded, tail>>
        BY <3>2 DEF InHand, AddingPC, conveyor
      <4>3. loader_pc'[l] = "write_number" => register'[l] = number'
        BY <3>2 DEF TypeOK, conveyor, number
      <4>4. packages'[tail'] = [loader |-> l, number |-> loaded[l] + 1, weight |-> weight[l]]
        BY <3>2 DEF InHand, AddingPC, conveyor, TypeOK
      <4> QED BY <4>1, <4>2, <4>3, <4>4 DEF Kept
    <3>3. CASE Commit(l) \/ LoaderGive(l)
      BY <3>3 DEF TypeOK, AddingPC
    <3> QED BY <3>1, <3>2, <3>3
  <2> QED BY <2>3, <2>4, <2>5 DEF InHand, AddingPC
<1>3. ASSUME TruckerStep, InsideTrucker PROVE InHand'
  <2>1. \A l \in Loaders : ~InsideLoader(l)
    BY <1>3 DEF MutexInv, MutualExclusion
  <2>2. /\ loader_pc' = loader_pc
        /\ TruckerTest \/ Examine \/ Advance \/ Uncount \/ Unweigh \/ Load \/ TruckerGive
    BY <1>3 DEF InsideTrucker, TruckerStep, SetLimits, ResetEnds, ResetNumber, ResetWeight, TruckerTake,
                Finish, CountLeft, BlockLoaders, Drain, Cleanup,
                TruckerTest, Examine, Advance, Uncount, Unweigh, Load, TruckerGive, loaders
  <2>3. \A l \in Loaders : loader_pc'[l] \notin AddingPC
    BY <2>1, <2>2 DEF InsideLoader, AddingPC
  <2>4. /\ trucker_pc' \in {"examine", "advance"} => first' = head' /\ OnBelt' > 0
        /\ trucker_pc' = "advance" \/ Lifted' =>
              packages'[first'] \in Package /\ truck' + packages'[first'].weight <= X
    <3>1. CASE TruckerTest
      <4>1. Kept
        BY <1>3, <3>1, KeptByTrucker DEF TruckerTest, Advance
      <4>2. OnBelt = number
        <5>1. CountsByTrucker /\ number \in Nat
          BY Counts DEF TypeOK, number
        <5> QED BY <2>1, <3>1, <5>1 DEF CountsByTrucker, TruckerTest
      <4> QED BY <3>1, <4>1, <4>2 DEF TruckerTest, Kept, Lifted, number, conveyor
    <3>2. CASE Examine
      <4>1. Kept /\ first = head /\ OnBelt > 0 /\ UNCHANGED <<packages, first>>
        BY <1>3, <3>2, KeptByTrucker DEF Examine, Advance, InHand, conveyor
      <4>2. packages[first] \in Package
        BY <4>1, FirstOnBelt
      <4>3. ASSUME FitsTruck(packages[first]) PROVE truck + packages[first].weight <= X
        <5>1. packages[first].weight \in Weights
          BY <4>2 DEF Package
        <5>2. truck \in Nat /\ truck <= X
          BY <3>2 DEF Examine, Phases, Setting, TypeOK
        <5>3. truck + packages[first].weight \in 0 .. Word - 1
          BY <5>1, <5>2, Sizes
        <5> QED BY <4>3, <5>3, Unwrapped DEF FitsTruck
      <4> QED BY <3>2, <4>1, <4>2, <4>3 DEF Examine, Kept, Lifted
    <3>3. CASE Advance \/ Uncount \/ Unweigh
      BY <3>3 DEF Advance, Uncount, Unweigh, InHand, Lifted
    <3>4. CASE Load \/ TruckerGive
      BY <3>4 DEF Load, TruckerGive, Lifted
    <3> QED BY <2>2, <3>1, <3>2, <3>3, <3>4
  <2> QED BY <2>3, <2>4 DEF InHand, AddingPC
<1>4. ASSUME TruckerStep, ~InsideTrucker PROVE InHand'
  <2>1. Kept /\ ~Advance
    BY <1>4, KeptByTrucker DEF Advance, InsideTrucker
  <2>2. trucker_pc' \notin {"examine", "advance"} /\ ~Lifted'
    BY <1>4 DEF TruckerStep, SetLimits, ResetEnds, ResetNumber, ResetWeight, TruckerTake, InsideTrucker,
                Finish, CountLeft, BlockLoaders, Drain, Cleanup, Lifted,
                TruckerTest, Examine, Advance, Uncount, Unweigh, Load, TruckerGive
  <2>3. CASE TruckerTake \/ Cleanup
    <3>1. UNCHANGED <<loader_pc, weight, register, number, packages, tail, loaded>>
      BY <2>3 DEF TruckerTake, Cleanup, loaders, conveyor, number
    <3> QED BY <2>1, <2>2, <3>1 DEF InHand, Kept
  <2>4. CASE SetLimits \/ ResetEnds \/ ResetNumber \/ ResetWeight
    <3>1. \A l \in Loaders : loader_pc'[l] \notin AddingPC
      BY <2>4 DEF SetLimits, ResetEnds, ResetNumber, ResetWeight, Phases, Setting, AddingPC, loaders
    <3> QED BY <2>2, <3>1 DEF InHand, AddingPC
  <2> QED BY <1>4, <2>3, <2>4 DEF TruckerStep, InsideTrucker, Phases, Finish, CountLeft, BlockLoaders, Drain,
                TruckerTest, Examine, Advance, Uncount, Unweigh, Load, TruckerGive
<1>5. CASE UNCHANGED vars
  BY <1>5 DEF vars, conveyor, trucker, loaders, InHand, OnBelt, BeltLoad, Adding, Lifted, number
<1>6. ~TruckerInterrupt /\ \A l \in Loaders : ~LoaderInterrupt(l)
  BY DEF Undisturbed, TruckerInterrupt, LoaderInterrupt
<1> QED BY <1>1, <1>2, <1>3, <1>4, <1>5, <1>6 DEF Next, LoaderStep

LEMMA InitBelt == Init => BeltInv
<1> SUFFICES ASSUME Init PROVE BeltInv
  OBVIOUS
<1>1. TypeInv /\ MutexInv
  BY InitTypes DEF Init, MutexInv, MutualExclusion, InsideTrucker, InsideLoader, LoaderPC
<1>2. \A l \in Loaders : ~InsideLoader(l)
  BY DEF Init, InsideLoader
<1>3. OnBelt = 0 /\ BeltLoad = 0
  <2>1. CountsByTrucker
    BY <1>1, Counts DEF TypeInv
  <2> QED BY <1>2, <2>1 DEF Init, CountsByTrucker, number, total
<1>4. Phases
  BY Sizes DEF Init, Phases, Setting, number, total
<1>5. InHand
  BY DEF Init, InHand, AddingPC, Lifted
<1>6. Ring
  <2>1. (0 + 0) % K = 0
    BY Sizes
  <2> DEFINE nothing == [i \in 1 .. 1 |-> 0]
  <2>2. nothing \in [1 .. OnBelt + 1 -> Nat] /\ Weighs(nothing)
    BY <1>3 DEF Weighs
  <2> HIDE DEF nothing
  <2> QED BY <1>3, <2>1, <2>2, Sizes DEF Init, Ring
<1> QED BY <1>1, <1>4, <1>5, <1>6 DEF BeltInv

LEMMA BeltNext ==
  ASSUME BeltInv, Undisturbed, [Next]_vars
  PROVE  BeltInv'
<1>1. TypeInv' /\ MutexInv'
  BY NextTypes, MutexNext DEF BeltInv
<1>2. TypeOK'
  BY <1>1 DEF TypeInv
<1> QED BY <1>1, <1>2, RingNext, PhasesNext, InHandNext DEF BeltInv

-----------------------------------------------------------------------------
(* The abstract belt, and the truck with the package that is being lifted   *)

TruckLoad ==
  IF truck = Word - 1 THEN 0
  ELSE IF Lifted THEN truck + packages[first].weight ELSE truck

GivenUp == trucker_pc \in {"cleanup", "gone"}

LEMMA OneMore ==
  ASSUME NEW S, NEW k \in Nat, NEW s \in [1 .. k -> S], NEW t \in [1 .. k + 1 -> S],
         \A i \in 1 .. k : t[i] = s[i]
  PROVE  t = Append(s, t[k + 1]) /\ Len(s) = k
<1>1. s \in Seq(S) /\ Len(s) = k
  OBVIOUS
<1>2. t[k + 1] \in S
  OBVIOUS
<1> QED BY <1>1, <1>2

LEMMA OneLess ==
  ASSUME NEW S, NEW k \in Nat \ {0}, NEW s \in [1 .. k -> S], NEW t \in [1 .. k - 1 -> S],
         \A i \in 1 .. k - 1 : t[i] = s[i + 1]
  PROVE  t = Tail(s) /\ s # <<>> /\ Head(s) = s[1]
<1>1. s \in Seq(S) /\ Len(s) = k
  OBVIOUS
<1>2. s # <<>> /\ Head(s) = s[1]
  BY <1>1
<1>3. Tail(s) \in Seq(S) /\ Len(Tail(s)) = k - 1 /\ \A i \in 1 .. k - 1 : Tail(s)[i] = s[i + 1]
  BY <1>1, <1>2
<1>4. t \in Seq(S) /\ Len(t) = k - 1
  OBVIOUS
<1> QED BY <1>2, <1>3, <1>4

OnRing ==
  /\ BeltSeq \in [1 .. OnBelt -> Package] /\ OnBelt \in 0 .. K
  /\ \A i \in 1 .. OnBelt : BeltSeq[i] = packages[Place(i)]

LEMMA BeltFunction == BeltInv => OnRing
BY DEF BeltInv, Ring, BeltSeq, Place, OnRing

LEMMA KeptIsUnseen ==
  ASSUME BeltInv, BeltInv', Kept
  PROVE  BeltSeq' = BeltSeq /\ BeltLoad' = BeltLoad
<1>1. \A i \in 1 .. OnBelt : (head' + i - 1) % K = Place(i)
  BY DEF Kept, Place
<1>2. BeltSeq' = [i \in 1 .. OnBelt' |-> packages'[(head' + i - 1) % K]]
  BY DEF BeltSeq
<1>3. BeltSeq = [i \in 1 .. OnBelt |-> packages[Place(i)]]
  BY DEF BeltSeq, Place
<1> QED BY <1>1, <1>2, <1>3 DEF Kept

LEMMA CommitImplements ==
  ASSUME BeltInv, BeltInv', NEW l \in Loaders, Commit(l)
  PROVE  /\ BELT!Put(packages[tail]) /\ packages[tail] \in Package
         /\ packages[tail] = [loader |-> l, number |-> loaded[l] + 1, weight |-> weight[l]]
<1>1. /\ OnBelt \in 0 .. K - 1 /\ OnBelt' = OnBelt + 1
      /\ head' = head /\ packages' = packages
      /\ packages[tail] = [loader |-> l, number |-> loaded[l] + 1, weight |-> weight[l]]
      /\ packages[tail] \in Package
      /\ BeltLoad' = BeltLoad + weight[l] /\ BeltLoad + weight[l] <= M
  BY CommitEffect DEF BeltInv, TypeInv
<1>2. BeltSeq \in [1 .. OnBelt -> Package] /\ \A i \in 1 .. OnBelt : BeltSeq[i] = packages[Place(i)]
  BY BeltFunction DEF OnRing
<1>3. BeltSeq' \in [1 .. OnBelt + 1 -> Package] /\ \A i \in 1 .. OnBelt + 1 : BeltSeq'[i] = packages[Place(i)]
  <2>1. /\ BeltSeq' \in [1 .. OnBelt' -> Package]
        /\ \A i \in 1 .. OnBelt' : BeltSeq'[i] = packages'[Place(i)']
    <3>1. OnRing'
      BY BeltFunction, PTL
    <3> QED BY <3>1 DEF OnRing
  <2> QED BY <1>1, <2>1 DEF Place
<1>4. tail = Place(OnBelt + 1)
  <2>1. head + (OnBelt + 1) - 1 = head + OnBelt
    BY <1>1, Sizes DEF BeltInv, TypeInv, TypeOK, Slot
  <2> QED BY <2>1 DEF BeltInv, Ring, Place
<1>5. BeltSeq' = Append(BeltSeq, packages[tail]) /\ Len(BeltSeq) = OnBelt
  <2>1. BeltSeq'[OnBelt + 1] = packages[tail]
    BY <1>1, <1>3, <1>4, Sizes
  <2>2. OnBelt \in Nat /\ \A i \in 1 .. OnBelt : BeltSeq'[i] = BeltSeq[i]
    BY <1>1, <1>2, <1>3, Sizes
  <2> QED BY <1>2, <1>3, <2>1, <2>2, OneMore
<1>6. ~InsideTrucker /\ ~GivenUp /\ UNCHANGED <<trucker_pc, truck, delivered, first>>
  BY DEF Commit, BeltInv, MutexInv, MutualExclusion, InsideLoader, Phases, GivenUp, trucker
<1>7. UNCHANGED <<TruckLoad, Delivery, GivenUp>> /\ ~GivenUp
  BY <1>6 DEF TruckLoad, Delivery, GivenUp, Lifted, InsideTrucker
<1>8. Len(BeltSeq) < K /\ packages[tail].weight = weight[l]
  BY <1>1, <1>5, Sizes
<1>9. BELT!Put(packages[tail])
  BY <1>1, <1>5, <1>7, <1>8 DEF BELT!Put, TruckLoad, Delivery, GivenUp
<1> QED BY <1>1, <1>9

LEMMA AdvanceImplements ==
  ASSUME BeltInv, BeltInv', Advance
  PROVE  BELT!Take
<1>1. /\ OnBelt \in 1 .. K /\ OnBelt' = OnBelt - 1
      /\ head' = (head + 1) % K /\ packages' = packages
      /\ first = head /\ BeltLoad' = BeltLoad - packages[head].weight
  BY AdvanceEffect DEF BeltInv, TypeInv
<1>2. BeltSeq \in [1 .. OnBelt -> Package] /\ \A i \in 1 .. OnBelt : BeltSeq[i] = packages[Place(i)]
  BY BeltFunction DEF OnRing
<1>3. BeltSeq' \in [1 .. OnBelt - 1 -> Package] /\ \A i \in 1 .. OnBelt - 1 : BeltSeq'[i] = packages[Place(i)']
  <2>1. /\ BeltSeq' \in [1 .. OnBelt' -> Package]
        /\ \A i \in 1 .. OnBelt' : BeltSeq'[i] = packages'[Place(i)']
    <3>1. OnRing'
      BY BeltFunction, PTL
    <3> QED BY <3>1 DEF OnRing
  <2> QED BY <1>1, <2>1
<1>4. \A i \in 1 .. OnBelt - 1 : BeltSeq'[i] = BeltSeq[i + 1]
  <2>1. \A i \in 1 .. OnBelt - 1 : Place(i)' = Place(i + 1)
    BY <1>1, NextPlace DEF BeltInv, TypeInv, TypeOK
  <2>2. \A i \in 1 .. OnBelt - 1 : i + 1 \in 1 .. OnBelt
    BY <1>1, Sizes
  <2> QED BY <1>2, <1>3, <2>1, <2>2
<1>5. BeltSeq' = Tail(BeltSeq) /\ BeltSeq # <<>> /\ Head(BeltSeq) = BeltSeq[1]
  BY <1>1, <1>2, <1>3, <1>4, OneLess, Sizes
<1>6. Head(BeltSeq) = packages[first]
  BY <1>1, <1>2, <1>5, FirstOnBelt, Sizes
<1>7. truck # Word - 1 /\ truck + packages[first].weight <= X
  BY DEF Advance, BeltInv, Phases, Setting, InHand
<1>8. /\ TruckLoad = truck /\ TruckLoad' = truck + packages[first].weight
      /\ Delivery = delivered /\ Delivery' = Append(delivered, packages[first])
      /\ ~GivenUp /\ ~GivenUp'
  BY <1>7 DEF Advance, TruckLoad, Delivery, GivenUp, Lifted
<1>9. GivenUp' = GivenUp
  BY <1>8 DEF GivenUp
<1> QED BY <1>1, <1>5, <1>6, <1>7, <1>8, <1>9 DEF BELT!Take, BELT!Fits, TruckLoad, Delivery, GivenUp

(* Neither the trucker with the package in its hands nor the loader seen    *)
(* from outside does anything the abstract belt does not do.                *)
LEMMA LoaderUnseen ==
  ASSUME BeltInv, NEW l \in Loaders, LoaderStep(l)
  PROVE  UNCHANGED <<TruckLoad, Delivery, GivenUp>>
<1>1. UNCHANGED <<trucker_pc, truck, first, delivered>>
  BY DEF LoaderStep, Draw, FindNoTrucker, LoaderTake, LoaderTest, WritePackage, AddWeight, ReadNumber,
         WriteNumber, Commit, LoaderGive, trucker
<1>2. packages' = packages \/ ~Lifted
  <2>1. CASE WritePackage(l)
    BY <2>1 DEF WritePackage, BeltInv, MutexInv, MutualExclusion, InsideLoader, InsideTrucker, Lifted
  <2>2. CASE ~WritePackage(l)
    BY <2>2 DEF LoaderStep, Draw, FindNoTrucker, LoaderTake, LoaderTest, AddWeight, ReadNumber,
         WriteNumber, Commit, LoaderGive, conveyor
  <2> QED BY <2>1, <2>2
<1> QED BY <1>1, <1>2 DEF TruckLoad, Delivery, GivenUp, Lifted

LEMMA TruckerUnseen ==
  ASSUME BeltInv, Undisturbed, TruckerStep, ~Advance, ~Examine
  PROVE  UNCHANGED <<TruckLoad, Delivery, GivenUp>>
<1>1. CASE SetLimits \/ ResetEnds \/ ResetNumber
  BY <1>1, Sizes DEF SetLimits, ResetEnds, ResetNumber, TruckLoad, Delivery, GivenUp, Lifted
<1>2. CASE ResetWeight
  <2>1. truck = Word - 1 /\ truck' = 0 /\ Word - 1 # 0
    BY <1>2, Sizes DEF ResetWeight, BeltInv, Phases, Setting
  <2> QED BY <1>2, <2>1 DEF ResetWeight, TruckLoad, Delivery, GivenUp, Lifted
<1>3. CASE TruckerTake \/ TruckerTest \/ Uncount \/ Unweigh \/ TruckerGive \/ Cleanup
  BY <1>3 DEF TruckerTake, TruckerTest, Uncount, Unweigh, TruckerGive, Cleanup, conveyor,
              TruckLoad, Delivery, GivenUp, Lifted
<1>4. CASE Load
  <2>1. /\ truck \in Nat /\ truck # Word - 1
        /\ packages[first].weight \in Nat /\ truck + packages[first].weight <= X
    <3>1. Lifted /\ packages[first] \in Package
      BY <1>4 DEF Load, Lifted, BeltInv, InHand
    <3>2. packages[first].weight \in Weights
      BY <3>1 DEF Package
    <3> QED BY <1>4, <3>1, <3>2, Sizes DEF Load, BeltInv, InHand, Phases, Setting, TypeInv, TypeOK
  <2>2. X < Word - 1 /\ X \in Nat
    <3>1. packages[first].weight \in Weights
      BY <1>4 DEF Load, Lifted, BeltInv, InHand, Package
    <3> QED BY <3>1, Sizes
  <2>3. truck' = truck + packages[first].weight /\ truck' # Word - 1
    <3>1. Wrap(truck + packages[first].weight) = truck + packages[first].weight
      BY <2>1, <2>2, Unwrapped, Sizes
    <3> QED BY <1>4, <2>1, <2>2, <3>1, Sizes DEF Load
  <2> QED BY <1>4, <2>1, <2>3 DEF Load, TruckLoad, Delivery, GivenUp, Lifted
<1> QED BY <1>1, <1>2, <1>3, <1>4
     DEF TruckerStep, Finish, CountLeft, BlockLoaders, Drain, BeltInv, Phases

(* A package that does not fit ends the truck, or the work.                 *)
LEMMA ExamineImplements ==
  ASSUME BeltInv, BeltInv', TypeOK', MutexInv', Undisturbed, Examine
  PROVE  BELT!Depart \/ BELT!GiveUp \/ UNCHANGED <<BeltSeq, BeltLoad, TruckLoad, Delivery, GivenUp>>
<1>1. BeltSeq' = BeltSeq /\ BeltLoad' = BeltLoad
  BY KeptByTrucker, KeptIsUnseen DEF TruckerStep, Examine, Advance
<1>2. /\ truck \in Nat /\ truck # Word - 1 /\ ~Lifted /\ ~Lifted' /\ ~GivenUp
      /\ UNCHANGED <<delivered, packages, first>>
  BY DEF Examine, BeltInv, Phases, Setting, TypeInv, TypeOK, Lifted, GivenUp, conveyor
<1>3. OnBelt \in 1 .. K /\ first = head /\ packages[first] \in Package
  <2>1. OnBelt > 0 /\ first = head
    BY DEF Examine, BeltInv, InHand
  <2>2. OnBelt \in 0 .. K
    BY DEF BeltInv, Ring
  <2> QED BY <2>1, <2>2, FirstOnBelt, Sizes DEF BeltInv, TypeInv
<1>4. BeltSeq # <<>> /\ Head(BeltSeq) = packages[first]
  <2>1. BeltSeq \in [1 .. OnBelt -> Package] /\ \A i \in 1 .. OnBelt : BeltSeq[i] = packages[Place(i)]
    BY BeltFunction DEF OnRing
  <2>2. Head(BeltSeq) = BeltSeq[1] /\ BeltSeq # <<>>
    <3>1. BeltSeq \in Seq(Package) /\ Len(BeltSeq) = OnBelt
      BY <1>3, <2>1, Sizes
    <3> QED BY <1>3, <3>1, Sizes
  <2>3. Place(1) = head
    BY <1>3, FirstOnBelt, Sizes DEF BeltInv, TypeInv
  <2> QED BY <1>3, <2>1, <2>2, <2>3, Sizes
<1>5. CASE FitsTruck(packages[first])
  BY <1>1, <1>2, <1>5 DEF Examine, TruckLoad, Delivery, GivenUp
<1>6. CASE ~FitsTruck(packages[first])
  <2>1. ~(truck + packages[first].weight <= X)
    <3>1. packages[first].weight \in Weights /\ truck <= X
      BY <1>3 DEF Package, Examine, BeltInv, Phases, Setting
    <3>2. truck + packages[first].weight \in 0 .. Word - 1
      BY <1>2, <3>1, Sizes
    <3> QED BY <1>6, <3>2, Unwrapped DEF FitsTruck
  <2>2. TruckLoad = truck /\ Delivery = delivered /\ Delivery' = Delivery
    BY <1>2 DEF TruckLoad, Delivery
  <2>3. CASE truck > 0
    <3>1. truck' = 0 /\ trucker_pc' = "give" /\ 0 # Word - 1
      BY <1>6, <2>3, Sizes DEF Examine
    <3>2. TruckLoad' = 0 /\ GivenUp' = GivenUp
      BY <1>2, <3>1 DEF TruckLoad, GivenUp
    <3>3. BELT!Depart
      BY <1>1, <1>2, <1>4, <2>1, <2>2, <2>3, <3>2 DEF BELT!Depart, BELT!Fits, TruckLoad, Delivery, GivenUp
    <3> QED BY <3>3
  <2>4. CASE ~(truck > 0)
    <3>1. truck' = truck /\ truck = 0 /\ trucker_pc' = "cleanup"
      BY <1>2, <1>6, <2>4 DEF Examine
    <3>2. TruckLoad' = TruckLoad /\ GivenUp'
      BY <1>2, <3>1 DEF TruckLoad, GivenUp
    <3>3. BELT!GiveUp
      BY <1>1, <1>2, <1>4, <2>1, <2>2, <3>1, <3>2 DEF BELT!GiveUp, BELT!Fits, TruckLoad, Delivery, GivenUp
    <3> QED BY <3>3
  <2> QED BY <2>3, <2>4
<1> QED BY <1>5, <1>6

LEMMA BeltStep ==
  ASSUME BeltInv, BeltInv', Undisturbed, [Next]_vars
  PROVE  [BELT!Next]_(BELT!vars)
<1>0. TypeOK' /\ MutexInv'
  BY DEF BeltInv, TypeInv
<1>1. ASSUME UNCHANGED <<BeltSeq, BeltLoad, TruckLoad, Delivery, GivenUp>>
      PROVE  UNCHANGED BELT!vars
  BY <1>1 DEF BELT!vars, TruckLoad, Delivery, GivenUp
<1>2. ASSUME NEW l \in Loaders, LoaderStep(l) PROVE [BELT!Next]_(BELT!vars)
  <2>1. CASE Commit(l)
    BY <2>1, CommitImplements DEF BELT!Next
  <2>2. CASE ~Commit(l)
    <3>1. Kept
      BY <1>0, <1>2, <2>2, KeptByOthers, KeptByLoader DEF LoaderStep
    <3> QED BY <1>1, <1>2, <3>1, KeptIsUnseen, LoaderUnseen
  <2> QED BY <2>1, <2>2
<1>3. ASSUME TruckerStep PROVE [BELT!Next]_(BELT!vars)
  <2>1. CASE Advance
    BY <2>1, AdvanceImplements DEF BELT!Next
  <2>2. CASE Examine
    BY <1>0, <1>1, <2>2, ExamineImplements DEF BELT!Next
  <2>3. CASE ~Advance /\ ~Examine
    BY <1>0, <1>1, <1>3, <2>3, KeptByTrucker, KeptIsUnseen, TruckerUnseen
  <2> QED BY <2>1, <2>2, <2>3
<1>4. CASE UNCHANGED vars
  <2>1. Kept
    BY <1>4 DEF Kept, vars, conveyor, trucker, loaders, OnBelt, BeltLoad, Adding
  <2>2. UNCHANGED <<TruckLoad, Delivery, GivenUp>>
    BY <1>4 DEF vars, conveyor, trucker, TruckLoad, Delivery, GivenUp, Lifted
  <2> QED BY <1>1, <2>1, <2>2, KeptIsUnseen
<1>5. ~TruckerInterrupt /\ \A l \in Loaders : ~LoaderInterrupt(l)
  BY DEF Undisturbed, TruckerInterrupt, LoaderInterrupt
<1> QED BY <1>2, <1>3, <1>4, <1>5 DEF Next

LEMMA InitStep == Init => BELT!Init
<1> SUFFICES ASSUME Init PROVE BELT!Init
  OBVIOUS
<1>1. BeltInv
  BY InitBelt
<1>2. OnBelt = 0 /\ BeltLoad = 0
  <2>1. CountsByTrucker
    BY <1>1, Counts DEF BeltInv, TypeInv
  <2> QED BY <2>1 DEF Init, CountsByTrucker, InsideLoader, number, total
<1>3. BeltSeq = <<>>
  BY <1>2 DEF BeltSeq
<1> QED BY <1>2, <1>3 DEF Init, BELT!Init, Lifted, Delivery

(* Nobody who loads, unloads or looks at the belt can tell it from a        *)
(* first-in first-out belt that never carries more than K packages or M     *)
(* kilograms, and trucks never carry more than X: the head, the tail and    *)
(* the two counters of struct conveyor, changed one after the other by      *)
(* whoever has the semaphore, implement it, as long as no signal diverts    *)
(* anybody and no loader comes before the belt has been set up.             *)
THEOREM BeltCorrect == Undisturbed => (Spec => ImplementsBelt)
<1> SUFFICES ASSUME Undisturbed PROVE Spec => ImplementsBelt
  OBVIOUS
<1>1. Init => BeltInv /\ BELT!Init
  BY InitBelt, InitStep
<1>2. BeltInv /\ [Next]_vars => BeltInv'
  BY BeltNext
<1>3. BeltInv /\ BeltInv' /\ [Next]_vars => [BELT!Next]_(BELT!vars)
  BY BeltStep
<1> QED BY <1>1, <1>2, <1>3, PTL DEF Spec, ImplementsBelt, BELT!Spec

-----------------------------------------------------------------------------
(* What has been carried                                                   *)

LEMMA CarriedType ==
  ASSUME BeltInv
  PROVE  /\ Delivery \in Seq(Package \cup {Unwritten}) /\ BeltSeq \in Seq(Package \cup {Unwritten})
         /\ Carried \in Seq(Package \cup {Unwritten})
<1> DEFINE AnyPackage == Package \cup {Unwritten}
<1>1. delivered \in Seq(AnyPackage) /\ packages[first] \in AnyPackage
  BY DEF BeltInv, TypeInv, TypeOK
<1> HIDE DEF AnyPackage
<1>2. Delivery \in Seq(AnyPackage)
  BY <1>1 DEF Delivery
<1>3. BeltSeq \in Seq(AnyPackage)
  <2>1. BeltSeq \in [1 .. OnBelt -> Package] /\ OnBelt \in Nat
    BY BeltFunction, Sizes DEF OnRing
  <2>2. BeltSeq \in Seq(Package)
    BY <2>1
  <2> QED BY <2>2 DEF AnyPackage
<1>4. Carried \in Seq(AnyPackage)
  BY <1>2, <1>3 DEF Carried
<1> QED BY <1>2, <1>3, <1>4 DEF AnyPackage

LEMMA Shift ==
  ASSUME NEW S, NEW s \in Seq(S), NEW t \in Seq(S), t # <<>>
  PROVE  Append(s, Head(t)) \o Tail(t) = s \o t
OBVIOUS

LEMMA AppendBehind ==
  ASSUME NEW S, NEW s \in Seq(S), NEW t \in Seq(S), NEW x \in S
  PROVE  s \o Append(t, x) = Append(s \o t, x)
OBVIOUS

(* A step commits a package, which comes behind all others, or changes      *)
(* nothing: to lift a package moves it from the belt to the truck.          *)
LEMMA CarriedNext ==
  ASSUME BeltInv, BeltInv', Undisturbed, [Next]_vars
  PROVE  \/ Carried' = Carried /\ loaded' = loaded
         \/ \E l \in Loaders :
              /\ Carried' = Append(Carried, [loader |-> l, number |-> loaded[l] + 1, weight |-> weight[l]])
              /\ loaded' = [loaded EXCEPT ![l] = @ + 1]
<1>0. TypeOK' /\ MutexInv'
  BY DEF BeltInv, TypeInv
<1>1. ASSUME NEW l \in Loaders, Commit(l)
      PROVE  /\ Carried' = Append(Carried, [loader |-> l, number |-> loaded[l] + 1, weight |-> weight[l]])
             /\ loaded' = [loaded EXCEPT ![l] = @ + 1]
  <2>1. /\ BELT!Put(packages[tail]) /\ packages[tail] \in Package
        /\ packages[tail] = [loader |-> l, number |-> loaded[l] + 1, weight |-> weight[l]]
    BY <1>1, CommitImplements
  <2>2. BeltSeq' = Append(BeltSeq, packages[tail]) /\ Delivery' = Delivery
    BY <2>1 DEF BELT!Put
  <2>3. Carried' = Append(Carried, packages[tail])
    <3>1. Delivery \o Append(BeltSeq, packages[tail]) = Append(Delivery \o BeltSeq, packages[tail])
      BY <2>1, CarriedType, AppendBehind
    <3> QED BY <2>2, <3>1 DEF Carried
  <2> QED BY <1>1, <2>1, <2>3 DEF Commit
<1>2. CASE Advance
  <2>1. BELT!Take
    BY <1>2, AdvanceImplements
  <2>2. BeltSeq # <<>> /\ BeltSeq' = Tail(BeltSeq) /\ Delivery' = Append(Delivery, Head(BeltSeq))
    BY <2>1 DEF BELT!Take
  <2>3. Append(Delivery, Head(BeltSeq)) \o Tail(BeltSeq) = Delivery \o BeltSeq
    BY <2>2, CarriedType, Shift
  <2> QED BY <1>2, <2>2, <2>3 DEF Carried, Advance, loaders
<1>3. ASSUME UNCHANGED <<BeltSeq, Delivery>> PROVE Carried' = Carried
  BY <1>3 DEF Carried
<1>4. ASSUME NEW l \in Loaders, LoaderStep(l), ~Commit(l) PROVE Carried' = Carried /\ loaded' = loaded
  <2>1. Kept
    BY <1>0, <1>4, KeptByOthers, KeptByLoader DEF LoaderStep
  <2>2. UNCHANGED <<BeltSeq, Delivery>>
    BY <1>4, <2>1, KeptIsUnseen, LoaderUnseen
  <2>3. loaded' = loaded
    BY <1>4 DEF LoaderStep, Draw, FindNoTrucker, LoaderTake, LoaderTest, WritePackage, AddWeight, ReadNumber,
                WriteNumber, LoaderGive
  <2> QED BY <1>3, <2>2, <2>3
<1>5. ASSUME TruckerStep, ~Advance PROVE Carried' = Carried /\ loaded' = loaded
  <2>1. UNCHANGED <<BeltSeq, Delivery>>
    <3>1. CASE Examine
      BY <1>0, <3>1, ExamineImplements DEF BELT!Depart, BELT!GiveUp
    <3>2. CASE ~Examine
      BY <1>0, <1>5, <3>2, KeptByTrucker, KeptIsUnseen, TruckerUnseen
    <3> QED BY <3>1, <3>2
  <2>2. loaded' = loaded
    BY <1>5 DEF TruckerStep, SetLimits, ResetEnds, ResetNumber, ResetWeight, TruckerTake, TruckerTest, Examine,
                Uncount, Unweigh, Load, TruckerGive, Finish, CountLeft, BlockLoaders, Drain, Cleanup, loaders
  <2> QED BY <1>3, <2>1, <2>2
<1>6. CASE UNCHANGED vars
  <2>1. Kept
    BY <1>6 DEF Kept, vars, conveyor, trucker, loaders, OnBelt, BeltLoad, Adding
  <2>2. UNCHANGED <<BeltSeq, Delivery, loaded>>
    BY <1>6, <2>1, KeptIsUnseen DEF vars, conveyor, trucker, loaders, Delivery, Lifted
  <2> QED BY <1>3, <2>2
<1>7. ~TruckerInterrupt /\ \A l \in Loaders : ~LoaderInterrupt(l)
  BY DEF Undisturbed, TruckerInterrupt, LoaderInterrupt
<1> QED BY <1>1, <1>2, <1>4, <1>5, <1>6, <1>7 DEF Next

LEMMA CommittedNext ==
  ASSUME BeltInv, BeltInv', Undisturbed, CommittedIsKept, [Next]_vars
  PROVE  CommittedIsKept'
<1>1. CASE Carried' = Carried /\ loaded' = loaded
  BY <1>1 DEF CommittedIsKept
<1>2. ASSUME NEW l \in Loaders, NEW p, p = [loader |-> l, number |-> loaded[l] + 1, weight |-> weight[l]],
             Carried' = Append(Carried, p), loaded' = [loaded EXCEPT ![l] = @ + 1]
      PROVE  CommittedIsKept'
  <2> DEFINE n == Len(Carried)
  <2>1. Carried \in Seq(Package \cup {Unwritten}) /\ n \in Nat
    BY CarriedType
  <2>2. loaded \in [Loaders -> Nat] /\ p.loader = l /\ p.number = loaded[l] + 1
    BY <1>2 DEF BeltInv, TypeInv, TypeOK
  <2>3. loaded'[l] = loaded[l] + 1 /\ \A m \in Loaders : m # l => loaded'[m] = loaded[m]
    BY <1>2, <2>2
  <2>4. DOMAIN Carried = 1 .. n /\ DOMAIN Carried' = 1 .. n + 1
    BY <1>2, <2>1
  <2>5. Carried'[n + 1] = p /\ \A i \in 1 .. n : Carried'[i] = Carried[i]
    <3>1. \A S : \A s \in Seq(S) : \A x : \A i \in 1 .. Len(s) : Append(s, x)[i] = s[i]
      OBVIOUS
    <3>2. \A S : \A s \in Seq(S) : \A x : Append(s, x)[Len(s) + 1] = x
      OBVIOUS
    <3> QED BY <1>2, <2>1, <3>1, <3>2
  <2> HIDE DEF n
  <2>6. \A i \in 1 .. n + 1 : i \in 1 .. n \/ i = n + 1
    BY <2>1
  <2>7. \A i \in 1 .. n : Carried[i].loader \in Loaders /\ Carried[i].number \in 1 .. loaded[Carried[i].loader]
    BY <2>4 DEF CommittedIsKept
  <2>8. \A m \in Loaders : loaded[m] \in Nat /\ loaded'[m] \in Nat /\ loaded[m] <= loaded'[m]
    BY <2>2, <2>3
  <2>9. ASSUME NEW i \in 1 .. n + 1
        PROVE  Carried'[i].loader \in Loaders /\ Carried'[i].number \in 1 .. loaded'[Carried'[i].loader]
    <3>1. CASE i \in 1 .. n
      BY <2>5, <2>7, <2>8, <3>1
    <3>2. CASE i = n + 1
      <4>1. loaded[l] + 1 \in 1 .. loaded'[l]
        BY <2>2, <2>3
      <4> QED BY <1>2, <2>2, <2>5, <3>2, <4>1
    <3> QED BY <2>6, <3>1, <3>2
  <2>10. ASSUME NEW m \in Loaders, NEW k \in 1 .. loaded'[m]
         PROVE  \E i \in 1 .. n + 1 : Carried'[i].loader = m /\ Carried'[i].number = k
    <3>0. n + 1 \in 1 .. n + 1 /\ 1 .. n \subseteq 1 .. n + 1
      BY <2>1
    <3>1. CASE k \in 1 .. loaded[m]
      <4>1. PICK i \in 1 .. n : Carried[i].loader = m /\ Carried[i].number = k
        BY <2>4, <3>1 DEF CommittedIsKept
      <4> QED BY <2>5, <3>0, <4>1
    <3>2. CASE m = l /\ k = loaded[l] + 1
      BY <2>2, <2>5, <3>0, <3>2
    <3>3. k \in 1 .. loaded[m] \/ (m = l /\ k = loaded[l] + 1)
      <4>1. CASE m = l
        BY <2>2, <2>3, <4>1
      <4>2. CASE m # l
        BY <2>3, <4>2
      <4> QED BY <4>1, <4>2
    <3> QED BY <3>1, <3>2, <3>3
  <2>11. ASSUME NEW i \in 1 .. n + 1, NEW j \in 1 .. n + 1, i < j, Carried'[i].loader = Carried'[j].loader
         PROVE  Carried'[i].number < Carried'[j].number
    <3>1. CASE i \in 1 .. n /\ j \in 1 .. n
      <4>1. Carried'[i] = Carried[i] /\ Carried'[j] = Carried[j]
        BY <2>5, <3>1
      <4> QED BY <2>4, <2>11, <3>1, <4>1 DEF CommittedIsKept
    <3>2. CASE i \in 1 .. n /\ j = n + 1
      <4>1. Carried'[i] = Carried[i] /\ Carried'[j] = p
        BY <2>5, <3>2
      <4>2. Carried[i].loader = l /\ Carried[i].number \in 1 .. loaded[l]
        BY <2>2, <2>7, <2>11, <3>2, <4>1
      <4> QED BY <2>2, <4>1, <4>2
    <3>3. ~(i = n + 1)
      BY <2>1, <2>11
    <3> QED BY <2>6, <3>1, <3>2, <3>3
  <2> QED BY <2>4, <2>9, <2>10, <2>11 DEF CommittedIsKept
<1> QED BY <1>1, <1>2, CarriedNext

(* "commit happens here" (loader.c): what a loader has committed is on the  *)
(* belt or delivered, once and in the order in which it was committed, and  *)
(* nothing else is, as long as nobody is interrupted and the belt is set up *)
(* first.                                                                   *)
THEOREM CommittedCorrect == Undisturbed => (Spec => []CommittedIsKept)
<1> SUFFICES ASSUME Undisturbed PROVE Spec => []CommittedIsKept
  OBVIOUS
<1>1. Init => BeltInv /\ CommittedIsKept
  <2> SUFFICES ASSUME Init PROVE BeltInv /\ CommittedIsKept
    OBVIOUS
  <2>1. BELT!Init
    BY InitStep
  <2>2. Carried = <<>>
    BY <2>1 DEF BELT!Init, Carried
  <2> QED BY <2>2, InitBelt DEF Init, CommittedIsKept
<1>2. BeltInv /\ [Next]_vars => BeltInv'
  BY BeltNext
<1>3. BeltInv /\ BeltInv' /\ CommittedIsKept /\ [Next]_vars => CommittedIsKept'
  BY CommittedNext
<1> QED BY <1>1, <1>2, <1>3, PTL DEF Spec
=============================================================================
