------------------------------ MODULE Conveyor ------------------------------
(***************************************************************************)
(* The conveyor belt of cw07: loader processes put packages into a ring    *)
(* buffer in shared memory, one trucker process takes them out into        *)
(* trucks; one semaphore guards the segment.  zad1 uses System V IPC,      *)
(* zad2 POSIX; Posix chooses between what differs: loaders of zad1 take    *)
(* the semaphore with SEM_UNDO, and removing it wakes and fails them,      *)
(* while in zad2 an unlinked semaphore lives on in who has it open.        *)
(*                                                                         *)
(* Inside a critical section every write to the segment is a step: that is *)
(* what SIGINT can interrupt, and what the SIGINT handler of the trucker,  *)
(* which goes on whether or not it gets the semaphore, runs next to.       *)
(***************************************************************************)
EXTENDS Integers, Sequences, FiniteSets, SequencesExt

CONSTANTS
  Loaders,         \* the loader processes
  NoLoader,        \* the loader of memory never written
  Weights,         \* the weights loaders draw (1..N of the code)
  C,               \* packages a loader loads (its second argument)
  X, K, M,         \* truck capacity, belt places, belt capacity (kg)
  Word,            \* unsigned int is 0 .. Word - 1
  Posix,           \* zad2 instead of zad1
  EarlyLoaders,    \* may loaders run before the trucker has set up the belt?
  LoaderSignals,   \* may loaders receive SIGINT?
  TruckerSignals   \* may the trucker receive SIGINT?

ASSUME ArgumentsAssumption ==
  /\ C \in Nat \ {0} /\ X \in Nat \ {0} /\ K \in Nat \ {0} /\ M \in Nat \ {0}
  /\ Weights \subseteq Nat \ {0}
  /\ Word \in Nat /\ Word > K /\ \A w \in Weights : Word > X + M + w
  /\ NoLoader \notin Loaders
  /\ {Posix, EarlyLoaders, LoaderSignals, TruckerSignals} \subseteq BOOLEAN

Package == [loader : Loaders, number : 1 .. C, weight : Weights]
Unwritten == [loader |-> NoLoader, number |-> 0, weight |-> 0]

VARIABLES
  belt_K, belt_M, head, tail,          \* struct conveyor
  current_total_number_of_packages,
  current_total_weight_of_packages,
  packages,
  sem,            \* "free", "taken" or "removed"
  trucker_pc,     \* where the trucker is
  truck,          \* truck_total_weight_of_packages
  first,          \* index of the package the trucker has examined
  left,           \* current_total_number_of_packages, the local of finish()
  loader_pc,      \* where each loader is
  weight,         \* the local weight of each loader; 0 when try is 0
  loaded,         \* packages each loader has got onto the belt
  register,       \* each loader's copy of the counter it is changing
  delivered       \* the packages put in trucks, for the properties

conveyor == <<belt_K, belt_M, head, tail, current_total_number_of_packages,
              current_total_weight_of_packages, packages>>
trucker == <<trucker_pc, truck, first, left, delivered>>
loaders == <<loader_pc, weight, loaded, register>>
vars == <<conveyor, sem, trucker, loaders>>

TruckerPC ==
  {"set_limits", "reset_ends", "reset_number", "reset_weight",
   "take", "test", "examine", "advance", "uncount", "unweigh", "load", "give",
   "finish", "count", "block", "drain", "cleanup", "gone"}

LoaderPC ==
  {"draw", "take", "test", "write", "add_weight", "read_number",
   "write_number", "commit", "give", "done", "failed", "killed"}

Slot == 0 .. K - 1

(* The segment is zero-filled; the semaphore has been set to 1.             *)
Init ==
  /\ belt_K = 0 /\ belt_M = 0 /\ head = 0 /\ tail = 0
  /\ current_total_number_of_packages = 0
  /\ current_total_weight_of_packages = 0
  /\ packages = [i \in Slot |-> Unwritten]
  /\ sem = "free"
  /\ trucker_pc = "set_limits"
  /\ truck = Word - 1
  /\ first = 0 /\ left = 0
  /\ loader_pc = [l \in Loaders |-> "draw"]
  /\ weight = [l \in Loaders |-> 0]
  /\ loaded = [l \in Loaders |-> 0]
  /\ register = [l \in Loaders |-> 0]
  /\ delivered = <<>>

(* Mistake: signed arithmetic.                                              *)
Wrap_signed(x) == x

Wrap(x) == x % Word

Goto(l, to) == loader_pc' = [loader_pc EXCEPT ![l] = to]

-----------------------------------------------------------------------------
(* loader.c: the body of the main loop                                     *)

(* "unsigned weight = rand() % N + 1".  The truck weighs -1 until the        *)
(* trucker has set up the belt.                                             *)
Draw(l) ==
  /\ loader_pc[l] = "draw"
  /\ EarlyLoaders \/ truck # Word - 1
  /\ \E w \in Weights : weight' = [weight EXCEPT ![l] = w]
  /\ Goto(l, "take")
  /\ UNCHANGED <<conveyor, sem, trucker, loaded, register>>

(* A loader that starts when the trucker is gone finds nothing to open.     *)
FindNoTrucker(l) ==
  /\ loader_pc[l] = "draw" /\ loaded[l] = 0
  /\ trucker_pc = "gone"
  /\ Goto(l, "failed")
  /\ UNCHANGED <<conveyor, sem, trucker, weight, loaded, register>>

LoaderTake(l) ==
  /\ loader_pc[l] = "take"
  /\ \/ /\ sem = "free"
        /\ sem' = "taken"
        /\ Goto(l, "test")
     \/ /\ sem = "removed"
        /\ Goto(l, "failed")
        /\ UNCHANGED sem
  /\ UNCHANGED <<conveyor, trucker, weight, loaded, register>>

(* Mistake: one package too many.                                           *)
HasRoom_overfull(w) ==
  /\ current_total_number_of_packages <= belt_K
  /\ Wrap(current_total_weight_of_packages + w) <= belt_M

HasRoom(w) ==
  /\ current_total_number_of_packages < belt_K
  /\ Wrap(current_total_weight_of_packages + w) <= belt_M

LoaderTest(l) ==
  /\ loader_pc[l] = "test"
  /\ Goto(l, IF HasRoom(weight[l]) THEN "write" ELSE "give")
  /\ UNCHANGED <<conveyor, sem, trucker, weight, loaded, register>>

(* Mistake: the package is written where the trucker reads.                 *)
WritePackage_athead(l) ==
  /\ loader_pc[l] = "write"
  /\ packages' = [packages EXCEPT ![head] =
       [loader |-> l, number |-> loaded[l] + 1, weight |-> weight[l]]]
  /\ Goto(l, "add_weight")
  /\ UNCHANGED <<belt_K, belt_M, head, tail, current_total_number_of_packages,
                 current_total_weight_of_packages, sem, trucker, weight,
                 loaded, register>>

WritePackage(l) ==
  /\ loader_pc[l] = "write"
  /\ packages' = [packages EXCEPT ![tail] =
       [loader |-> l, number |-> loaded[l] + 1, weight |-> weight[l]]]
  /\ Goto(l, "add_weight")
  /\ UNCHANGED <<belt_K, belt_M, head, tail, current_total_number_of_packages,
                 current_total_weight_of_packages, sem, trucker, weight,
                 loaded, register>>

AddWeight(l) ==
  /\ loader_pc[l] = "add_weight"
  /\ current_total_weight_of_packages' =
       Wrap(current_total_weight_of_packages + weight[l])
  /\ Goto(l, "read_number")
  /\ UNCHANGED <<belt_K, belt_M, head, tail, current_total_number_of_packages,
                 packages, sem, trucker, weight, loaded, register>>

(* current_total_number_of_packages++ is a load and a store, between which  *)
(* finish() of the trucker may store K.                                     *)
ReadNumber(l) ==
  /\ loader_pc[l] = "read_number"
  /\ register' = [register EXCEPT ![l] = current_total_number_of_packages]
  /\ Goto(l, "write_number")
  /\ UNCHANGED <<conveyor, sem, trucker, weight, loaded>>

WriteNumber(l) ==
  /\ loader_pc[l] = "write_number"
  /\ current_total_number_of_packages' = Wrap(register[l] + 1)
  /\ Goto(l, "commit")
  /\ UNCHANGED <<belt_K, belt_M, head, tail, current_total_weight_of_packages,
                 packages, sem, trucker, weight, loaded, register>>

(* "commit happens here"                                                    *)
Commit(l) ==
  /\ loader_pc[l] = "commit"
  /\ tail' = (tail + 1) % belt_K
  /\ loaded' = [loaded EXCEPT ![l] = @ + 1]
  /\ weight' = [weight EXCEPT ![l] = 0]
  /\ register' = [register EXCEPT ![l] = 0]
  /\ Goto(l, "give")
  /\ UNCHANGED <<belt_K, belt_M, head, current_total_number_of_packages,
                 current_total_weight_of_packages, packages, sem, trucker>>

(* A package that found no room is tried again, with the same weight.       *)
LoaderGive(l) ==
  /\ loader_pc[l] = "give"
  /\ \/ /\ sem # "removed"
        /\ sem' = "free"
        /\ Goto(l, IF weight[l] # 0 THEN "take"
                   ELSE IF loaded[l] < C THEN "draw" ELSE "done")
     \/ /\ sem = "removed"
        /\ Goto(l, "failed")
        /\ UNCHANGED sem
  /\ UNCHANGED <<conveyor, trucker, weight, loaded, register>>

InsideLoader(l) ==
  loader_pc[l] \in {"test", "write", "add_weight", "read_number",
                   "write_number", "commit", "give"}

(* Mistake: the handler gives the semaphore back without having taken it.   *)
LoaderInterrupt_gives(l) ==
  /\ LoaderSignals
  /\ loader_pc[l] \notin {"done", "failed", "killed"}
  /\ sem' = IF sem = "taken" THEN "free" ELSE sem
  /\ Goto(l, "killed")
  /\ UNCHANGED <<conveyor, trucker, weight, loaded, register>>

(* sigint_handler of the loader ends the process; the kernel undoes its     *)
(* semaphore operation in zad1, and undoes nothing else.                    *)
LoaderInterrupt(l) ==
  /\ LoaderSignals
  /\ loader_pc[l] \notin {"done", "failed", "killed"}
  /\ sem' = IF InsideLoader(l) /\ ~Posix /\ sem = "taken" THEN "free" ELSE sem
  /\ Goto(l, "killed")
  /\ UNCHANGED <<conveyor, trucker, weight, loaded, register>>

-----------------------------------------------------------------------------
(* trucker.c: main, from the initialization of the belt on                 *)

SetLimits ==
  /\ trucker_pc = "set_limits"
  /\ belt_K' = K /\ belt_M' = M
  /\ trucker_pc' = "reset_ends"
  /\ UNCHANGED <<head, tail, current_total_number_of_packages,
                 current_total_weight_of_packages, packages, sem, truck, first,
                 left, delivered, loaders>>

ResetEnds ==
  /\ trucker_pc = "reset_ends"
  /\ head' = 0 /\ tail' = 0
  /\ trucker_pc' = "reset_number"
  /\ UNCHANGED <<belt_K, belt_M, current_total_number_of_packages,
                 current_total_weight_of_packages, packages, sem, truck, first,
                 left, delivered, loaders>>

ResetNumber ==
  /\ trucker_pc = "reset_number"
  /\ current_total_number_of_packages' = 0
  /\ trucker_pc' = "reset_weight"
  /\ UNCHANGED <<belt_K, belt_M, head, tail, current_total_weight_of_packages,
                 packages, sem, truck, first, left, delivered, loaders>>

ResetWeight ==
  /\ trucker_pc = "reset_weight"
  /\ current_total_weight_of_packages' = 0
  /\ truck' = 0
  /\ trucker_pc' = "take"
  /\ UNCHANGED <<belt_K, belt_M, head, tail, current_total_number_of_packages,
                 packages, sem, first, left, delivered, loaders>>

TruckerTake ==
  /\ trucker_pc = "take" /\ sem = "free"
  /\ sem' = "taken"
  /\ trucker_pc' = "test"
  /\ UNCHANGED <<conveyor, truck, first, left, delivered, loaders>>

TruckerTest ==
  /\ trucker_pc = "test"
  /\ IF current_total_number_of_packages > 0
       THEN first' = head /\ trucker_pc' = "examine"
       ELSE trucker_pc' = "give" /\ UNCHANGED first
  /\ UNCHANGED <<conveyor, sem, truck, left, delivered, loaders>>

FitsTruck(p) == Wrap(truck + p.weight) <= X

(* Mistake: a truck departs without giving the semaphore back.              *)
Examine_keeps ==
  /\ trucker_pc = "examine"
  /\ IF FitsTruck(packages[first])
       THEN trucker_pc' = "advance" /\ UNCHANGED truck
     ELSE IF truck > 0
       THEN truck' = 0 /\ trucker_pc' = "take"
       ELSE trucker_pc' = "cleanup" /\ UNCHANGED truck
  /\ UNCHANGED <<conveyor, sem, first, left, delivered, loaders>>

Examine ==
  /\ trucker_pc = "examine"
  /\ IF FitsTruck(packages[first])
       THEN trucker_pc' = "advance" /\ UNCHANGED truck
     ELSE IF truck > 0
       THEN truck' = 0 /\ trucker_pc' = "give"
       ELSE trucker_pc' = "cleanup" /\ UNCHANGED truck
  /\ UNCHANGED <<conveyor, sem, first, left, delivered, loaders>>

Advance ==
  /\ trucker_pc = "advance"
  /\ head' = (head + 1) % belt_K
  /\ trucker_pc' = "uncount"
  /\ UNCHANGED <<belt_K, belt_M, tail, current_total_number_of_packages,
                 current_total_weight_of_packages, packages, sem, truck, first,
                 left, delivered, loaders>>

Uncount ==
  /\ trucker_pc = "uncount"
  /\ current_total_number_of_packages' =
       Wrap(current_total_number_of_packages - 1)
  /\ trucker_pc' = "unweigh"
  /\ UNCHANGED <<belt_K, belt_M, head, tail, current_total_weight_of_packages,
                 packages, sem, truck, first, left, delivered, loaders>>

Unweigh ==
  /\ trucker_pc = "unweigh"
  /\ current_total_weight_of_packages' =
       Wrap(current_total_weight_of_packages - packages[first].weight)
  /\ trucker_pc' = "load"
  /\ UNCHANGED <<belt_K, belt_M, head, tail, current_total_number_of_packages,
                 packages, sem, truck, first, left, delivered, loaders>>

Load ==
  /\ trucker_pc = "load"
  /\ truck' = Wrap(truck + packages[first].weight)
  /\ delivered' = Append(delivered, packages[first])
  /\ trucker_pc' = "give"
  /\ UNCHANGED <<conveyor, sem, first, left, loaders>>

TruckerGive ==
  /\ trucker_pc = "give"
  /\ sem' = "free"
  /\ trucker_pc' = "take"
  /\ UNCHANGED <<conveyor, truck, first, left, delivered, loaders>>

-----------------------------------------------------------------------------
(* trucker.c: sigint_handler, finish and cleanup.  SIGINT is blocked while  *)
(* its handler runs; one that comes when main is already exiting is not     *)
(* modelled.                                                                *)

TruckerInterrupt ==
  /\ TruckerSignals
  /\ trucker_pc \notin {"finish", "count", "block", "drain", "cleanup", "gone"}
  /\ trucker_pc' = "finish"
  /\ UNCHANGED <<conveyor, sem, truck, first, left, delivered, loaders>>

(* The result of the attempt to take the semaphore is ignored.              *)
Finish ==
  /\ trucker_pc = "finish"
  /\ sem' = "taken"
  /\ trucker_pc' = "count"
  /\ UNCHANGED <<conveyor, truck, first, left, delivered, loaders>>

CountLeft ==
  /\ trucker_pc = "count"
  /\ left' = current_total_number_of_packages
  /\ trucker_pc' = "block"
  /\ UNCHANGED <<conveyor, sem, truck, first, delivered, loaders>>

BlockLoaders ==
  /\ trucker_pc = "block"
  /\ current_total_number_of_packages' = belt_K
  /\ trucker_pc' = "drain"
  /\ UNCHANGED <<belt_K, belt_M, head, tail, current_total_weight_of_packages,
                 packages, sem, truck, first, left, delivered, loaders>>

(* "for each package"; only the trucker uses head.                          *)
Drain ==
  /\ trucker_pc = "drain"
  /\ IF left = 0
       THEN trucker_pc' = "cleanup" /\ UNCHANGED <<head, left, truck, delivered>>
     ELSE IF FitsTruck(packages[head])
       THEN /\ head' = (head + 1) % belt_K
            /\ left' = left - 1
            /\ truck' = Wrap(truck + packages[head].weight)
            /\ delivered' = Append(delivered, packages[head])
            /\ UNCHANGED trucker_pc
     ELSE IF truck > 0
       THEN truck' = 0 /\ UNCHANGED <<trucker_pc, head, left, delivered>>
       ELSE trucker_pc' = "cleanup" /\ UNCHANGED <<head, left, truck, delivered>>
  /\ UNCHANGED <<belt_K, belt_M, tail, current_total_number_of_packages,
                 current_total_weight_of_packages, packages, sem, first,
                 loaders>>

(* Mistake: the semaphore is not removed.                                   *)
Cleanup_leaves ==
  /\ trucker_pc = "cleanup"
  /\ trucker_pc' = "gone"
  /\ UNCHANGED <<conveyor, sem, truck, first, left, delivered, loaders>>

(* The segment lives on until the loaders detach it.                        *)
Cleanup ==
  /\ trucker_pc = "cleanup"
  /\ sem' = IF Posix THEN sem ELSE "removed"
  /\ trucker_pc' = "gone"
  /\ UNCHANGED <<conveyor, truck, first, left, delivered, loaders>>

-----------------------------------------------------------------------------
LoaderStep(l) ==
  \/ Draw(l) \/ FindNoTrucker(l) \/ LoaderTake(l) \/ LoaderTest(l)
  \/ WritePackage(l) \/ AddWeight(l) \/ ReadNumber(l) \/ WriteNumber(l) \/ Commit(l)
  \/ LoaderGive(l)

TruckerStep ==
  \/ SetLimits \/ ResetEnds \/ ResetNumber \/ ResetWeight
  \/ TruckerTake \/ TruckerTest \/ Examine \/ Advance \/ Uncount \/ Unweigh
  \/ Load \/ TruckerGive
  \/ Finish \/ CountLeft \/ BlockLoaders \/ Drain \/ Cleanup

Next ==
  \/ TruckerStep
  \/ TruckerInterrupt
  \/ \E l \in Loaders : LoaderStep(l) \/ LoaderInterrupt(l)

Spec == Init /\ [][Next]_vars

(* Every process keeps running; signals may never come.  Who finds the      *)
(* semaphore free may take it, however long another has been asleep on it:  *)
(* sem_wait promises no order.                                              *)
FairSpec ==
  /\ Spec
  /\ WF_vars(TruckerStep)
  /\ \A l \in Loaders : WF_vars(LoaderStep(l))

(* System V: the semop that gives the semaphore back performs the operation *)
(* of the process that has slept longest on it, before any newcomer's: one  *)
(* that waits again and again is served.                                    *)
ServedSpec ==
  /\ FairSpec
  /\ SF_vars(TruckerTake)
  /\ \A l \in Loaders : SF_vars(LoaderTake(l))

-----------------------------------------------------------------------------
(* Properties                                                              *)

TypeOK ==
  /\ belt_K \in {0, K} /\ belt_M \in {0, M}
  /\ head \in Slot /\ tail \in Slot
  /\ current_total_number_of_packages \in 0 .. Word - 1
  /\ current_total_weight_of_packages \in 0 .. Word - 1
  /\ packages \in [Slot -> Package \cup {Unwritten}]
  /\ sem \in {"free", "taken", "removed"}
  /\ trucker_pc \in TruckerPC
  /\ truck \in 0 .. Word - 1
  /\ first \in Slot /\ left \in 0 .. Word - 1
  /\ loader_pc \in [Loaders -> LoaderPC]
  /\ weight \in [Loaders -> Weights \cup {0}]
  /\ loaded \in [Loaders -> 0 .. C]
  /\ register \in [Loaders -> 0 .. Word - 1]
  /\ delivered \in Seq(Package \cup {Unwritten})

InsideTrucker ==
  trucker_pc \in {"test", "examine", "advance", "uncount", "unweigh", "load",
                 "give"}

(* No two processes are in their critical sections at once, whichever of    *)
(* them SIGINT ends or diverts.                                             *)
MutualExclusion ==
  /\ \A l, m \in Loaders : InsideLoader(l) /\ InsideLoader(m) => l = m
  /\ \A l \in Loaders : InsideLoader(l) => ~InsideTrucker

(* A package moves from the belt to the truck when head passes it, and on   *)
(* to the belt when tail does.                                              *)
Lifted == trucker_pc \in {"uncount", "unweigh", "load"}

Adding(pcs) == {l \in Loaders : loader_pc[l] \in pcs}

OnBelt ==
  current_total_number_of_packages - Cardinality(Adding({"commit"}))
    - (IF trucker_pc = "uncount" THEN 1 ELSE 0)

BeltSeq == [i \in 1 .. OnBelt |-> packages[(head + i - 1) % K]]

Delivery == IF Lifted THEN Append(delivered, packages[first]) ELSE delivered

BeltLoad ==
  LET adding == Adding({"read_number", "write_number", "commit"}) IN
  current_total_weight_of_packages
    - (IF adding = {} THEN 0 ELSE weight[CHOOSE l \in adding : TRUE])
    - (IF trucker_pc \in {"uncount", "unweigh"} THEN packages[first].weight ELSE 0)

BELT == INSTANCE Belt WITH
  belt      <- BeltSeq,
  load      <- BeltLoad,
  truck     <- IF truck = Word - 1 THEN 0
               ELSE IF Lifted THEN truck + packages[first].weight ELSE truck,
  delivered <- Delivery,
  closed    <- trucker_pc \in {"cleanup", "gone"}

(* The ring buffer and its two counters, changed one at a time, are the     *)
(* first-in first-out belt, as long as no signal comes.                     *)
ImplementsBelt == BELT!Spec

(* All that has been on the belt, in the order in which it came             *)
Carried == Delivery \o BeltSeq

(* "commit happens here": what a loader has committed is on the belt or     *)
(* delivered, once and in order, and nothing else is.                       *)
CommittedIsKept ==
  /\ \A i \in DOMAIN Carried :
       /\ Carried[i].loader \in Loaders
       /\ Carried[i].number \in 1 .. loaded[Carried[i].loader]
  /\ \A l \in Loaders : \A n \in 1 .. loaded[l] :
       \E i \in DOMAIN Carried : Carried[i].loader = l /\ Carried[i].number = n
  /\ \A i, j \in DOMAIN Carried :
       i < j /\ Carried[i].loader = Carried[j].loader => Carried[i].number < Carried[j].number

(* Who finds the semaphore free finds the belt as its counters say.  A      *)
(* loader that is interrupted half-way, or that comes before the belt is    *)
(* set up, may break this for good.                                         *)
Consistent ==
  sem = "free" =>
    /\ tail = (head + current_total_number_of_packages) % K
    /\ current_total_weight_of_packages =
         FoldLeft(LAMBDA sum, p : sum + p.weight, 0, BeltSeq)

(* While that is so, and whoever else is interrupted, every loader comes to *)
(* its end: it has loaded its packages, was interrupted, or was failed by   *)
(* the removal of the semaphore.                                            *)
LoadersEnd ==
  []Consistent =>
    <>(\A l \in Loaders : loader_pc[l] \in {"done", "failed", "killed"})

(* A loader gives the semaphore back, to try again, without having found    *)
(* room on the belt.                                                        *)
Retrying(l) == loader_pc[l] = "give" /\ weight[l] # 0

(* What is on the belt reaches a truck, unless loaders that find no room    *)
(* come before the trucker forever: nothing else can keep it there, whoever *)
(* is the first to take the semaphore.                                      *)
EverythingDelivered ==
  (\A l \in Loaders : <>[]~Retrying(l)) =>
    \A l \in Loaders : \A i \in 1 .. C :
      loaded[l] >= i ~> (\E j \in 1 .. Len(delivered) :
                          delivered[j].loader = l /\ delivered[j].number = i)
=============================================================================
