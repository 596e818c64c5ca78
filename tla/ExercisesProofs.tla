--------------------------- MODULE ExercisesProofs ---------------------------
(*****************************************************************************)
(* What is proved of the small programs: a section for each, and last the    *)
(* module Exercises that TLC checks.  pipeline (cw05/zad1) has no invariant: *)
(* what is said of it is liveness, which stays with TLC.                     *)
(*                                                                           *)
(* The programs share no variable.  Each has an inductive invariant of its   *)
(* own (WatchInv and CountInv, FilterInv, RecordsInv, FifoInv).              *)
(*****************************************************************************)
EXTENDS Exercises, FiniteSetTheorems, TLAPS

-----------------------------------------------------------------------------
(* Division and multiples, by which columns are divided and texts are cut  *)

LEMMA DivMod ==
  ASSUME NEW a \in Int, NEW b \in Nat, b > 0
  PROVE  /\ a \div b \in Int /\ a % b \in 0 .. b - 1
         /\ a = b * (a \div b) + (a % b)
  BY SMT

LEMMA Multiples ==
  ASSUME NEW p \in Int, NEW q \in Int, NEW b \in Nat, p < q
  PROVE  b * p + b <= b * q
<1>1. b * (q - p - 1) >= 0
  BY SMT
<1> QED BY <1>1, SMT

(* Numbers with the same remainder are at least the divisor apart.          *)
LEMMA Apart ==
  ASSUME NEW a \in Nat, NEW b \in Nat, NEW m \in Nat, m > 0, a % m = b % m, a < b
  PROVE  a + m <= b
<1> DEFINE p == a \div m
           q == b \div m
<1>1. p \in Int /\ q \in Int /\ a = m * p + (a % m) /\ b = m * q + (a % m) /\ a % m \in 0 .. m - 1
  BY DivMod
<1> HIDE DEF p, q
<1>2. p < q
  <2>1. SUFFICES ASSUME q <= p PROVE FALSE
    BY <1>1
  <2>2. q = p \/ m * q + m <= m * p
    BY <1>1, <2>1, Multiples
  <2> QED BY <1>1, <2>2
<1>3. m * p + m <= m * q
  BY <1>1, <1>2, Multiples
<1> QED BY <1>1, <1>3

-----------------------------------------------------------------------------
(*****************************************************************************)
(* Watch: what a watcher reads is not lost, and what proclist says of it is  *)
(* true, for any number of watchers, files that change at any time and users *)
(* who type anything.                                                        *)
(*****************************************************************************)

Labels ==
  {"unborn", "register", "test", "stat", "create", "write", "count", "read", "fork", "sleep",
   "pause", "paused", "exited", "failed", "killed"}

WatchTypes ==
  /\ now \in Nat \ {0}
  /\ file \in [Watchers -> [version : Nat, date : Nat]]
  /\ watch_pc \in [Watchers -> Labels]
  /\ active \in [Watchers -> BOOLEAN]
  /\ pending \in [Watchers -> SUBSET {"USR1", "INT"}]
  /\ mtime \in [Watchers -> Nat]
  /\ last_mtime \in [Watchers -> Nat]
  /\ buffer \in [Watchers -> Nat]
  /\ proc_active \in [Watchers -> BOOLEAN]
  /\ i \in Nat \ {0}

(* Watchers are started one after the other, and only once.                 *)
SpawnInv ==
  /\ \A w \in Watchers : watch_pc[w] = "unborn" => active[w] /\ pending[w] = {}
  /\ monitor_pc = "spawn" => \A w \in Watchers : w >= i => watch_pc[w] = "unborn"

Kept(w) == \E c \in DOMAIN archive : c[1] = w /\ archive[c] = buffer[w]

(* A buffer that is about to be read into has been copied; one that has     *)
(* been read has a date.                                                    *)
CopyInv ==
  /\ build # "cp" => cps = {}
  /\ build = "cp" => \A w \in Watchers : buffer[w] = 0
  /\ \A w \in Watchers :
       /\ last_mtime[w] = 0 => buffer[w] = 0
       /\ watch_pc[w] \in {"create", "write", "count", "read"} => mtime[w] # 0 /\ build # "cp"
       /\ watch_pc[w] = "fork" => build = "cp"
       /\ watch_pc[w] = "write" => <<w, mtime[w]>> \in DOMAIN archive
       /\ watch_pc[w] = "count" => Kept(w)
       /\ watch_pc[w] = "read" /\ buffer[w] # 0 => Kept(w)

WatchInv == WatchTypes /\ SpawnInv /\ CopyInv

-----------------------------------------------------------------------------
(* The steps, by what they change                                          *)

LEMMA WatchInitInv == WatchInit => WatchInv
<1> SUFFICES ASSUME WatchInit PROVE WatchInv
  OBVIOUS
<1>1. WatchTypes
  BY DEF WatchInit, WatchTypes, Labels
<1>2. SpawnInv
  BY DEF WatchInit, SpawnInv
<1>3. CopyInv
  BY DEF WatchInit, CopyInv
<1> QED BY <1>1, <1>2, <1>3 DEF WatchInv

(* Time, files and cp                                                       *)
LEMMA OutsideInv ==
  ASSUME WatchInv, Tick \/ (\E w \in Watchers : Modify(w) \/ Remove(w)) \/ (\E c \in cps : CpRuns(c))
  PROVE  WatchInv'
<1> USE DEF WatchInv
<1>1. UNCHANGED <<watcher, monitor, build>>
  BY DEF Tick, Modify, Remove, CpRuns
<1>2. WatchTypes'
  <2>1. CASE Tick
    BY <1>1, <2>1 DEF Tick, WatchTypes, watcher, monitor
  <2>2. CASE \E w \in Watchers : Modify(w) \/ Remove(w)
    BY <1>1, <2>2 DEF Modify, Remove, WatchTypes, watcher, monitor
  <2>3. CASE \E c \in cps : CpRuns(c)
    BY <1>1, <2>3 DEF CpRuns, WatchTypes, watcher, monitor
  <2> QED BY <2>1, <2>2, <2>3
<1>3. SpawnInv'
  BY <1>1 DEF SpawnInv, watcher, monitor
<1>4. CopyInv'
  <2>1. CASE UNCHANGED <<archive, cps>>
    BY <1>1, <2>1 DEF CopyInv, Kept, watcher, monitor
  <2>2. CASE build = "cp"
    <3>1. \A w \in Watchers : watch_pc[w] \notin {"create", "write", "count", "read"}
      BY <2>2 DEF CopyInv
    <3> QED BY <1>1, <2>2, <3>1 DEF CopyInv, watcher, monitor
  <2>3. UNCHANGED <<archive, cps>> \/ build = "cp"
    BY DEF CopyInv, Tick, Modify, Remove, CpRuns
  <2> QED BY <2>1, <2>2, <2>3
<1> QED BY <1>2, <1>3, <1>4

(* monitor.c                                                                *)
LEMMA MonitorInv ==
  ASSUME WatchInv,
         \/ MonitorStep \/ EndCommand \/ EndOfInput \/ ControlC
         \/ \E w \in Watchers : Wait(w)
         \/ \E on \in BOOLEAN : Set(Watchers, on) \/ \E w \in Watchers : Set({w}, on)
  PROVE  WatchInv'
<1> USE DEF WatchInv
<1>1. CASE Spawn
  <2>1. i \in Watchers
    BY <1>1 DEF Spawn, Watchers, WatchTypes
  <2>2. \E to \in {"register", "test"} : watch_pc' = [watch_pc EXCEPT ![i] = to]
    BY <1>1 DEF Spawn, Goto
  <2>3. WatchTypes'
    BY <1>1, <2>1, <2>2 DEF Spawn, WatchTypes, Labels, files
  <2>4. SpawnInv'
    BY <1>1, <2>1, <2>2 DEF Spawn, WatchTypes, SpawnInv, Labels, Watchers
  <2>5. CopyInv'
    BY <1>1, <2>1, <2>2 DEF Spawn, WatchTypes, CopyInv, Kept, files
  <2> QED BY <2>3, <2>4, <2>5
<1>2. CASE SpawnedAll \/ WaitPid \/ WaitedForAll \/ EndCommand \/ EndOfInput \/ \E w \in Watchers : Wait(w)
  <2>1. UNCHANGED <<build, files, cps, watcher, proc_active>> /\ monitor_pc' # "spawn" /\ i' \in Nat \ {0}
    BY <1>2 DEF SpawnedAll, WaitPid, WaitedForAll, EndCommand, EndOfInput, Wait, WatchTypes
  <2>2. WatchTypes' /\ SpawnInv' /\ CopyInv'
    BY <2>1 DEF WatchTypes, SpawnInv, CopyInv, Kept, files, watcher
  <2> QED BY <2>2
<1>3. CASE ControlC \/ KillWatcher \/ \E on \in BOOLEAN : Set(Watchers, on) \/ \E w \in Watchers : Set({w}, on)
  <2>1. PICK targets \in SUBSET Watchers, signal \in {"USR1", "INT"} : Raise(targets, signal)
    <3>1. CASE ControlC
      BY <3>1 DEF ControlC
    <3>2. CASE KillWatcher
      <4>1. i \in Watchers
        BY <3>2 DEF KillWatcher, WatchTypes, Watchers
      <4>2. Raise({i}, "INT") /\ {i} \in SUBSET Watchers
        BY <3>2, <4>1 DEF KillWatcher
      <4> QED BY <4>2
    <3>3. ASSUME NEW on \in BOOLEAN, NEW told \in SUBSET Watchers, Set(told, on)
          PROVE  \E targets \in SUBSET Watchers : Raise(targets, "USR1")
      <4>1. {w \in told : ToldOtherwise(w, on)} \in SUBSET Watchers
        OBVIOUS
      <4> QED BY <3>3, <4>1 DEF Set
    <3> QED BY <1>3, <3>1, <3>2, <3>3
  <2>2. /\ UNCHANGED <<build, files, cps, watch_pc, active, mtime, last_mtime, buffer>>
        /\ monitor_pc' # "spawn" /\ i' \in Nat \ {0}
        /\ proc_active' \in [Watchers -> BOOLEAN]
    <3>1. CASE ControlC \/ KillWatcher
      BY <3>1 DEF ControlC, KillWatcher, WatchTypes
    <3>2. ASSUME NEW on \in BOOLEAN, NEW told, Set(told, on)
          PROVE  /\ UNCHANGED <<build, files, cps, watch_pc, active, mtime, last_mtime, buffer, i, monitor_pc>>
                 /\ monitor_pc = "command"
                 /\ proc_active' \in [Watchers -> BOOLEAN]
      BY <3>2 DEF Set, WatchTypes
    <3> QED BY <1>3, <3>1, <3>2 DEF WatchTypes
  <2>3. pending' \in [Watchers -> SUBSET {"USR1", "INT"}]
    BY <2>1 DEF Raise, WatchTypes
  <2>4. \A w \in Watchers : watch_pc[w] = "unborn" => pending'[w] = pending[w]
    BY <2>1 DEF Raise, Alive
  <2>5. WatchTypes'
    BY <2>2, <2>3 DEF WatchTypes, files
  <2>6. SpawnInv'
    BY <2>2, <2>4 DEF SpawnInv
  <2>7. CopyInv'
    BY <2>2 DEF CopyInv, Kept, files
  <2> QED BY <2>5, <2>6, <2>7
<1> QED BY <1>1, <1>2, <1>3 DEF MonitorStep

(* watch.c: what all steps of a watcher leave alone                         *)
LEMMA StepFrame ==
  ASSUME WatchInv, NEW w \in Watchers, WatchStep(w)
  PROVE  /\ UNCHANGED <<build, now, file, monitor>>
         /\ watch_pc[w] # "unborn"
         /\ \E to \in Labels \ {"unborn"} : watch_pc' = [watch_pc EXCEPT ![w] = to]
         /\ active' \in [Watchers -> BOOLEAN]
         /\ pending' \in [Watchers -> SUBSET {"USR1", "INT"}]
         /\ \A u \in Watchers : u # w => active'[u] = active[u] /\ pending'[u] = pending[u]
<1> USE DEF WatchInv, WatchTypes, At, Goto, files, Labels
<1>1. CASE Register(w) \/ TestLoop(w) \/ Stat(w) \/ ReadFile(w)
  BY <1>1, SMTT(30) DEF Register, TestLoop, Stat, ReadFile, Fail, Exit, End
<1>2. CASE CreateCopy(w) \/ WriteCopy(w) \/ CountCopy(w) \/ ForkCp(w) \/ Sleep(w) \/ Pause(w)
  BY <1>2 DEF CreateCopy, WriteCopy, CountCopy, ForkCp, Sleep, Pause
<1>3. CASE Handle(w)
  <2>1. watch_pc[w] # "unborn"
    BY <1>3 DEF Handle, SpawnInv
  <2>2. UNCHANGED <<build, now, file, monitor>>
    BY <1>3 DEF Handle
  <2>3. CASE HandleToggle(w)
    <3>1. \E to \in Labels \ {"unborn"} : watch_pc' = [watch_pc EXCEPT ![w] = to]
      <4>1. CASE watch_pc[w] = "paused"
        BY <2>3, <4>1 DEF HandleToggle
      <4>2. CASE watch_pc[w] # "paused"
        <5>1. watch_pc' = [watch_pc EXCEPT ![w] = watch_pc[w]]
          BY <2>3, <4>2 DEF HandleToggle
        <5>2. watch_pc[w] \in Labels \ {"unborn"}
          BY <2>1
        <5> QED BY <5>1, <5>2
      <4> QED BY <4>1, <4>2
    <3> QED BY <2>1, <2>2, <2>3, <3>1 DEF HandleToggle
  <2>4. CASE HandleEnd(w)
    BY <2>1, <2>2, <2>4 DEF HandleEnd, Exit, End
  <2>5. CASE End(w, "killed", Killed) /\ UNCHANGED active
    BY <2>1, <2>2, <2>5 DEF End
  <2> QED BY <1>3, <2>3, <2>4, <2>5 DEF Handle
<1> QED BY <1>1, <1>2, <1>3 DEF WatchStep

LEMMA StepSpawnInv ==
  ASSUME WatchInv, NEW w \in Watchers, WatchStep(w) PROVE SpawnInv'
<1>1. /\ UNCHANGED <<i, monitor_pc>> /\ watch_pc[w] # "unborn"
      /\ \E to \in Labels \ {"unborn"} : watch_pc' = [watch_pc EXCEPT ![w] = to]
      /\ \A u \in Watchers : u # w => active'[u] = active[u] /\ pending'[u] = pending[u]
  BY StepFrame DEF monitor
<1> QED BY <1>1 DEF WatchInv, WatchTypes, SpawnInv

LEMMA StepTypes ==
  ASSUME WatchInv, NEW w \in Watchers, WatchStep(w) PROVE WatchTypes'
<1> USE DEF WatchInv
<1>1. /\ UNCHANGED <<build, now, file, monitor>>
      /\ watch_pc' \in [Watchers -> Labels] /\ active' \in [Watchers -> BOOLEAN]
      /\ pending' \in [Watchers -> SUBSET {"USR1", "INT"}]
  BY StepFrame DEF WatchTypes
<1>2. /\ mtime' \in [Watchers -> Nat] /\ last_mtime' \in [Watchers -> Nat]
      /\ buffer' \in [Watchers -> Nat]
  <2>1. CASE Stat(w)
    BY <2>1 DEF Stat, WatchTypes
  <2>2. CASE ReadFile(w)
    BY <2>2 DEF ReadFile, WatchTypes
  <2>3. CASE ForkCp(w)
    BY <2>3 DEF ForkCp, WatchTypes
  <2>4. CASE UNCHANGED <<mtime, last_mtime, buffer>>
    BY <2>4 DEF WatchTypes
  <2> QED BY <2>1, <2>2, <2>3, <2>4 DEF WatchStep, Register, Handle, TestLoop, CreateCopy, WriteCopy,
                                       CountCopy, Sleep, Pause
<1> QED BY <1>1, <1>2 DEF WatchTypes, monitor

(* What is stored for w leaves what another watcher has kept.               *)
LEMMA OthersKept ==
  ASSUME NEW w, NEW u, u # w, Kept(u), buffer'[u] = buffer[u],
         UNCHANGED archive \/ \E m, v : Store(<<w, m>>, v)
  PROVE  Kept(u)'
<1>1. PICK c \in DOMAIN archive : c[1] = u /\ archive[c] = buffer[u]
  BY DEF Kept
<1>2. \A m : c # <<w, m>>
  BY <1>1
<1>3. c \in DOMAIN archive' /\ archive'[c] = archive[c]
  BY <1>1, <1>2 DEF Store
<1> QED BY <1>1, <1>3 DEF Kept

LEMMA StepCopyInv ==
  ASSUME WatchInv, NEW w \in Watchers, WatchStep(w) PROVE CopyInv'
<1> USE DEF WatchInv
<1>1. /\ UNCHANGED build
      /\ \E to \in Labels \ {"unborn"} : watch_pc' = [watch_pc EXCEPT ![w] = to]
      /\ \A u \in Watchers : u # w => watch_pc'[u] = watch_pc[u]
  BY StepFrame DEF WatchTypes
<1> DEFINE Same(u) == UNCHANGED <<mtime[u], last_mtime[u], buffer[u]>>
           Copying == {"create", "write", "count", "read"}
           Mine(u) == /\ last_mtime[u] = 0 => buffer[u] = 0
                      /\ watch_pc[u] \in Copying => mtime[u] # 0 /\ build # "cp"
                      /\ watch_pc[u] = "fork" => build = "cp"
                      /\ watch_pc[u] = "write" => <<u, mtime[u]>> \in DOMAIN archive
                      /\ watch_pc[u] = "count" => Kept(u)
                      /\ watch_pc[u] = "read" /\ buffer[u] # 0 => Kept(u)
<1>2. /\ UNCHANGED archive \/ \E m, v : Store(<<w, m>>, v)
      /\ \A u \in Watchers : u # w => Same(u)
  <2>1. CASE CreateCopy(w) \/ WriteCopy(w)
    BY <2>1 DEF CreateCopy, WriteCopy
  <2>2. CASE Stat(w) \/ ReadFile(w) \/ ForkCp(w)
    BY <2>2 DEF Stat, ReadFile, ForkCp, WatchTypes, files
  <2>3. CASE Register(w) \/ Handle(w) \/ TestLoop(w) \/ CountCopy(w) \/ Sleep(w) \/ Pause(w)
    BY <2>3 DEF Register, Handle, TestLoop, CountCopy, Sleep, Pause, files
  <2> QED BY <2>1, <2>2, <2>3 DEF WatchStep
<1>3. ASSUME NEW u \in Watchers, u # w PROVE Mine(u)'
  <2>1. Mine(u) /\ Same(u) /\ watch_pc'[u] = watch_pc[u] /\ UNCHANGED build
    BY <1>1, <1>2, <1>3 DEF CopyInv
  <2>2. DOMAIN archive \subseteq DOMAIN archive'
    BY <1>2 DEF Store
  <2>3. Kept(u) => Kept(u)'
    BY <1>2, <1>3, <2>1, OthersKept
  <2> QED BY <2>1, <2>2, <2>3
<1>4. /\ build # "cp" => cps' = {}
      /\ build = "cp" => buffer'[w] = 0
      /\ Mine(w)'
  <2> USE <1>1 DEF CopyInv, At, Goto, WatchTypes, Labels
  <2>1. CASE Register(w) \/ TestLoop(w) \/ Sleep(w) \/ Pause(w)
    BY <2>1 DEF Register, TestLoop, Sleep, Pause, Exit, End, files, Kept
  <2>2. CASE Handle(w)
    BY <2>2 DEF Handle, HandleToggle, HandleEnd, Exit, End, files, Kept
  <2>3. CASE Stat(w)
    <3>1. CASE file[w].date = 0
      BY <2>3, <3>1 DEF Stat, Fail, End, files
    <3>2. CASE file[w].date # 0
      <4>1. /\ mtime' = [mtime EXCEPT ![w] = file[w].date]
            /\ watch_pc' = [watch_pc EXCEPT
                 ![w] = IF file[w].date = last_mtime[w] THEN "sleep"
                        ELSE IF build = "cp" THEN "fork"
                        ELSE IF HasBuffer(w) THEN "create" ELSE "read"]
            /\ UNCHANGED <<build, archive, cps, last_mtime, buffer>>
        BY <2>3, <3>2 DEF Stat, files
      <4>2. mtime'[w] = file[w].date
            /\ watch_pc'[w] = IF file[w].date = last_mtime[w] THEN "sleep"
                              ELSE IF build = "cp" THEN "fork"
                              ELSE IF HasBuffer(w) THEN "create" ELSE "read"
        BY <4>1
      <4>3. watch_pc'[w] = "read" => buffer'[w] = 0
        BY <4>1, <4>2 DEF HasBuffer
      <4>4. watch_pc'[w] # "write" /\ watch_pc'[w] # "count"
        BY <4>2
      <4> QED BY <3>2, <4>1, <4>2, <4>3, <4>4
    <3> QED BY <3>1, <3>2
  <2>4. CASE CreateCopy(w)
    BY <2>4 DEF CreateCopy, Store
  <2>5. CASE WriteCopy(w)
    BY <2>5 DEF WriteCopy, Store, Kept
  <2>6. CASE CountCopy(w)
    BY <2>6 DEF CountCopy, Kept, files
  <2>7. CASE ReadFile(w)
    BY <2>7 DEF ReadFile, Fail, End, files
  <2>8. CASE ForkCp(w)
    BY <2>8 DEF ForkCp
  <2> QED BY <2>1, <2>2, <2>3, <2>4, <2>5, <2>6, <2>7, <2>8 DEF WatchStep
<1>5. build = "cp" => \A u \in Watchers : buffer'[u] = 0
  BY <1>2, <1>4 DEF CopyInv
<1> QED BY <1>1, <1>3, <1>4, <1>5 DEF CopyInv

LEMMA WatchNextInv == WatchInv /\ [WatchNext]_watch_vars => WatchInv'
<1> SUFFICES ASSUME WatchInv, [WatchNext]_watch_vars PROVE WatchInv'
  OBVIOUS
<1>1. CASE Tick \/ (\E w \in Watchers : Modify(w) \/ Remove(w)) \/ (\E c \in cps : CpRuns(c))
  BY <1>1, OutsideInv
<1>2. CASE \/ MonitorStep \/ EndCommand \/ EndOfInput \/ ControlC
           \/ \E w \in Watchers : Wait(w)
           \/ \E on \in BOOLEAN : Set(Watchers, on) \/ \E w \in Watchers : Set({w}, on)
  BY <1>2, MonitorInv
<1>3. ASSUME NEW w \in Watchers, WatchStep(w) PROVE WatchInv'
  BY <1>3, StepTypes, StepSpawnInv, StepCopyInv DEF WatchInv
<1>4. CASE UNCHANGED watch_vars
  BY <1>4 DEF WatchInv, WatchTypes, SpawnInv, CopyInv, Kept, watch_vars, files, watcher, monitor
<1> QED BY <1>1, <1>2, <1>3, <1>4 DEF WatchNext

LEMMA WatchInvariance == WatchSpec => []WatchInv
BY WatchInitInv, WatchNextInv, PTL DEF WatchSpec

-----------------------------------------------------------------------------
(* Whatever a watcher has read is in a copy, with all of its contents,      *)
(* before it is read over: however often the file changes, whoever makes    *)
(* copies of other files, and whatever signals come.                        *)
THEOREM ReadIsKeptCorrect == WatchSpec => ReadIsKept
<1> DEFINE P == \A w \in Watchers : buffer[w] # 0 /\ buffer'[w] # buffer[w] =>
                  \E c \in DOMAIN archive : c[1] = w /\ archive[c] = buffer[w]
<1>1. WatchInv /\ [WatchNext]_watch_vars => [P]_watch_vars
  <2> SUFFICES ASSUME WatchInv, WatchNext, NEW w \in Watchers, buffer[w] # 0, buffer'[w] # buffer[w]
               PROVE  Kept(w)
    BY DEF Kept
  <2>1. ReadFile(w)
    <3>1. PICK u \in Watchers : WatchStep(u)
      BY DEF WatchNext, Tick, MonitorStep, Spawn, SpawnedAll, KillWatcher, WaitPid, WaitedForAll,
             EndCommand, EndOfInput, ControlC, Modify, Remove, Wait, CpRuns, Set, watcher
    <3>2. ReadFile(u)
      BY <3>1 DEF WatchStep, Register, Handle, TestLoop, Stat, CreateCopy, WriteCopy, CountCopy, ForkCp,
                  Sleep, Pause
    <3>3. u = w
      BY <3>2 DEF ReadFile, WatchInv, WatchTypes
    <3> QED BY <3>2, <3>3
  <2> QED BY <2>1 DEF ReadFile, At, WatchInv, CopyInv
<1> QED BY <1>1, WatchInvariance, PTL DEF WatchSpec, ReadIsKept

(* SIGUSR1 that is merged with one not handled yet is the only way for      *)
(* proclist to be wrong about a watcher.                                    *)
THEOREM InStepCorrect == WatchSpec => OutOfStepOnlyByMerging
<1> DEFINE P == \A w \in Watchers : InStep(w) /\ ~InStep(w)' => "USR1" \in pending[w]
<1>1. WatchInv /\ [WatchNext]_watch_vars => [P]_watch_vars
  <2> SUFFICES ASSUME WatchInv, WatchNext, NEW w \in Watchers, InStep(w), "USR1" \notin pending[w]
               PROVE  InStep(w)'
    OBVIOUS
  <2> USE DEF WatchInv, WatchTypes
  <2>1. CASE UNCHANGED <<watch_pc, active, proc_active>> /\ ("USR1" \in pending'[w] <=> "USR1" \in pending[w])
    BY <2>1 DEF InStep, Alive
  <2>2. CASE Spawn
    <3>1. i \in Watchers
      BY <2>2 DEF Spawn, Watchers
    <3>2. /\ w # i => watch_pc'[w] = watch_pc[w] /\ proc_active'[w] = proc_active[w]
          /\ proc_active'[i] = TRUE /\ UNCHANGED <<active, pending>>
      BY <2>2, <3>1 DEF Spawn, Goto
    <3>3. active[i] /\ pending[i] = {}
      BY <2>2, <3>1 DEF Spawn, SpawnInv
    <3> QED BY <3>2, <3>3 DEF InStep, Alive
  <2>3. CASE \E on \in BOOLEAN, targets \in SUBSET Watchers : Set(targets, on)
    <3>1. PICK on \in BOOLEAN, targets \in SUBSET Watchers : Set(targets, on)
      BY <2>3
    <3> DEFINE told == {u \in targets : ToldOtherwise(u, on)}
    <3>2. /\ UNCHANGED <<watch_pc, active>>
          /\ proc_active' = [u \in Watchers |-> IF u \in told THEN on ELSE proc_active[u]]
          /\ Raise(told, "USR1")
      BY <3>1 DEF Set
    <3>3. CASE w \in told
      <4>1. proc_active'[w] = on /\ proc_active[w] # on
        BY <3>2, <3>3 DEF ToldOtherwise
      <4>2. Alive(w) => pending'[w] = pending[w] \cup {"USR1"}
        BY <3>2, <3>3 DEF Raise
      <4> QED BY <3>2, <4>1, <4>2 DEF InStep, Alive
    <3>4. CASE w \notin told
      <4>1. proc_active'[w] = proc_active[w] /\ pending'[w] = pending[w]
        BY <3>2, <3>4 DEF Raise
      <4> QED BY <3>2, <4>1 DEF InStep, Alive
    <3> QED BY <3>3, <3>4
  <2>4. CASE \E u \in Watchers : WatchStep(u)
    <3>1. PICK u \in Watchers : WatchStep(u)
      BY <2>4
    <3>2. UNCHANGED proc_active
      BY <3>1, StepFrame DEF monitor
    <3>3. CASE u # w
      <4>1. watch_pc'[w] = watch_pc[w] /\ active'[w] = active[w] /\ pending'[w] = pending[w]
        BY <3>1, <3>3, StepFrame
      <4> QED BY <3>2, <4>1 DEF InStep, Alive
    <3>4. CASE u = w
      <4>1. \/ watch_pc'[w] \in {"exited", "failed", "killed"}
            \/ active'[w] = active[w] /\ pending'[w] = pending[w]
        <5>1. CASE Handle(w)
          BY <5>1 DEF Handle, HandleToggle, HandleEnd, Exit, End, Goto
        <5>2. CASE ~Handle(w)
          BY <3>1, <3>4, <5>2 DEF WatchStep, Register, TestLoop, Stat, CreateCopy, WriteCopy, CountCopy,
             ReadFile, ForkCp, Sleep, Pause, Fail, Exit, End, Goto
        <5> QED BY <5>1, <5>2
      <4>2. watch_pc[w] \in {"exited", "failed", "killed"} => watch_pc'[w] \in {"exited", "failed", "killed"}
        BY <3>1, <3>4 DEF WatchStep, Register, Handle, HandleToggle, HandleEnd, TestLoop, Stat, CreateCopy,
           WriteCopy, CountCopy, ReadFile, ForkCp, Sleep, Pause, Fail, Exit, End, Goto, At
      <4>3. watch_pc[w] # "unborn"
        BY <3>1, <3>4, StepFrame
      <4> QED BY <3>2, <4>1, <4>2, <4>3 DEF InStep, Alive
    <3> QED BY <3>3, <3>4
  <2>5. \/ UNCHANGED <<watch_pc, active, proc_active>> /\ ("USR1" \in pending'[w] <=> "USR1" \in pending[w])
        \/ Spawn
        \/ \E on \in BOOLEAN, targets \in SUBSET Watchers : Set(targets, on)
        \/ \E u \in Watchers : WatchStep(u)
    <3>1. CASE ControlC \/ KillWatcher
      BY <3>1 DEF ControlC, KillWatcher, Raise
    <3>2. CASE \/ Tick \/ SpawnedAll \/ WaitPid \/ WaitedForAll \/ EndCommand \/ EndOfInput
               \/ \E u \in Watchers : Modify(u) \/ Remove(u) \/ Wait(u)
               \/ \E c \in cps : CpRuns(c)
      BY <3>2 DEF Tick, SpawnedAll, WaitPid, WaitedForAll, EndCommand, EndOfInput, Modify, Remove, Wait,
                  CpRuns, watcher, monitor
    <3>3. Watchers \in SUBSET Watchers /\ \A u \in Watchers : {u} \in SUBSET Watchers
      OBVIOUS
    <3> QED BY <3>1, <3>2, <3>3 DEF WatchNext, MonitorStep
  <2> QED BY <2>1, <2>2, <2>3, <2>4, <2>5
<1> QED BY <1>1, WatchInvariance, PTL DEF WatchSpec, OutOfStepOnlyByMerging

-----------------------------------------------------------------------------
(*****************************************************************************)
(* Watch: how many copies are reported.  The number of the copies in the     *)
(* archive is what a watcher has counted and, between write and count, one   *)
(* more (Lag); for that no copy may replace another, so dates must grow      *)
(* (Dated).  Only a cp that finds its file removed makes no copy (Gone).     *)
(*****************************************************************************)

Ended == {"exited", "failed", "killed"}

Lag(w) == IF watch_pc[w] \in {"write", "count"} THEN 1 ELSE 0

Gone(w) == build = "cp" /\ file[w].date = 0

(* The dates of a file only grow, so that no copy replaces another.         *)
Dated(w) ==
  /\ file[w].date <= now /\ last_mtime[w] <= mtime[w]
  /\ file[w].date # 0 => mtime[w] <= file[w].date
  /\ watch_pc[w] \in {"create", "fork"} => last_mtime[w] < mtime[w]
  /\ watch_pc[w] \notin Ended =>
       \A c \in CopiesOf(w) :
         c[2] <= IF watch_pc[w] \in {"write", "count", "read"} THEN mtime[w] ELSE last_mtime[w]

Counted(w) ==
  /\ watch_pc[w] \notin Ended => Gone(w) \/ copies[w] + Lag(w) = Cardinality(CopiesOf(w))
  /\ watch_pc[w] = "exited" =>
       /\ status[w] = copies[w] % StatusWidth
       /\ \/ Gone(w) \/ copies[w] = Cardinality(CopiesOf(w))
          \/ build = "signals" /\ copies[w] + 1 = Cardinality(CopiesOf(w))

Told(w) ==
  /\ pending[w] # {} => build = "signals" /\ Alive(w)
  /\ status[w] # Running => watch_pc[w] \in Ended
  /\ reported[w] >= 0 => reported[w] = status[w]

CountTypes ==
  /\ IsFiniteSet(DOMAIN archive) /\ IsFiniteSet(cps)
  /\ \A c \in DOMAIN archive \cup cps : c \in Watchers \X Nat
  /\ copies \in [Watchers -> Nat] /\ status \in [Watchers -> Int] /\ reported \in [Watchers -> Int]
  /\ monitor_pc \in {"command", "end", "waitpid"} => build = "signals"
  /\ monitor_pc = "waitpid" => i \in Watchers

CountInv == CountTypes /\ \A w \in Watchers : Dated(w) /\ Counted(w) /\ Told(w)

-----------------------------------------------------------------------------
LEMMA CountInitInv == WatchInit => CountInv
<1> SUFFICES ASSUME WatchInit PROVE CountInv
  OBVIOUS
<1>1. DOMAIN archive = {} /\ cps = {}
  BY DEF WatchInit
<1>2. CountTypes
  BY <1>1, FS_EmptySet DEF WatchInit, CountTypes, Running
<1>3. ASSUME NEW w \in Watchers PROVE Dated(w) /\ Counted(w) /\ Told(w)
  <2>1. CopiesOf(w) = {}
    BY <1>1 DEF CopiesOf
  <2> QED BY <2>1, FS_EmptySet DEF WatchInit, Dated, Counted, Told, Lag, Ended, Running
<1> QED BY <1>2, <1>3 DEF CountInv

LEMMA FiniteCopies ==
  ASSUME CountTypes, NEW w
  PROVE  IsFiniteSet(CopiesOf(w)) /\ Cardinality(CopiesOf(w)) \in Nat
<1>1. IsFiniteSet(DOMAIN archive \cup cps)
  BY FS_Union DEF CountTypes
<1>2. CopiesOf(w) \subseteq DOMAIN archive \cup cps
  BY DEF CopiesOf
<1>3. IsFiniteSet(CopiesOf(w))
  BY <1>1, <1>2, FS_Subset
<1> QED BY <1>3, FS_CardinalityType

(* The copies of one watcher are nothing to another.                        *)
LEMMA CopiesOfOthers ==
  ASSUME NEW w, NEW u, u # w,
         \/ UNCHANGED <<archive, cps>>
         \/ UNCHANGED cps /\ \E m, v : Store(<<u, m>>, v)
         \/ UNCHANGED archive /\ \E m : cps' = cps \cup {<<u, m>>}
  PROVE  CopiesOf(w)' = CopiesOf(w)
<1>1. CASE UNCHANGED <<archive, cps>>
  BY <1>1 DEF CopiesOf
<1>2. ASSUME NEW m, NEW v, Store(<<u, m>>, v), UNCHANGED cps PROVE CopiesOf(w)' = CopiesOf(w)
  <2>1. DOMAIN archive' = DOMAIN archive \cup {<<u, m>>}
    BY <1>2 DEF Store
  <2> QED BY <1>2, <2>1 DEF CopiesOf
<1>3. ASSUME NEW m, cps' = cps \cup {<<u, m>>}, UNCHANGED archive PROVE CopiesOf(w)' = CopiesOf(w)
  BY <1>3 DEF CopiesOf
<1> QED BY <1>1, <1>2, <1>3

(* Time, files and cp                                                       *)
LEMMA OutsideCounts ==
  ASSUME WatchInv, CountInv,
         Tick \/ (\E w \in Watchers : Modify(w) \/ Remove(w)) \/ (\E c \in cps : CpRuns(c))
  PROVE  CountInv'
<1> USE DEF WatchInv, CountInv
<1>1. UNCHANGED <<watcher, monitor, build>>
  BY DEF Tick, Modify, Remove, CpRuns
<1>2. CASE Tick
  <2>1. now' = now + 1 /\ UNCHANGED <<file, archive, cps>> /\ now \in Nat
    BY <1>2 DEF Tick, WatchTypes
  <2>2. CountTypes'
    BY <1>1, <2>1 DEF CountTypes, watcher, monitor
  <2>3. ASSUME NEW w \in Watchers PROVE (Dated(w) /\ Counted(w) /\ Told(w))'
    <3>1. file[w].date \in Nat /\ now \in Nat
      BY DEF WatchTypes
    <3>2. CopiesOf(w)' = CopiesOf(w) /\ Gone(w)' = Gone(w) /\ file'[w].date <= now'
      BY <1>1, <2>1, <3>1 DEF CopiesOf, Gone, Dated
    <3> QED BY <1>1, <2>1, <3>2 DEF Dated, Counted, Told, Lag, Alive, watcher, monitor
  <2> QED BY <2>2, <2>3
<1>3. ASSUME NEW u \in Watchers, Modify(u) \/ Remove(u) PROVE CountInv'
  <2>1. UNCHANGED <<now, archive, cps>>
    BY <1>3 DEF Modify, Remove
  <2>2. CountTypes'
    BY <1>1, <2>1 DEF CountTypes, watcher, monitor
  <2>3. ASSUME NEW w \in Watchers
        PROVE  /\ file'[w].date <= now /\ (file'[w].date # 0 => file[w].date # 0 /\ file[w].date <= file'[w].date)
    <3>1. file[w].date \in Nat /\ now \in Nat /\ file[w].date <= now
      BY DEF WatchTypes, Dated
    <3>2. file'[w] = file[w] \/ file'[w].date = 0 \/ (file[w].date # 0 /\ file'[w].date = now)
      BY <1>3 DEF Modify, Remove, WatchTypes
    <3> QED BY <3>1, <3>2
  <2>4. ASSUME NEW w \in Watchers PROVE (Dated(w) /\ Counted(w) /\ Told(w))'
    <3>1. file[w].date \in Nat /\ now \in Nat /\ mtime[w] \in Nat /\ file'[w].date \in Nat
      BY <1>3 DEF WatchTypes, Modify, Remove
    <3>2. CopiesOf(w)' = CopiesOf(w)
      BY <2>1 DEF CopiesOf
    <3>3. Gone(w) => Gone(w)'
      BY <1>1, <2>3, <3>1 DEF Gone
    <3> QED BY <1>1, <2>1, <2>3, <3>1, <3>2, <3>3 DEF Dated, Counted, Told, Lag, Alive, watcher, monitor
  <2> QED BY <2>2, <2>4
<1>4. ASSUME NEW c \in cps, CpRuns(c) PROVE CountInv'
  <2>1. /\ cps' = cps \ {c} /\ UNCHANGED <<now, file>> /\ build = "cp"
        /\ c \in Watchers \X Nat
    BY <1>4 DEF CpRuns, CopyInv, CountTypes
  <2>2. \/ file[c[1]].date = 0 /\ archive' = archive
        \/ DOMAIN archive' = DOMAIN archive \cup {c}
    BY <1>4 DEF CpRuns, Store
  <2>3. IsFiniteSet(cps') /\ IsFiniteSet(DOMAIN archive')
    BY <2>1, <2>2, FS_RemoveElement, FS_AddElement DEF CountTypes
  <2>4. CountTypes'
    BY <1>1, <2>1, <2>2, <2>3 DEF CountTypes, watcher, monitor
  <2>5. ASSUME NEW w \in Watchers
        PROVE  CopiesOf(w)' \subseteq CopiesOf(w) /\ (CopiesOf(w)' = CopiesOf(w) \/ Gone(w))
    BY <2>1, <2>2 DEF CopiesOf, Gone
  <2>6. ASSUME NEW w \in Watchers PROVE (Dated(w) /\ Counted(w) /\ Told(w))'
    BY <1>1, <2>1, <2>5 DEF Dated, Counted, Told, Lag, Gone, Alive, watcher, monitor
  <2> QED BY <2>4, <2>6
<1> QED BY <1>2, <1>3, <1>4

(* monitor.c                                                                *)
LEMMA MonitorCounts ==
  ASSUME WatchInv, CountInv,
         \/ MonitorStep \/ EndCommand \/ EndOfInput \/ ControlC
         \/ \E w \in Watchers : Wait(w)
         \/ \E on \in BOOLEAN : Set(Watchers, on) \/ \E w \in Watchers : Set({w}, on)
  PROVE  CountInv'
<1> USE DEF WatchInv, CountInv
<1>0. UNCHANGED <<build, now, file, archive, cps, mtime, last_mtime, copies, status>>
  BY DEF MonitorStep, Spawn, SpawnedAll, KillWatcher, WaitPid, WaitedForAll, EndCommand, EndOfInput, ControlC,
         Wait, Set, files, watcher
<1>1. \A w \in Watchers : CopiesOf(w)' = CopiesOf(w) /\ Gone(w)' = Gone(w)
  BY <1>0 DEF CopiesOf, Gone
<1>2. ASSUME \/ UNCHANGED watch_pc
             \/ \E u \in Watchers : /\ watch_pc[u] = "unborn"
                                    /\ \E to \in {"register", "test"} : watch_pc' = [watch_pc EXCEPT ![u] = to],
             NEW w \in Watchers
      PROVE  /\ watch_pc'[w] = watch_pc[w] \/ (watch_pc[w] = "unborn" /\ watch_pc'[w] \in {"register", "test"})
             /\ (Dated(w) /\ Counted(w))'
  <2>1. watch_pc'[w] = watch_pc[w] \/ (watch_pc[w] = "unborn" /\ watch_pc'[w] \in {"register", "test"})
    BY <1>2 DEF WatchTypes
  <2> QED BY <1>0, <1>1, <2>1 DEF Dated, Counted, Lag, Ended
<1>3. CASE Spawn
  <2>1. i \in Watchers
    BY <1>3 DEF Spawn, Watchers, WatchTypes
  <2>2. watch_pc[i] = "unborn" /\ \E to \in {"register", "test"} : watch_pc' = [watch_pc EXCEPT ![i] = to]
    <3>1. i >= i
      BY <2>1 DEF Watchers
    <3>2. watch_pc[i] = "unborn"
      BY <1>3, <2>1, <3>1 DEF Spawn, SpawnInv
    <3> QED BY <1>3, <3>2 DEF Spawn, Goto
  <2>3. UNCHANGED <<pending, reported>> /\ monitor_pc' = "spawn"
    BY <1>3 DEF Spawn
  <2>4. CountTypes'
    BY <1>0, <2>3 DEF CountTypes
  <2>5. ASSUME NEW w \in Watchers PROVE (Dated(w) /\ Counted(w) /\ Told(w))'
    BY <1>0, <1>2, <2>1, <2>2, <2>3 DEF Told, Alive, Ended
  <2> QED BY <2>4, <2>5
<1>4. CASE SpawnedAll \/ WaitedForAll \/ EndCommand \/ EndOfInput
  <2>1. /\ UNCHANGED <<watch_pc, pending, reported>>
        /\ monitor_pc' \in {"command", "end", "waitpid"} => build = "signals"
        /\ monitor_pc' # "waitpid"
    BY <1>4 DEF SpawnedAll, WaitedForAll, EndCommand, EndOfInput, CountTypes, watcher
  <2>2. CountTypes'
    BY <1>0, <2>1 DEF CountTypes
  <2>3. ASSUME NEW w \in Watchers PROVE (Dated(w) /\ Counted(w) /\ Told(w))'
    BY <1>0, <1>2, <2>1 DEF Told, Alive, Ended
  <2> QED BY <2>2, <2>3
<1>5. CASE WaitPid \/ \E w \in Watchers : Wait(w)
  <2>1. PICK u \in Watchers : status[u] # Running /\ Report(u)
    BY <1>5 DEF WaitPid, Wait, CountTypes
  <2>2. /\ UNCHANGED <<watch_pc, pending>> /\ monitor_pc' # "waitpid"
        /\ monitor_pc' \in {"command", "end", "waitpid"} => build = "signals"
    BY <1>5 DEF WaitPid, Wait, CountTypes, watcher
  <2>3. reported' \in [Watchers -> Int]
    BY <2>1 DEF Report, CountTypes
  <2>4. CountTypes'
    BY <1>0, <2>2, <2>3 DEF CountTypes
  <2>5. \A w \in Watchers : reported'[w] = reported[w] \/ reported'[w] = -1 \/ reported'[w] = status[w]
    BY <2>1 DEF Report, CountTypes
  <2>6. ASSUME NEW w \in Watchers PROVE (Dated(w) /\ Counted(w) /\ Told(w))'
    BY <1>0, <1>2, <2>2, <2>5 DEF Told, Alive, Ended
  <2> QED BY <2>4, <2>6
<1>6. CASE ControlC \/ KillWatcher \/ \E on \in BOOLEAN : Set(Watchers, on) \/ \E w \in Watchers : Set({w}, on)
  <2>1. /\ UNCHANGED <<watch_pc, reported>> /\ build = "signals"
        /\ \E targets, signal : Raise(targets, signal)
        /\ monitor_pc' = "waitpid" => i' \in Watchers
    <3>1. CASE ControlC
      BY <3>1 DEF ControlC
    <3>2. CASE KillWatcher
      BY <3>2 DEF KillWatcher, CountTypes, Watchers, WatchTypes
    <3>3. ASSUME NEW targets, NEW on \in BOOLEAN, Set(targets, on)
          PROVE  /\ UNCHANGED <<watch_pc, reported, monitor_pc>> /\ monitor_pc = "command"
                 /\ build = "signals" /\ \E told, signal : Raise(told, signal)
      BY <3>3 DEF Set, CountTypes
    <3> QED BY <1>6, <3>1, <3>2, <3>3
  <2>2. CountTypes'
    BY <1>0, <2>1 DEF CountTypes
  <2>3. \A w \in Watchers : pending'[w] = pending[w] \/ Alive(w)
    BY <2>1 DEF Raise
  <2>4. ASSUME NEW w \in Watchers PROVE (Dated(w) /\ Counted(w) /\ Told(w))'
    BY <1>0, <1>2, <2>1, <2>3 DEF Told, Alive, Ended
  <2> QED BY <2>2, <2>4
<1> QED BY <1>3, <1>4, <1>5, <1>6 DEF MonitorStep

(* watch.c: what a step of one watcher does to what is counted              *)
LEMMA StepFiles ==
  ASSUME WatchInv, CountInv, NEW u \in Watchers, WatchStep(u)
  PROVE  /\ CountTypes'
         /\ \/ UNCHANGED <<archive, cps>>
            \/ UNCHANGED cps /\ \E m, v : Store(<<u, m>>, v)
            \/ UNCHANGED archive /\ \E m : cps' = cps \cup {<<u, m>>}
         /\ \A w \in Watchers : w # u =>
              UNCHANGED <<mtime[w], last_mtime[w], copies[w], status[w]>>
<1> USE DEF WatchInv, CountInv
<1>1. UNCHANGED <<build, now, file, monitor>>
  BY StepFrame
<1>2. /\ copies' = copies \/ copies' = [copies EXCEPT ![u] = copies[u] + 1]
      /\ \E code \in Int : status' = status \/ status' = [status EXCEPT ![u] = code]
      /\ \E m : mtime' = mtime \/ mtime' = [mtime EXCEPT ![u] = m]
      /\ \E m : last_mtime' = last_mtime \/ last_mtime' = [last_mtime EXCEPT ![u] = m]
  <2>0. copies[u] % StatusWidth \in Int /\ EXIT_FAILURE \in Int /\ Killed \in Int
    BY WatchAssumption, DivMod DEF WatchAssumption, CountTypes, EXIT_FAILURE, Killed
  <2>1. CASE Register(u) \/ TestLoop(u) \/ Stat(u) \/ ReadFile(u)
    BY <2>0, <2>1 DEF Register, TestLoop, Stat, ReadFile, Fail, Exit, End
  <2>2. CASE CreateCopy(u) \/ WriteCopy(u) \/ CountCopy(u) \/ ForkCp(u) \/ Sleep(u) \/ Pause(u)
    BY <2>2 DEF CreateCopy, WriteCopy, CountCopy, ForkCp, Sleep, Pause
  <2>3. CASE Handle(u)
    BY <2>0, <2>3 DEF Handle, HandleToggle, HandleEnd, Exit, End
  <2> QED BY <2>1, <2>2, <2>3 DEF WatchStep
<1>3. \/ UNCHANGED <<archive, cps>>
      \/ UNCHANGED cps /\ \E m \in Nat : \E v : Store(<<u, m>>, v)
      \/ UNCHANGED archive /\ \E m \in Nat : cps' = cps \cup {<<u, m>>}
  <2>1. mtime[u] \in Nat
    BY DEF WatchTypes
  <2>2. CASE CreateCopy(u) \/ WriteCopy(u) \/ ForkCp(u)
    BY <2>1, <2>2 DEF CreateCopy, WriteCopy, ForkCp, files
  <2>3. CASE ~(CreateCopy(u) \/ WriteCopy(u) \/ ForkCp(u))
    BY <2>3 DEF WatchStep, Register, Handle, TestLoop, Stat, CountCopy, ReadFile, Sleep, Pause, files
  <2> QED BY <2>2, <2>3
<1>4. CountTypes'
  <2>1. copies' \in [Watchers -> Nat] /\ status' \in [Watchers -> Int]
    BY <1>2 DEF CountTypes
  <2>2. /\ IsFiniteSet(DOMAIN archive') /\ IsFiniteSet(cps')
        /\ \A c \in DOMAIN archive' \cup cps' : c \in Watchers \X Nat
    <3>1. CASE UNCHANGED <<archive, cps>>
      BY <3>1 DEF CountTypes
    <3>2. ASSUME NEW m \in Nat, NEW v, Store(<<u, m>>, v), UNCHANGED cps
          PROVE  /\ IsFiniteSet(DOMAIN archive') /\ IsFiniteSet(cps')
                 /\ \A c \in DOMAIN archive' \cup cps' : c \in Watchers \X Nat
      <4>1. DOMAIN archive' = DOMAIN archive \cup {<<u, m>>}
        BY <3>2 DEF Store
      <4>2. IsFiniteSet(DOMAIN archive')
        <5>1. IsFiniteSet(DOMAIN archive)
          BY DEF CountTypes
        <5>2. IsFiniteSet(DOMAIN archive \cup {<<u, m>>})
          BY <5>1, FS_AddElement
        <5> QED BY <4>1, <5>2
      <4> QED BY <3>2, <4>1, <4>2 DEF CountTypes
    <3>3. ASSUME NEW m \in Nat, cps' = cps \cup {<<u, m>>}, UNCHANGED archive
          PROVE  /\ IsFiniteSet(DOMAIN archive') /\ IsFiniteSet(cps')
                 /\ \A c \in DOMAIN archive' \cup cps' : c \in Watchers \X Nat
      <4>1. IsFiniteSet(cps')
        BY <3>3, FS_AddElement DEF CountTypes
      <4> QED BY <3>3, <4>1 DEF CountTypes
    <3> QED BY <1>3, <3>1, <3>2, <3>3
  <2> QED BY <1>1, <2>1, <2>2 DEF CountTypes, monitor
<1>5. \A w \in Watchers : w # u => UNCHANGED <<mtime[w], last_mtime[w], copies[w], status[w]>>
  BY <1>2 DEF WatchTypes, CountTypes
<1> QED BY <1>3, <1>4, <1>5

(* The copy that is made is a new one.                                      *)
LEMMA NewCopy ==
  ASSUME CountTypes, CountTypes', NEW u \in Watchers, Dated(u), NEW m \in Nat,
         \A c \in CopiesOf(u) : c[2] < m,
         \/ UNCHANGED cps /\ \E v : Store(<<u, m>>, v)
         \/ UNCHANGED archive /\ cps' = cps \cup {<<u, m>>}
  PROVE  /\ CopiesOf(u)' = CopiesOf(u) \cup {<<u, m>>}
         /\ Cardinality(CopiesOf(u))' = Cardinality(CopiesOf(u)) + 1
<1>1. CopiesOf(u)' = CopiesOf(u) \cup {<<u, m>>}
  <2>1. ASSUME NEW v, Store(<<u, m>>, v) PROVE DOMAIN archive' = DOMAIN archive \cup {<<u, m>>}
    BY <2>1 DEF Store
  <2> QED BY <2>1 DEF CopiesOf
<1>2. <<u, m>> \notin CopiesOf(u)
  <2>1. ~(m < m)
    OBVIOUS
  <2> QED BY <2>1
<1> QED BY <1>1, <1>2, FiniteCopies, FS_AddElement

(* How a step of a watcher ends it, if it does.                             *)
LEMMA StepEnds ==
  ASSUME WatchInv, CountInv, NEW u \in Watchers, WatchStep(u)
  PROVE  /\ watch_pc[u] \notin Ended /\ status[u] = Running
         /\ pending'[u] \subseteq pending[u]
         /\ \/ watch_pc'[u] \notin Ended /\ status'[u] = status[u]
            \/ watch_pc'[u] \in {"failed", "killed"} /\ pending'[u] = {}
            \/ /\ watch_pc'[u] = "exited" /\ pending'[u] = {}
               /\ status'[u] = copies[u] % StatusWidth /\ copies'[u] = copies[u]
               /\ watch_pc[u] = "test" \/ build = "signals"
               /\ UNCHANGED <<archive, cps>>
<1> USE DEF WatchInv, CountInv
<1>1. watch_pc[u] \notin Ended /\ status[u] = Running
  <2>1. Told(u)
    OBVIOUS
  <2>2. watch_pc[u] \notin Ended
    <3>1. CASE pending[u] # {}
      BY <2>1, <3>1 DEF Told, Alive, Ended
    <3>2. CASE pending[u] = {}
      BY <3>2 DEF WatchStep, Register, Handle, TestLoop, Stat, CreateCopy, WriteCopy, CountCopy, ReadFile,
                  ForkCp, Sleep, Pause, At, Ended
    <3> QED BY <3>1, <3>2
  <2> QED BY <2>1, <2>2 DEF Told
<1>2. CASE Register(u) \/ CreateCopy(u) \/ WriteCopy(u) \/ CountCopy(u) \/ ForkCp(u) \/ Sleep(u) \/ Pause(u)
  <2>1. UNCHANGED <<pending, status>> /\ watch_pc'[u] \notin Ended
    BY <1>2 DEF Register, CreateCopy, WriteCopy, CountCopy, ForkCp, Sleep, Pause, Goto, Ended, WatchTypes
  <2> QED BY <1>1, <2>1
<1>3. CASE TestLoop(u)
  <2>1. pending[u] = {} /\ watch_pc[u] = "test" /\ UNCHANGED <<copies, archive, cps>>
    BY <1>3 DEF TestLoop, At, files
  <2>2. CASE UNCHANGED <<status, pending>> /\ \E to \in {"stat", "pause"} : Goto(u, to)
    BY <1>1, <2>2 DEF Goto, Ended, WatchTypes
  <2>3. CASE Exit(u)
    BY <1>1, <2>1, <2>3 DEF Exit, End, Goto, WatchTypes, CountTypes
  <2> QED BY <1>3, <2>2, <2>3 DEF TestLoop
<1>4. CASE Stat(u) \/ ReadFile(u)
  <2>1. CASE UNCHANGED <<status, pending>> /\ \E to \in {"sleep", "fork", "create", "read"} : Goto(u, to)
    BY <1>1, <2>1 DEF Goto, Ended, WatchTypes
  <2>2. CASE Fail(u)
    BY <1>1, <2>2 DEF Fail, End, Goto, WatchTypes, CountTypes
  <2> QED BY <1>4, <2>1, <2>2 DEF Stat, ReadFile
<1>5. CASE Handle(u)
  <2>1. UNCHANGED <<copies, archive, cps>> /\ build = "signals"
    BY <1>5 DEF Handle, Told, files
  <2>2. CASE End(u, "killed", Killed)
    BY <1>1, <2>2 DEF End, Goto, WatchTypes, CountTypes
  <2>3. CASE HandleToggle(u)
    BY <1>1, <2>3 DEF HandleToggle, Ended, WatchTypes
  <2>4. CASE HandleEnd(u)
    BY <1>1, <2>1, <2>4 DEF HandleEnd, Exit, End, Goto, WatchTypes, CountTypes
  <2> QED BY <1>5, <2>2, <2>3, <2>4 DEF Handle
<1> QED BY <1>2, <1>3, <1>4, <1>5 DEF WatchStep

LEMMA StepTells ==
  ASSUME WatchInv, CountInv, NEW u \in Watchers, WatchStep(u)
  PROVE  Told(u)'
<1>1. Told(u) /\ UNCHANGED <<build, reported>>
  BY StepFrame DEF CountInv, monitor
<1>2. reported[u] \in Int /\ (reported[u] >= 0 => reported[u] = -1)
  BY <1>1, StepEnds DEF Told, Running, CountInv, CountTypes
<1>3. watch_pc'[u] # "unborn"
  BY StepFrame DEF WatchInv, WatchTypes
<1>4. ~(reported[u] >= 0)
  BY <1>2
<1> QED BY <1>1, <1>3, <1>4, StepEnds DEF Told, Alive, Ended

LEMMA StepCounts ==
  ASSUME WatchInv, CountInv, NEW u \in Watchers, WatchStep(u)
  PROVE  CountInv'
<1> USE DEF WatchInv, CountInv
<1>1. /\ UNCHANGED <<build, now, file, monitor>> /\ CountTypes'
      /\ \E to \in Labels \ {"unborn"} : watch_pc' = [watch_pc EXCEPT ![u] = to]
  BY StepFrame, StepFiles
<1>2. ASSUME NEW w \in Watchers, w # u PROVE (Dated(w) /\ Counted(w) /\ Told(w))'
  <2>1. /\ watch_pc'[w] = watch_pc[w] /\ pending'[w] = pending[w]
        /\ UNCHANGED <<mtime[w], last_mtime[w], copies[w], status[w], reported>>
    BY <1>1, <1>2, StepFrame, StepFiles DEF WatchTypes, monitor
  <2>2. CopiesOf(w)' = CopiesOf(w)
    BY <1>2, StepFiles, CopiesOfOthers
  <2> QED BY <1>1, <2>1, <2>2 DEF Dated, Counted, Told, Lag, Gone, Alive
<1>3. /\ file[u].date \in Nat /\ now \in Nat /\ mtime[u] \in Nat /\ last_mtime[u] \in Nat /\ copies[u] \in Nat
      /\ Dated(u) /\ Counted(u)
      /\ Cardinality(CopiesOf(u)) \in Nat /\ \A c \in CopiesOf(u) : c[2] \in Nat
      /\ Gone(u)' = Gone(u)
  BY <1>1, FiniteCopies DEF WatchTypes, CountTypes, CopiesOf, Gone
<1>4. watch_pc[u] \notin Ended
  BY StepEnds
<1>5. /\ file[u].date <= now /\ last_mtime[u] <= mtime[u]
      /\ file[u].date # 0 => mtime[u] <= file[u].date
      /\ watch_pc[u] \in {"create", "fork"} => last_mtime[u] < mtime[u]
      /\ \A c \in CopiesOf(u) :
           c[2] <= IF watch_pc[u] \in {"write", "count", "read"} THEN mtime[u] ELSE last_mtime[u]
  BY <1>3, <1>4 DEF Dated
<1>6. Gone(u) \/ copies[u] + Lag(u) = Cardinality(CopiesOf(u))
  BY <1>3, <1>4 DEF Counted
<1>7. Told(u)'
  BY StepTells
<1>8. SUFFICES Dated(u)' /\ Counted(u)'
  BY <1>1, <1>2, <1>7
<1>9. ASSUME Gone(u)' \/ (copies[u] + Lag(u) = Cardinality(CopiesOf(u)) => (copies[u] + Lag(u) = Cardinality(CopiesOf(u)))'),
             watch_pc'[u] # "exited" \/ (UNCHANGED <<archive, cps>> /\ watch_pc[u] \notin {"write", "count"})
      PROVE  Counted(u)'
  <2>1. CASE watch_pc'[u] # "exited"
    BY <1>3, <1>6, <1>9, <2>1 DEF Counted
  <2>2. CASE watch_pc'[u] = "exited"
    <3>1. Lag(u) = 0
      BY <1>9, <2>2 DEF Lag
    <3>2. status'[u] = copies[u] % StatusWidth /\ copies'[u] = copies[u]
      BY <2>2, StepEnds DEF Ended
    <3>3. CopiesOf(u)' = CopiesOf(u)
      BY <1>9, <2>2 DEF CopiesOf
    <3> QED BY <1>3, <1>6, <2>2, <3>1, <3>2, <3>3 DEF Counted, Ended
  <2> QED BY <2>1, <2>2
<1>10. CASE Register(u) \/ Sleep(u) \/ Pause(u) \/ TestLoop(u) \/ Stat(u) \/ CountCopy(u) \/ ReadFile(u) \/ Handle(u)
  <2>1. UNCHANGED <<archive, cps>>
    BY <1>10 DEF Register, Handle, TestLoop, Stat, CountCopy, ReadFile, Sleep, Pause, files
  <2>2. CopiesOf(u)' = CopiesOf(u)
    BY <2>1 DEF CopiesOf
  <2>3. CASE Register(u) \/ Sleep(u) \/ Pause(u) \/ TestLoop(u)
    <3>1. /\ UNCHANGED <<mtime, last_mtime, copies>>
          /\ watch_pc[u] \notin {"write", "count", "read"}
          /\ watch_pc'[u] \notin {"write", "count", "read", "create", "fork"}
      BY <2>3 DEF Register, Sleep, Pause, TestLoop, At, Goto, Exit, End, WatchTypes
    <3>2. Dated(u)'
      BY <1>1, <1>5, <2>2, <3>1 DEF Dated
    <3>3. Counted(u)'
      <4>1. Lag(u)' = Lag(u)
        BY <3>1 DEF Lag
      <4> QED BY <1>9, <2>1, <2>2, <3>1, <4>1
    <3> QED BY <3>2, <3>3
  <2>4. CASE Stat(u)
    <3>1. /\ UNCHANGED <<last_mtime, copies>> /\ watch_pc[u] = "stat"
          /\ \/ watch_pc'[u] = "failed" /\ mtime'[u] = mtime[u]
             \/ /\ file[u].date # 0 /\ mtime'[u] = file[u].date
                /\ watch_pc'[u] \in {"sleep", "fork", "create", "read"}
                /\ watch_pc'[u] \in {"fork", "create"} => mtime'[u] # last_mtime[u]
      BY <2>4 DEF Stat, At, Goto, Fail, End, WatchTypes
    <3>2. last_mtime[u] <= mtime'[u] /\ (file'[u].date # 0 => mtime'[u] <= file'[u].date) /\ mtime'[u] \in Nat
      BY <1>1, <1>3, <1>5, <3>1
    <3>3. \A c \in CopiesOf(u) : c[2] <= last_mtime[u] /\ c[2] <= mtime'[u]
      BY <1>3, <1>5, <3>1, <3>2
    <3>4. watch_pc'[u] \in {"create", "fork"} => last_mtime[u] < mtime'[u]
      BY <1>3, <3>1, <3>2
    <3>5. Dated(u)'
      BY <1>1, <1>5, <2>2, <3>1, <3>2, <3>3, <3>4 DEF Dated
    <3>6. Counted(u)'
      <4>1. Lag(u)' = Lag(u) /\ watch_pc'[u] # "exited"
        BY <3>1 DEF Lag
      <4> QED BY <1>9, <2>1, <2>2, <3>1, <4>1
    <3> QED BY <3>5, <3>6
  <2>5. CASE CountCopy(u)
    <3>1. /\ UNCHANGED <<mtime, last_mtime>> /\ watch_pc[u] = "count"
          /\ copies'[u] = copies[u] + 1 /\ watch_pc'[u] = "read"
      BY <2>5 DEF CountCopy, At, Goto, WatchTypes, CountTypes
    <3>2. Dated(u)'
      BY <1>1, <1>5, <2>2, <3>1 DEF Dated
    <3>3. Counted(u)'
      <4>1. copies'[u] + Lag(u)' = copies[u] + Lag(u)
        BY <1>3, <3>1 DEF Lag
      <4> QED BY <1>9, <2>2, <3>1, <4>1
    <3> QED BY <3>2, <3>3
  <2>6. CASE ReadFile(u)
    <3>1. /\ UNCHANGED <<mtime, copies>> /\ watch_pc[u] = "read"
          /\ last_mtime'[u] = mtime[u] /\ watch_pc'[u] \in {"failed", "sleep"}
      BY <2>6 DEF ReadFile, At, Goto, Fail, End, WatchTypes
    <3>2. Dated(u)'
      BY <1>1, <1>3, <1>5, <2>2, <3>1 DEF Dated
    <3>3. Counted(u)'
      <4>1. Lag(u)' = Lag(u)
        BY <3>1 DEF Lag
      <4> QED BY <1>9, <2>2, <3>1, <4>1
    <3> QED BY <3>2, <3>3
  <2>7. CASE Handle(u)
    <3>1. UNCHANGED <<mtime, last_mtime, copies>> /\ build = "signals"
      BY <2>7 DEF Handle, Told
    <3>2. watch_pc'[u] = watch_pc[u] \/ (watch_pc[u] = "paused" /\ watch_pc'[u] = "test") \/ watch_pc'[u] \in Ended
      BY <2>7 DEF Handle, HandleToggle, HandleEnd, Exit, End, Goto, Ended, WatchTypes
    <3>3. Dated(u)'
      BY <1>1, <1>4, <1>5, <2>2, <3>1, <3>2 DEF Dated, Ended
    <3>4. copies[u] + Lag(u) = Cardinality(CopiesOf(u))
      BY <1>6, <3>1 DEF Gone
    <3>5. CASE watch_pc'[u] \notin Ended
      <4>1. Lag(u)' = Lag(u)
        BY <3>2, <3>5 DEF Lag
      <4> QED BY <1>9, <2>2, <3>1, <3>3, <3>5, <4>1 DEF Ended
    <3>6. CASE watch_pc'[u] \in Ended
      <4>1. watch_pc'[u] = "exited" => status'[u] = copies[u] % StatusWidth
        BY StepEnds DEF Ended
      <4>2. Cardinality(CopiesOf(u)) = copies[u] \/ Cardinality(CopiesOf(u)) = copies[u] + 1
        BY <1>3, <3>4 DEF Lag
      <4> QED BY <1>1, <2>2, <3>1, <3>3, <3>6, <4>1, <4>2 DEF Counted
    <3> QED BY <3>5, <3>6
  <2> QED BY <1>10, <2>3, <2>4, <2>5, <2>6, <2>7
<1>11. CASE CreateCopy(u) \/ ForkCp(u)
  <2>1. /\ watch_pc[u] \in {"create", "fork"} /\ UNCHANGED mtime
        /\ \/ UNCHANGED cps /\ \E v : Store(<<u, mtime[u]>>, v)
           \/ UNCHANGED archive /\ cps' = cps \cup {<<u, mtime[u]>>}
        /\ \/ watch_pc'[u] = "write" /\ UNCHANGED <<last_mtime, copies>>
           \/ watch_pc'[u] = "sleep" /\ last_mtime'[u] = mtime[u] /\ copies'[u] = copies[u] + 1
    BY <1>11 DEF CreateCopy, ForkCp, At, Goto, files, WatchTypes, CountTypes
  <2>2. \A c \in CopiesOf(u) : c[2] < mtime[u]
    BY <1>3, <1>5, <2>1
  <2>3. /\ CopiesOf(u)' = CopiesOf(u) \cup {<<u, mtime[u]>>}
        /\ Cardinality(CopiesOf(u))' = Cardinality(CopiesOf(u)) + 1
    BY <1>1, <1>3, <2>1, <2>2, NewCopy
  <2>4. \A c \in CopiesOf(u)' : c[2] <= mtime[u]
    BY <1>3, <2>2, <2>3
  <2>5. Dated(u)'
    BY <1>1, <1>3, <1>5, <2>1, <2>4 DEF Dated
  <2>6. Counted(u)'
    <3>1. copies'[u] + Lag(u)' = copies[u] + Lag(u) + 1 /\ watch_pc'[u] # "exited"
      BY <1>3, <2>1 DEF Lag
    <3> QED BY <1>9, <2>3, <3>1
  <2> QED BY <2>5, <2>6
<1>12. CASE WriteCopy(u)
  <2>1. /\ watch_pc[u] = "write" /\ watch_pc'[u] = "count"
        /\ UNCHANGED <<mtime, last_mtime, copies, cps>>
        /\ Store(<<u, mtime[u]>>, buffer[u])
    BY <1>12 DEF WriteCopy, At, Goto, WatchTypes
  <2>2. <<u, mtime[u]>> \in DOMAIN archive
    BY <1>12, <2>1 DEF CopyInv
  <2>3. CopiesOf(u)' = CopiesOf(u)
    BY <2>1, <2>2 DEF CopiesOf, Store
  <2>4. Dated(u)'
    BY <1>1, <1>5, <2>1, <2>3 DEF Dated
  <2>5. Lag(u)' = Lag(u) /\ watch_pc'[u] # "exited"
    BY <2>1 DEF Lag
  <2> QED BY <1>9, <2>1, <2>3, <2>4, <2>5
<1> QED BY <1>10, <1>11, <1>12 DEF WatchStep

LEMMA CountNextInv == WatchInv /\ CountInv /\ [WatchNext]_watch_vars => CountInv'
<1> SUFFICES ASSUME WatchInv, CountInv, [WatchNext]_watch_vars PROVE CountInv'
  OBVIOUS
<1>1. CASE UNCHANGED watch_vars
  <2>1. \A w \in Watchers : CopiesOf(w)' = CopiesOf(w)
    BY <1>1 DEF CopiesOf, watch_vars, files
  <2> QED BY <1>1, <2>1 DEF CountInv, CountTypes, Dated, Counted, Told, Lag, Gone, Alive, watch_vars, files, watcher, monitor
<1> QED BY <1>1, OutsideCounts, MonitorCounts, StepCounts DEF WatchNext

(* monitor reports of every watcher that has exited how many copies it has  *)
(* made, as far as an exit status can hold the number; a watcher that is    *)
(* ended by a signal may have left one uncounted, and cp may fail when the  *)
(* file is removed: for any number of watchers, files and polls.            *)
THEOREM ReportedCorrect == WatchSpec => []ReportedCopies
<1>1. WatchSpec => []CountInv
  BY CountInitInv, CountNextInv, WatchInvariance, PTL DEF WatchSpec
<1>2. CountInv => ReportedCopies
  <2> SUFFICES ASSUME CountInv, NEW w \in Watchers, reported[w] >= 0, watch_pc[w] = "exited"
               PROVE  LET m == Cardinality(CopiesOf(w)) IN
                      \/ reported[w] = m % StatusWidth
                      \/ build = "signals" /\ m > 0 /\ reported[w] = (m - 1) % StatusWidth
                      \/ build = "cp" /\ file[w].date = 0
    BY DEF ReportedCopies
  <2>1. reported[w] = copies[w] % StatusWidth /\ copies[w] \in Nat
    BY DEF CountInv, Told, Counted, CountTypes
  <2>2. \/ Gone(w) \/ copies[w] = Cardinality(CopiesOf(w))
        \/ build = "signals" /\ copies[w] + 1 = Cardinality(CopiesOf(w))
    BY DEF CountInv, Counted
  <2>3. ASSUME copies[w] + 1 = Cardinality(CopiesOf(w))
        PROVE  Cardinality(CopiesOf(w)) > 0 /\ Cardinality(CopiesOf(w)) - 1 = copies[w]
    BY <2>1, <2>3
  <2> QED BY <2>1, <2>2, <2>3 DEF Gone
<1> QED BY <1>1, <1>2, PTL

-----------------------------------------------------------------------------
(*****************************************************************************)
(* Filter: the columns, for any widths and numbers of threads.  Owns(t, c)   *)
(* says which columns are those of thread t.  The heart of the matter is     *)
(* arithmetic: every column has an owner (Owned) and only one (OwnedOnce).   *)
(* FilterInv ties the state of the threads to it.                            *)
(*****************************************************************************)

(* ceil                                                                     *)
LEMMA CeilBounds ==
  ASSUME NEW a \in Nat, NEW b \in Nat, a > 0, b > 0
  PROVE  Ceil(a, b) \in Nat /\ Ceil(a, b) > 0 /\ b * Ceil(a, b) >= a
<1> DEFINE q == Ceil(a, b)
<1>1. q \in Int /\ a + b - 1 = b * q + ((a + b - 1) % b) /\ (a + b - 1) % b \in 0 .. b - 1
  BY DivMod DEF Ceil
<1> HIDE DEF q
<1>2. b * q >= a
  BY <1>1
<1>3. q > 0
  <2>1. SUFFICES ASSUME q <= 0 PROVE FALSE
    BY <1>1
  <2>2. b * q <= 0
    BY <1>1, <2>1, SMT
  <2> QED BY <1>1, <1>2, <2>2
<1> QED BY <1>1, <1>2, <1>3 DEF q

-----------------------------------------------------------------------------
(* Which pixels are read                                                   *)

(* Whatever the size of the filter, the index of a pixel lies in the image. *)
THEOREM SourceInside ==
  ASSUME NEW col \in Nat, NEW e \in Nat, NEW c \in Nat, NEW width \in Nat, width > 0, UWord > 0
  PROVE  Source(col, e, c, width) \in 0 .. width - 1
<1>1. (col - Ceil(c, 2) + e) % UWord \in Nat
  <2>1. Ceil(c, 2) \in Int
    BY SMT DEF Ceil
  <2>2. col - Ceil(c, 2) + e \in Int
    BY <2>1
  <2> QED BY <2>2, DivMod, FilterAssumption DEF FilterAssumption
<1> QED BY <1>1 DEF Source, Clip, Least

(* Left of the image the difference is negative and wraps: what is read     *)
(* there is the rightmost pixel and not the leftmost, as long as image and  *)
(* filter together are no larger than the numbers of an unsigned.           *)
THEOREM LeftEdge ==
  ASSUME NEW col \in Nat, NEW e \in Nat, NEW c \in Nat, NEW width \in Nat, width > 0,
         col + e < Ceil(c, 2), width + Ceil(c, 2) <= UWord
  PROVE  Source(col, e, c, width) = width - 1
<1> DEFINE d == col - Ceil(c, 2) + e
<1>1. Ceil(c, 2) \in Int
  BY SMT DEF Ceil
<1>2. d \in Int /\ d < 0 /\ d >= 0 - Ceil(c, 2) /\ UWord \in Nat
  BY <1>1, FilterAssumption DEF FilterAssumption
<1>3. d % UWord = d + UWord
  <2>1. d % UWord \in 0 .. UWord - 1 /\ d \div UWord \in Int
        /\ d = UWord * (d \div UWord) + (d % UWord)
    BY <1>1, <1>2, DivMod
  <2> DEFINE q == d \div UWord
  <2> HIDE DEF q, d
  <2>2. q < 0
    <3>1. SUFFICES ASSUME q >= 0 PROVE FALSE
      BY <2>1 DEF q
    <3>2. UWord * q >= 0
      BY <1>2, <2>1, <3>1, SMT DEF q
    <3> QED BY <1>2, <2>1, <3>2 DEF q
  <2>3. q >= 0 - 1
    <3>1. SUFFICES ASSUME q < 0 - 1 PROVE FALSE
      BY <2>1 DEF q
    <3>2. UWord * q + UWord <= UWord * (0 - 1)
      BY <1>2, <2>1, <3>1, Multiples DEF q
    <3> QED BY <1>1, <1>2, <2>1, <3>2 DEF q
  <2>4. q = 0 - 1
    BY <2>1, <2>2, <2>3 DEF q
  <2> QED BY <1>2, <2>1, <2>4 DEF q
<1> HIDE DEF d
<1>4. d % UWord >= width
  BY <1>1, <1>2, <1>3
<1>5. d % UWord \in Nat
  BY <1>1, <1>2, <1>3, <1>4
<1>6. Source(col, e, c, width) = Least(d % UWord, width - 1)
  BY DEF Source, Clip, d
<1> QED BY <1>4, <1>5, <1>6 DEF Least

-----------------------------------------------------------------------------
(* The columns of a thread                                                 *)

Blocks == mode = "block" /\ nthreads # 0

Owns(t, c) ==
  IF Blocks THEN XMin(t) <= c /\ c <= XMax(t) ELSE c % Count(nthreads) = t

Columns == 0 .. W - 1

Parameters == mode \in Modes /\ W \in Widths /\ nthreads \in ThreadCounts

LEMMA ParametersType ==
  ASSUME Parameters
  PROVE  /\ W \in Nat /\ W > 0 /\ nthreads \in Nat /\ mode \in {"block", "interleaved"}
         /\ Count(nthreads) \in Nat /\ Count(nthreads) > 0
         /\ Threads \subseteq Nat
  BY FilterAssumption DEF FilterAssumption, Parameters, Count, Threads

(* The bounds of a block, linear in the width of a block                    *)
LEMMA BlockBounds ==
  ASSUME Parameters, Blocks, NEW t \in Threads
  PROVE  LET q == Ceil(W, nthreads) IN
         /\ q \in Nat /\ q > 0
         /\ XMin(t) = q * t /\ XMax(t) = q * t + q - 1 /\ q * t \in Nat
<1> DEFINE q == Ceil(W, nthreads)
<1>1. q \in Nat /\ q > 0
  <2>1. W \in Nat /\ W > 0 /\ nthreads \in Nat /\ nthreads > 0
    BY ParametersType DEF Blocks
  <2> QED BY <2>1, CeilBounds
<1>2. XMin(t) = t * q /\ XMax(t) = (t + 1) * q - 1
  BY DEF XMin, XMax, Blocks
<1> HIDE DEF q
<1>3. t \in Nat
  BY ParametersType
<1>4. t * q = q * t /\ (t + 1) * q = q * t + q /\ q * t \in Nat
  BY <1>1, <1>3, SMT
<1> QED BY <1>1, <1>2, <1>4 DEF q

(* Every column is some thread's.                                           *)
LEMMA Owned ==
  ASSUME Parameters, NEW c \in Columns
  PROVE  \E t \in Threads : Owns(t, c)
<1>1. CASE Blocks
  <2> DEFINE q == Ceil(W, nthreads)
             t == c \div q
  <2>1. q \in Nat /\ q > 0 /\ nthreads * q >= W /\ nthreads > 0
    <3>1. W \in Nat /\ W > 0 /\ nthreads \in Nat /\ nthreads > 0
      BY <1>1, ParametersType DEF Blocks
    <3> QED BY <3>1, CeilBounds
  <2>2. c \in Nat /\ c < W
    BY ParametersType DEF Columns
  <2>3. t \in Int /\ c = q * t + (c % q) /\ c % q \in 0 .. q - 1
    <3> HIDE DEF q
    <3> QED BY <2>1, <2>2, DivMod
  <2> HIDE DEF t, q
  <2>4. t < nthreads
    <3>1. SUFFICES ASSUME nthreads <= t PROVE FALSE
      BY <2>3, ParametersType
    <3>2. nthreads \in Int /\ (nthreads = t \/ nthreads < t)
      BY <2>3, <3>1, ParametersType
    <3>3. nthreads = t \/ q * nthreads + q <= q * t
      BY <2>1, <2>3, <3>2, Multiples
    <3>4. q * nthreads = nthreads * q /\ nthreads * q \in Int /\ q * t \in Int
      BY <2>1, <2>3, ParametersType, SMT
    <3> QED BY <2>1, <2>2, <2>3, <3>3, <3>4, ParametersType
  <2>5. t >= 0
    <3>1. SUFFICES ASSUME t < 0 PROVE FALSE
      BY <2>3
    <3>2. q * t + q <= q * 0
      BY <2>1, <2>3, <3>1, Multiples
    <3>3. q * t \in Int
      BY <2>1, <2>3, SMT
    <3> QED BY <2>1, <2>2, <2>3, <3>2, <3>3
  <2>6. t \in Threads
    BY <2>1, <2>3, <2>4, <2>5, ParametersType DEF Threads, Count
  <2>7. XMin(t) = q * t /\ XMax(t) = q * t + q - 1 /\ q * t \in Nat
    BY <1>1, <2>6, BlockBounds DEF q
  <2>8. Owns(t, c)
    BY <1>1, <2>1, <2>2, <2>3, <2>7 DEF Owns
  <2> QED BY <2>6, <2>8
<1>2. CASE ~Blocks
  <2>1. c % Count(nthreads) \in Threads
    BY DivMod, ParametersType DEF Columns, Threads
  <2> QED BY <1>2, <2>1 DEF Owns
<1> QED BY <1>1, <1>2

(* No column is two threads'.                                               *)
LEMMA OwnedOnce ==
  ASSUME Parameters, NEW c \in Columns, NEW t \in Threads, NEW u \in Threads,
         Owns(t, c), Owns(u, c)
  PROVE  t = u
<1>1. CASE Blocks
  <2> SUFFICES ASSUME NEW v \in Threads, NEW w \in Threads, v < w, Owns(v, c), Owns(w, c)
               PROVE  FALSE
    BY ParametersType
  <2> DEFINE q == Ceil(W, nthreads)
  <2>1. /\ q \in Nat /\ q > 0
        /\ XMax(v) = q * v + q - 1 /\ q * v \in Nat
        /\ XMin(w) = q * w /\ q * w \in Nat
    BY <1>1, BlockBounds
  <2> HIDE DEF q
  <2>2. q * v + q <= q * w
    BY <2>1, Multiples, ParametersType
  <2> QED BY <1>1, <2>1, <2>2, ParametersType DEF Owns, Columns
<1> QED BY <1>1 DEF Owns

-----------------------------------------------------------------------------
(* The invariant                                                           *)

FilterTypeOK ==
  /\ Parameters
  /\ x \in [Threads -> Nat]
  /\ thread_pc \in [Threads -> {"new", "running", "done"}]
  /\ k \in 0 .. Count(nthreads)
  /\ main_pc \in {"create", "join", "saved", "failed"}
  /\ by \in [Columns -> SUBSET Threads]

(* Main creates the threads in order, and joins them in order.              *)
MainLoop ==
  /\ main_pc = "create" => \A t \in Threads : t < k <=> thread_pc[t] # "new"
  /\ main_pc \in {"join", "saved"} => \A t \in Threads : thread_pc[t] # "new"
  /\ main_pc = "join" => \A t \in Threads : t < k => thread_pc[t] = "done"
  /\ main_pc = "saved" => \A t \in Threads : thread_pc[t] = "done"

(* A thread has computed those of its columns that are before x.            *)
ProgressOf(t) ==
  /\ thread_pc[t] # "new" =>
       IF Blocks THEN XMin(t) <= x[t] ELSE x[t] % Count(nthreads) = t
  /\ thread_pc[t] = "done" => ~HasColumn(t)
  /\ \A c \in Columns :
       t \in by[c] <=> Owns(t, c) /\ thread_pc[t] # "new" /\ c < x[t]

Progress == \A t \in Threads : ProgressOf(t)

FilterInv == FilterTypeOK /\ MainLoop /\ Progress

(* Who has columns left is in the image and within its own columns.         *)
LEMMA NextColumn ==
  ASSUME FilterInv, NEW t \in Threads, thread_pc[t] = "running", HasColumn(t)
  PROVE  x[t] \in Columns /\ Owns(t, x[t])
<1>1. CASE Blocks
  <2>1. XMin(t) <= x[t] /\ XMin(t) \in Nat /\ XMax(t) \in Nat
    BY <1>1, BlockBounds DEF FilterInv, Progress, ProgressOf, FilterTypeOK
  <2> QED BY <1>1, <2>1, ParametersType
      DEF FilterInv, FilterTypeOK, HasColumn, Least, Columns, Owns
<1>2. CASE ~Blocks
  <2>1. XMax(t) = W - 1
    BY <1>2 DEF XMax, Blocks
  <2> QED BY <1>2, <2>1, ParametersType
      DEF FilterInv, FilterTypeOK, Progress, ProgressOf, HasColumn, Least, Columns, Owns
<1> QED BY <1>1, <1>2

(* What a thread that has no column left has not passed is not its own.     *)
LEMMA NoColumnLeft ==
  ASSUME FilterInv, NEW t \in Threads, ~HasColumn(t), NEW c \in Columns, Owns(t, c)
  PROVE  c < x[t]
<1>1. CASE Blocks
  <2>1. XMax(t) \in Nat
    BY <1>1, BlockBounds DEF FilterInv, FilterTypeOK
  <2> QED BY <1>1, <2>1, ParametersType
      DEF FilterInv, FilterTypeOK, HasColumn, Least, Columns, Owns
<1>2. CASE ~Blocks
  <2>1. XMax(t) = W - 1
    BY <1>2 DEF XMax, Blocks
  <2> QED BY <2>1, ParametersType DEF FilterInv, FilterTypeOK, HasColumn, Least, Columns
<1> QED BY <1>1, <1>2

LEMMA FilterInit_Inv == FilterInit => FilterInv
<1> SUFFICES ASSUME FilterInit PROVE FilterInv
  OBVIOUS
<1>1. Parameters
  BY DEF FilterInit, Parameters
<1>2. FilterTypeOK
  BY <1>1, ParametersType DEF FilterInit, FilterTypeOK, Columns
<1>3. MainLoop
  BY <1>1, ParametersType DEF FilterInit, MainLoop
<1>4. Progress
  BY DEF FilterInit, Progress, ProgressOf, Columns
<1> QED BY <1>2, <1>3, <1>4 DEF FilterInv

(* Before its first column a thread has none.                               *)
LEMMA FirstColumn ==
  ASSUME Parameters, NEW t \in Threads
  PROVE  /\ XMin(t) \in Nat
         /\ ~Blocks => XMin(t) % Count(nthreads) = t
         /\ \A c \in Columns : Owns(t, c) => XMin(t) <= c
<1>1. CASE Blocks
  BY <1>1, BlockBounds DEF Owns
<1>2. CASE ~Blocks
  <2>1. XMin(t) = t
    BY <1>2 DEF XMin, Blocks
  <2>2. t \in Nat /\ t < Count(nthreads) /\ Count(nthreads) \in Nat /\ Count(nthreads) > 0
    BY ParametersType DEF Threads
  <2>3. t % Count(nthreads) = t
    BY <2>2, SMT
  <2>4. ASSUME NEW c \in Columns, Owns(t, c) PROVE t <= c
    <3>1. c % Count(nthreads) = t /\ c \in Nat
      BY <1>2, <2>4, ParametersType DEF Owns, Columns
    <3>2. SUFFICES ASSUME c < t PROVE FALSE
      BY <2>2, <3>1
    <3>3. c % Count(nthreads) = c
      BY <2>2, <3>1, <3>2, SMT
    <3> QED BY <3>1, <3>2, <3>3, <2>2
  <2> QED BY <2>1, <2>2, <2>3, <2>4
<1> QED BY <1>1, <1>2

LEMMA CreateInv ==
  ASSUME FilterInv, Create
  PROVE  FilterInv'
<1>1. Parameters /\ k \in Threads /\ thread_pc[k] = "new" /\ XMin(k) \in Nat
  BY FirstColumn, ParametersType DEF FilterInv, FilterTypeOK, MainLoop, Create
<1>2. /\ Parameters' /\ Threads' = Threads /\ Columns' = Columns /\ Blocks' = Blocks
      /\ \A t \in Threads : XMin(t)' = XMin(t) /\ XMax(t)' = XMax(t)
      /\ \A t \in Threads, c \in Columns : Owns(t, c)' = Owns(t, c)
  BY <1>1 DEF Create, Parameters, Threads, Columns, Blocks, XMin, XMax, Owns
<1>3. FilterTypeOK'
  BY <1>1, <1>2, ParametersType DEF FilterInv, FilterTypeOK, Create, Threads
<1>4. MainLoop'
  BY <1>1, <1>2, ParametersType DEF FilterInv, FilterTypeOK, MainLoop, Create
<1>5. Progress'
  <2> SUFFICES ASSUME NEW t \in Threads PROVE ProgressOf(t)'
    BY <1>2 DEF Progress
  <2>1. CASE t = k
    <3>1. /\ thread_pc'[t] = "running" /\ x'[t] = XMin(t)
          /\ by' = by /\ nthreads' = nthreads
      BY <2>1, <1>1 DEF FilterInv, FilterTypeOK, Create
    <3>2. \A c \in Columns : t \notin by[c] /\ (Owns(t, c) => ~(c < XMin(t)))
      BY <2>1, <1>1, FirstColumn, ParametersType
      DEF FilterInv, Progress, ProgressOf, Columns
    <3>3. IF Blocks THEN XMin(t) <= XMin(t) ELSE XMin(t) % Count(nthreads) = t
      BY <1>1, FirstColumn
    <3> QED BY <1>1, <1>2, <3>1, <3>2, <3>3 DEF ProgressOf
  <2>2. CASE t # k
    BY <2>2, <1>1, <1>2
    DEF FilterInv, FilterTypeOK, Progress, ProgressOf, Create, HasColumn, Least
  <2> QED BY <2>1, <2>2
<1> QED BY <1>3, <1>4, <1>5 DEF FilterInv

(* The parameters do not change, nor does what follows from them.           *)
LEMMA Unchanged ==
  ASSUME UNCHANGED <<mode, W, nthreads>>
  PROVE  /\ Parameters' <=> Parameters
         /\ Threads' = Threads /\ Columns' = Columns /\ Blocks' = Blocks
         /\ \A t : XMin(t)' = XMin(t) /\ XMax(t)' = XMax(t)
         /\ \A t, c : Owns(t, c)' = Owns(t, c)
  BY DEF Parameters, Threads, Columns, Blocks, XMin, XMax, Owns

LEMMA ComputeColumnInv ==
  ASSUME FilterInv, NEW t \in Threads, ComputeColumn(t)
  PROVE  FilterInv'
<1> DEFINE m == Count(nthreads)
<1> USE DEF FilterInv
<1>1. Parameters /\ x[t] \in Columns /\ Owns(t, x[t]) /\ thread_pc[t] = "running"
  BY NextColumn DEF FilterTypeOK, ComputeColumn
<1>2. /\ Parameters' /\ Threads' = Threads /\ Columns' = Columns /\ Blocks' = Blocks
      /\ \A u : XMin(u)' = XMin(u) /\ XMax(u)' = XMax(u)
      /\ \A u, c : Owns(u, c)' = Owns(u, c)
      /\ thread_pc' = thread_pc
  BY <1>1, Unchanged DEF ComputeColumn
<1>3. XStep \in Nat /\ XStep > 0 /\ x[t] \in Nat
  BY <1>1, ParametersType DEF XStep, FilterTypeOK
<1>4. /\ x' = [x EXCEPT ![t] = x[t] + XStep]
      /\ by' = [by EXCEPT ![x[t]] = by[x[t]] \cup {t}]
  BY DEF ComputeColumn
<1>5. FilterTypeOK'
  BY <1>1, <1>2, <1>3, <1>4 DEF FilterTypeOK, ComputeColumn
<1>6. MainLoop'
  BY <1>2 DEF MainLoop, ComputeColumn
<1>7. Progress'
  <2> SUFFICES ASSUME NEW u \in Threads PROVE ProgressOf(u)'
    BY <1>2 DEF Progress
  <2>1. CASE u # t
    <3>1. x'[u] = x[u] /\ \A c \in Columns : u \in by'[c] <=> u \in by[c]
      BY <2>1, <1>1, <1>4 DEF FilterTypeOK
    <3>2. HasColumn(u)' = HasColumn(u)
      BY <1>2, <3>1 DEF HasColumn, ComputeColumn
    <3>3. ProgressOf(u) /\ nthreads' = nthreads
      BY DEF Progress, ComputeColumn
    <3> QED BY <1>2, <3>1, <3>2, <3>3 DEF ProgressOf
  <2>2. CASE u = t
    <3>1. x'[t] = x[t] + XStep
      BY <1>4 DEF FilterTypeOK
    <3>2. \A c \in Columns : t \in by'[c] <=> t \in by[c] \/ c = x[t]
      BY <1>1, <1>4 DEF FilterTypeOK
    <3>3. \A c \in Columns : t \in by[c] <=> Owns(t, c) /\ c < x[t]
      BY <1>1 DEF Progress, ProgressOf
    <3>4. \A c \in Columns : Owns(t, c) /\ c < x[t] + XStep => c <= x[t]
      <4> SUFFICES ASSUME NEW c \in Columns, Owns(t, c), x[t] < c PROVE x[t] + XStep <= c
        BY <1>1, <1>3, ParametersType DEF Columns
      <4>1. c \in Nat
        BY <1>1, ParametersType DEF Columns
      <4>2. CASE mode = "block" /\ nthreads # 0
        BY <1>3, <4>1, <4>2 DEF XStep
      <4>3. CASE mode = "block" /\ nthreads = 0
        BY <1>3, <4>1, <4>3 DEF XStep
      <4>4. CASE mode # "block"
        <5>1. XStep = m /\ m \in Nat /\ m > 0
          BY <1>1, <4>4, ParametersType DEF XStep
        <5>2. x[t] % m = c % m
          BY <1>1, <4>4 DEF Owns, Blocks
        <5> HIDE DEF m
        <5> QED BY <1>3, <4>1, <5>1, <5>2, Apart
      <4> QED BY <4>2, <4>3, <4>4
    <3>5. \A c \in Columns : Owns(t, c) /\ c < x[t] + XStep <=> (Owns(t, c) /\ c < x[t]) \/ c = x[t]
      BY <1>1, <1>3, <3>4, ParametersType DEF Columns
    <3>6. IF Blocks THEN XMin(t) <= x[t] + XStep ELSE (x[t] + XStep) % m = t
      <4>1. CASE Blocks
        <5>1. XMin(t) <= x[t] /\ XMin(t) \in Nat
          BY <1>1, <4>1, FirstColumn DEF Owns
        <5> QED BY <1>3, <4>1, <5>1
      <4>2. CASE ~Blocks
        <5>1. m \in Nat /\ m > 0 /\ x[t] % m = t /\ (XStep = m \/ m = 1)
          BY <1>1, <4>2, ParametersType DEF XStep, Owns, Blocks, Count
        <5>2. (x[t] + m) % m = x[t] % m
          <6> HIDE DEF m
          <6> QED BY <1>3, <5>1, SMTT(30)
        <5> QED BY <1>1, <1>3, <4>2, <5>1, <5>2, SMT
      <4> QED BY <4>1, <4>2
    <3>7. nthreads' = nthreads
      BY DEF ComputeColumn
    <3> QED BY <1>1, <1>2, <2>2, <3>1, <3>2, <3>3, <3>5, <3>6, <3>7 DEF ProgressOf
  <2> QED BY <2>1, <2>2
<1> QED BY <1>5, <1>6, <1>7

(* Every other step leaves the columns alone.                               *)
LEMMA OtherStepInv ==
  ASSUME FilterInv, UNCHANGED <<mode, W, nthreads, x, by>>,
         FilterTypeOK', MainLoop',
         \A t \in Threads : \/ thread_pc'[t] = thread_pc[t]
                            \/ thread_pc[t] # "new" /\ thread_pc'[t] = "done" /\ ~HasColumn(t)
  PROVE  FilterInv'
<1>1. /\ Threads' = Threads /\ Columns' = Columns /\ Blocks' = Blocks
      /\ \A u : XMin(u)' = XMin(u) /\ XMax(u)' = XMax(u)
      /\ \A u, c : Owns(u, c)' = Owns(u, c)
  BY Unchanged
<1>2. ASSUME NEW t \in Threads PROVE ProgressOf(t)'
  <2>1. ProgressOf(t) /\ HasColumn(t)' = HasColumn(t)
    BY <1>1 DEF FilterInv, Progress, HasColumn
  <2> QED BY <1>1, <2>1 DEF ProgressOf
<1> QED BY <1>1, <1>2 DEF FilterInv, Progress

LEMMA FilterNext_Inv ==
  ASSUME FilterInv, [FilterNext]_filter_vars
  PROVE  FilterInv'
<1> USE DEF FilterInv, FilterTypeOK, MainLoop
<1>1. CASE Create
  BY <1>1, CreateInv
<1>2. ASSUME NEW t \in Threads, ComputeColumn(t) PROVE FilterInv'
  BY <1>2, ComputeColumnInv
<1>3. CASE CreateFails
  <2>1. FilterTypeOK' /\ MainLoop'
    BY <1>3, Unchanged DEF CreateFails
  <2> QED BY <1>3, <2>1, OtherStepInv DEF CreateFails
<1>4. CASE CreatedAll
  <2>1. \A t \in Threads : t < k
    BY <1>4, ParametersType DEF CreatedAll, Threads
  <2>2. FilterTypeOK' /\ MainLoop'
    BY <1>4, <2>1, Unchanged, ParametersType DEF CreatedAll, Threads
  <2> QED BY <1>4, <2>2, OtherStepInv DEF CreatedAll
<1>5. ASSUME NEW t \in Threads, EndThread(t) PROVE FilterInv'
  <2>1. FilterTypeOK' /\ MainLoop'
    BY <1>5, Unchanged DEF EndThread
  <2> QED BY <1>5, <2>1, OtherStepInv DEF EndThread
<1>6. CASE Join
  <2>1. \A t \in Threads : t < k + 1 => t < k \/ t = k
    BY ParametersType
  <2>2. FilterTypeOK' /\ MainLoop'
    BY <1>6, <2>1, Unchanged, ParametersType DEF Join, Threads
  <2> QED BY <1>6, <2>2, OtherStepInv DEF Join
<1>7. CASE Save
  <2>1. \A t \in Threads : t < k
    BY <1>7, ParametersType DEF Save, Threads
  <2>2. FilterTypeOK' /\ MainLoop'
    BY <1>7, <2>1, Unchanged DEF Save
  <2> QED BY <1>7, <2>2, OtherStepInv DEF Save
<1>8. CASE UNCHANGED filter_vars
  <2>1. FilterTypeOK' /\ MainLoop'
    BY <1>8, Unchanged DEF filter_vars
  <2> QED BY <1>8, <2>1, OtherStepInv DEF filter_vars
<1> QED BY <1>1, <1>2, <1>3, <1>4, <1>5, <1>6, <1>7, <1>8 DEF FilterNext

LEMMA FilterInvImplies ==
  ASSUME FilterInv
  PROVE  ColumnsDivided
<1>1. DOMAIN by = Columns
  BY DEF FilterInv, FilterTypeOK
<1>2. ASSUME NEW c \in Columns, NEW t \in by[c], NEW u \in by[c] PROVE t = u
  <2>1. t \in Threads /\ u \in Threads /\ Owns(t, c) /\ Owns(u, c)
    BY DEF FilterInv, FilterTypeOK, Progress, ProgressOf
  <2> QED BY <2>1, OwnedOnce DEF FilterInv, FilterTypeOK
<1>3. ASSUME main_pc = "saved", NEW c \in Columns PROVE by[c] # {}
  <2>1. PICK t \in Threads : Owns(t, c)
    BY Owned DEF FilterInv, FilterTypeOK
  <2>2. thread_pc[t] = "done" /\ ~HasColumn(t)
    BY <1>3 DEF FilterInv, MainLoop, Progress, ProgressOf
  <2>3. c < x[t]
    BY <2>1, <2>2, NoColumnLeft
  <2> QED BY <2>1, <2>2, <2>3 DEF FilterInv, Progress, ProgressOf
<1> QED BY <1>1, <1>2, <1>3 DEF ColumnsDivided

(* Threads never compute the same column, and leave none out: in both       *)
(* modes, for every width and every number of threads.                      *)
THEOREM FilterCorrect == FilterSpec => []ColumnsDivided
<1>1. FilterInit => FilterInv
  BY FilterInit_Inv
<1>2. FilterInv /\ [FilterNext]_filter_vars => FilterInv'
  BY FilterNext_Inv
<1>3. FilterInv => ColumnsDivided
  BY FilterInvImplies
<1> QED BY <1>1, <1>2, <1>3, PTL DEF FilterSpec

-----------------------------------------------------------------------------
(*****************************************************************************)
(* Records: sorting and copying, for any records and keys and for files of   *)
(* any length.  Between the two writes of a swap the file is not what it is  *)
(* about to be (Completed): the invariant is about that.                     *)
(*****************************************************************************)

(* The file when the swap that is under way has been completed              *)
Completed ==
  IF sort_pc \in {"write_min", "torn"} THEN [data EXCEPT ![min] = buf_i] ELSE data

RecordsTypeOK ==
  /\ job \in Jobs
  /\ nrecords \in Nat /\ nrecords > 0
  /\ pos \in Nat /\ j \in Nat
  /\ buf_i \in Records /\ buf_min \in Records
  /\ job = "sort" =>
       /\ original \in [Index -> Records] /\ data \in [Index -> Records]
       /\ min \in Index /\ pos < nrecords
       /\ sort_pc \in {"outer", "inner", "write_i", "write_min", "sorted", "killed", "torn"}
  /\ job = "copy" => sort_pc \in {"copy", "copied", "killed"}

(* Whatever stands before position u is no greater than what follows it.    *)
SortedUpTo(u, contents) ==
  \A p \in Index, q \in Index : p < u /\ p <= q => Key(contents[p]) <= Key(contents[q])

(* No record from position u on, and before position e, is less than c.     *)
LeastFrom(u, e, c, contents) ==
  \A q \in Index : u <= q /\ q < e => c <= Key(contents[q])

SortInv ==
  job = "sort" =>
    /\ \A r \in Records : Times(r, Completed) = Times(r, original)
    /\ SortedUpTo(pos, Completed)
    /\ sort_pc = "sorted" => pos >= nrecords - 1
    /\ sort_pc \in {"inner", "write_i", "write_min"} => pos < nrecords - 1
    /\ sort_pc = "inner" =>
         /\ min_c = Key(data[min]) /\ pos <= min /\ min < j /\ j <= nrecords
         /\ LeastFrom(pos, j, min_c, data)
    /\ sort_pc = "write_i" =>
         /\ pos < min /\ buf_i = data[pos] /\ buf_min = data[min]
         /\ LeastFrom(pos, nrecords, Key(buf_min), data)
    /\ sort_pc \in {"write_min", "torn"} => pos < min
    /\ sort_pc = "write_min" => SortedUpTo(pos + 1, Completed)

(* With c records to copy, the first pos of the copy are there; what lies   *)
(* beyond the last record is the last record.                               *)
CopiedUpTo(c) ==
  /\ original \in [0 .. c - 1 -> Records]
  /\ \A p \in 0 .. pos - 1 : data[p] = original[IF p < c THEN p ELSE c - 1]
  /\ pos >= c => buf_i = original[c - 1]

CopiedInv ==
  job = "copy" =>
    /\ pos <= nrecords
    /\ sort_pc = "copied" => pos = nrecords
    /\ \E c \in 1 .. nrecords : CopiedUpTo(c)

RecordsInv == RecordsTypeOK /\ SortInv /\ CopiedInv

-----------------------------------------------------------------------------
(* How often a record occurs, told by two positions and all the others      *)
LEMMA TimesSplit ==
  ASSUME nrecords \in Nat, NEW f \in [Index -> Records], NEW r,
         NEW a \in Index, NEW b \in Index, a # b
  PROVE  LET others == {p \in Index : p # a /\ p # b /\ f[p] = r} IN
         /\ Cardinality(others) \in Nat
         /\ Times(r, f) = Cardinality(others) + (IF f[a] = r THEN 1 ELSE 0)
                                              + (IF f[b] = r THEN 1 ELSE 0)
<1> DEFINE A == {p \in Index : p # a /\ p # b /\ f[p] = r}
           B == IF f[a] = r THEN A \cup {a} ELSE A
           D == IF f[b] = r THEN B \cup {b} ELSE B
<1>1. IsFiniteSet(A)
  <2>1. IsFiniteSet(Index)
    BY FS_Interval DEF Index
  <2> QED BY <2>1, FS_Subset
<1>2. Cardinality(A) \in Nat
  BY <1>1, FS_CardinalityType
<1>3. IsFiniteSet(B) /\ Cardinality(B) = Cardinality(A) + (IF f[a] = r THEN 1 ELSE 0)
  <2>1. a \notin A
    OBVIOUS
  <2> HIDE DEF A
  <2> QED BY <1>1, <1>2, <2>1, FS_AddElement
<1>4. Cardinality(D) = Cardinality(B) + (IF f[b] = r THEN 1 ELSE 0)
  <2>1. b \notin B
    OBVIOUS
  <2>2. Cardinality(B) \in Nat
    BY <1>3, FS_CardinalityType
  <2>3. IsFiniteSet(B)
    BY <1>3
  <2> HIDE DEF B
  <2>4. Cardinality(B \cup {b}) = Cardinality(B) + 1
    BY <2>1, <2>3, FS_AddElement
  <2> QED BY <2>2, <2>4
<1>5. D = {p \in Index : f[p] = r}
  OBVIOUS
<1> QED BY <1>2, <1>3, <1>4, <1>5 DEF Times

(* A swap changes no record's number.                                       *)
LEMMA TimesSwap ==
  ASSUME nrecords \in Nat, NEW f \in [Index -> Records], NEW r,
         NEW a \in Index, NEW b \in Index, a # b
  PROVE  Times(r, [[f EXCEPT ![a] = f[b]] EXCEPT ![b] = f[a]]) = Times(r, f)
<1> DEFINE g == [[f EXCEPT ![a] = f[b]] EXCEPT ![b] = f[a]]
           A(h) == {p \in Index : p # a /\ p # b /\ h[p] = r}
<1>1. g \in [Index -> Records] /\ g[a] = f[b] /\ g[b] = f[a]
  OBVIOUS
<1>2. A(g) = A(f)
  BY <1>1
<1>3. /\ Cardinality(A(f)) \in Nat
      /\ Times(r, f) = Cardinality(A(f)) + (IF f[a] = r THEN 1 ELSE 0) + (IF f[b] = r THEN 1 ELSE 0)
  BY TimesSplit
<1>4. Times(r, g) = Cardinality(A(g)) + (IF g[a] = r THEN 1 ELSE 0) + (IF g[b] = r THEN 1 ELSE 0)
  <2> HIDE DEF g
  <2> QED BY <1>1, TimesSplit
<1> HIDE DEF g, A
<1> QED BY <1>1, <1>2, <1>3, <1>4 DEF g

-----------------------------------------------------------------------------
LEMMA RecordsInitInv == RecordsInit => RecordsInv
<1> SUFFICES ASSUME RecordsInit PROVE RecordsInv
  OBVIOUS
<1>1. PICK c \in Counts : /\ original \in [0 .. c - 1 -> Records]
                          /\ nrecords \in IF job = "sort" THEN {c} ELSE c .. c + Extra
                          /\ buf_i = original[0] /\ buf_min = original[0]
  BY DEF RecordsInit
<1>2. c \in Nat /\ c > 0 /\ Extra \in Nat /\ job \in {"sort", "copy"}
  BY RecordsAssumption DEF RecordsInit
<1>3. nrecords \in Nat /\ nrecords >= c /\ (job = "sort" => nrecords = c)
  BY <1>1, <1>2
<1>4. buf_i \in Records /\ buf_min \in Records
  BY <1>1, <1>2
<1>5. RecordsTypeOK
  BY <1>1, <1>2, <1>3, <1>4 DEF RecordsTypeOK, RecordsInit, Index
<1>6. SortInv
  BY <1>2, <1>3 DEF SortInv, RecordsInit, Completed, SortedUpTo, Index
<1>7. CopiedInv
  BY <1>1, <1>2, <1>3 DEF CopiedInv, CopiedUpTo, RecordsInit
<1> QED BY <1>5, <1>6, <1>7 DEF RecordsInv

(* A step that leaves the file as it is when completed loses no record.     *)
LEMMA TimesKept ==
  ASSUME nrecords' = nrecords, original' = original, Completed' = Completed,
         \A r \in Records : Times(r, Completed) = Times(r, original)
  PROVE  \A r \in Records : Times(r, Completed)' = Times(r, original)'
<1> HIDE DEF Completed
<1> QED BY DEF Times, Index

LEMMA SortedKept ==
  ASSUME nrecords' = nrecords, Completed' = Completed, NEW u,
         SortedUpTo(u, Completed), pos' = u
  PROVE  SortedUpTo(pos, Completed)'
<1> HIDE DEF Completed
<1> QED BY DEF SortedUpTo, Index

LEMMA StartRoundInv == RecordsInv /\ StartRound => RecordsInv'
<1> SUFFICES ASSUME RecordsInv, StartRound PROVE RecordsInv'
  OBVIOUS
<1> USE DEF RecordsInv
<1>1. job = "sort"
  BY RecordsAssumption DEF RecordsTypeOK, StartRound
<1>2. Completed' = Completed
  BY DEF Completed, StartRound
<1>3. \A r \in Records : Times(r, Completed)' = Times(r, original)'
  BY <1>1, <1>2, TimesKept DEF SortInv, StartRound
<1>4. SortedUpTo(pos, Completed)'
  BY <1>1, <1>2, SortedKept DEF SortInv, StartRound
<1>5. RecordsTypeOK'
  BY <1>1 DEF RecordsTypeOK, StartRound, Index
<1>6. LeastFrom(pos, j, min_c, data)'
  BY <1>1, RecordsAssumption DEF LeastFrom, RecordsTypeOK, StartRound, Index
<1>7. SortInv'
  BY <1>1, <1>3, <1>4, <1>6 DEF SortInv, RecordsTypeOK, StartRound, Index
<1> QED BY <1>1, <1>5, <1>7 DEF CopiedInv, StartRound

LEMMA CompareInv == RecordsInv /\ Compare => RecordsInv'
<1> SUFFICES ASSUME RecordsInv, Compare PROVE RecordsInv'
  OBVIOUS
<1> USE DEF RecordsInv
<1>1. job = "sort"
  BY RecordsAssumption DEF RecordsTypeOK, Compare
<1>2. Completed' = Completed
  BY DEF Completed, Compare
<1>3. \A r \in Records : Times(r, Completed)' = Times(r, original)'
  BY <1>1, <1>2, TimesKept DEF SortInv, Compare
<1>4. SortedUpTo(pos, Completed)'
  BY <1>1, <1>2, SortedKept DEF SortInv, Compare
<1>5. /\ min_c = Key(data[min]) /\ pos <= min /\ min < j /\ j <= nrecords /\ pos < nrecords - 1
      /\ LeastFrom(pos, j, min_c, data)
  BY <1>1 DEF SortInv, Compare
<1>6. j \in Index /\ min \in Index /\ data \in [Index -> Records] /\ pos \in Nat /\ nrecords \in Nat
  BY <1>1, <1>5 DEF Compare, HasNext, RecordsTypeOK, Index
<1>7. RecordsTypeOK'
  BY <1>1, <1>6 DEF RecordsTypeOK, Compare, Index
<1>8. \A q \in Index : Key(data[q]) \in Nat
  BY <1>6, RecordsAssumption
<1>9. min_c' = Key(data'[min']) /\ pos' <= min' /\ min' < j' /\ j' <= nrecords'
  BY <1>5, <1>6 DEF Compare, HasNext, Index
<1>10. LeastFrom(pos, j, min_c, data)'
  BY <1>5, <1>6, <1>8 DEF LeastFrom, Compare, HasNext, Index
<1>11. SortInv'
  BY <1>1, <1>3, <1>4, <1>5, <1>9, <1>10 DEF SortInv, Compare
<1> QED BY <1>1, <1>7, <1>11 DEF CopiedInv, Compare

LEMMA SkipSwapInv == RecordsInv /\ SkipSwap => RecordsInv'
<1> SUFFICES ASSUME RecordsInv, SkipSwap PROVE RecordsInv'
  OBVIOUS
<1> USE DEF RecordsInv
<1>1. job = "sort"
  BY RecordsAssumption DEF RecordsTypeOK, SkipSwap
<1>2. Completed' = Completed /\ Completed = data
  BY DEF Completed, SkipSwap
<1>3. \A r \in Records : Times(r, Completed)' = Times(r, original)'
  BY <1>1, <1>2, TimesKept DEF SortInv, SkipSwap
<1>4. /\ min_c = Key(data[min]) /\ j <= nrecords /\ pos < nrecords - 1
      /\ LeastFrom(pos, j, min_c, data) /\ SortedUpTo(pos, data)
  BY <1>1, <1>2 DEF SortInv, SkipSwap
<1>5. j = nrecords /\ min = pos /\ pos \in Nat /\ nrecords \in Nat
  BY <1>4 DEF SkipSwap, HasNext, RecordsTypeOK
<1>6. SortedUpTo(pos + 1, data)
  BY <1>4, <1>5 DEF SortedUpTo, LeastFrom, Index
<1>7. SortedUpTo(pos, Completed)'
  BY <1>2, <1>6, SortedKept DEF SkipSwap
<1>8. RecordsTypeOK'
  BY <1>1, <1>4, <1>5 DEF RecordsTypeOK, SkipSwap, Index
<1>9. SortInv'
  BY <1>1, <1>3, <1>7 DEF SortInv, SkipSwap
<1> QED BY <1>1, <1>8, <1>9 DEF CopiedInv, SkipSwap

LEMMA ReadBothInv == RecordsInv /\ ReadBoth => RecordsInv'
<1> SUFFICES ASSUME RecordsInv, ReadBoth PROVE RecordsInv'
  OBVIOUS
<1> USE DEF RecordsInv
<1>1. job = "sort"
  BY RecordsAssumption DEF RecordsTypeOK, ReadBoth
<1>2. Completed' = Completed
  BY DEF Completed, ReadBoth
<1>3. \A r \in Records : Times(r, Completed)' = Times(r, original)'
  BY <1>1, <1>2, TimesKept DEF SortInv, ReadBoth
<1>4. SortedUpTo(pos, Completed)'
  BY <1>1, <1>2, SortedKept DEF SortInv, ReadBoth
<1>5. /\ min_c = Key(data[min]) /\ pos <= min /\ j <= nrecords /\ pos < nrecords - 1
      /\ LeastFrom(pos, j, min_c, data)
  BY <1>1 DEF SortInv, ReadBoth
<1>6. j = nrecords /\ min \in Index /\ pos \in Index /\ data \in [Index -> Records]
  BY <1>1, <1>5 DEF ReadBoth, HasNext, RecordsTypeOK, Index
<1>7. RecordsTypeOK'
  BY <1>1, <1>6 DEF RecordsTypeOK, ReadBoth, Index
<1>8. LeastFrom(pos, nrecords, Key(buf_min), data)'
  BY <1>5, <1>6 DEF LeastFrom, ReadBoth, Index
<1>9. pos' < min'
  BY <1>5, <1>6 DEF ReadBoth, Index
<1>10. SortInv'
  BY <1>1, <1>3, <1>4, <1>5, <1>8, <1>9 DEF SortInv, ReadBoth
<1> QED BY <1>1, <1>7, <1>10 DEF CopiedInv, ReadBoth

LEMMA WriteIInv == RecordsInv /\ WriteI => RecordsInv'
<1> SUFFICES ASSUME RecordsInv, WriteI PROVE RecordsInv'
  OBVIOUS
<1> USE DEF RecordsInv
<1>1. job = "sort"
  BY RecordsAssumption DEF RecordsTypeOK, WriteI
<1>2. /\ pos < min /\ buf_i = data[pos] /\ buf_min = data[min] /\ pos < nrecords - 1
      /\ LeastFrom(pos, nrecords, Key(data[min]), data)
      /\ \A r \in Records : Times(r, data) = Times(r, original)
      /\ SortedUpTo(pos, data)
  BY <1>1 DEF SortInv, WriteI, Completed
<1>3. pos \in Index /\ min \in Index /\ data \in [Index -> Records] /\ nrecords \in Nat
  BY <1>1, <1>2 DEF RecordsTypeOK, Index
<1>4. Completed' = [[data EXCEPT ![pos] = data[min]] EXCEPT ![min] = data[pos]]
  BY <1>2 DEF Completed, WriteI
<1>5. \A r \in Records : Times(r, Completed') = Times(r, data)
  <2> TAKE r \in Records
  <2>1. pos # min
    BY <1>2, <1>3 DEF Index
  <2>2. Times(r, [[data EXCEPT ![pos] = data[min]] EXCEPT ![min] = data[pos]]) = Times(r, data)
    BY <1>3, <2>1, TimesSwap
  <2> QED BY <1>4, <2>2
<1>6. \A r \in Records : Times(r, Completed)' = Times(r, original)'
  <2>1. nrecords' = nrecords /\ original' = original
    BY DEF WriteI
  <2> HIDE DEF Completed
  <2> QED BY <1>2, <1>5, <2>1 DEF Times, Index
<1>7. /\ Completed' \in [Index -> Records]
      /\ Completed'[pos] = data[min] /\ Completed'[min] = data[pos]
      /\ \A q \in Index : q # pos /\ q # min => Completed'[q] = data[q]
  BY <1>2, <1>3, <1>4 DEF Index
<1>8. SortedUpTo(pos + 1, Completed')
  <2> SUFFICES ASSUME NEW p \in Index, NEW q \in Index, p < pos + 1, p <= q
               PROVE  Key(Completed'[p]) <= Key(Completed'[q])
    BY DEF SortedUpTo
  <2> HIDE DEF Completed
  <2>1. CASE p = q
    BY <1>7, <2>1, RecordsAssumption
  <2>2. CASE p < pos
    BY <1>2, <1>3, <1>7, <2>2 DEF SortedUpTo, Index
  <2>3. CASE p = pos /\ p # q
    BY <1>2, <1>3, <1>7, <2>3 DEF LeastFrom, Index
  <2> QED BY <1>3, <2>1, <2>2, <2>3 DEF Index
<1>9. SortedUpTo(pos, Completed)' /\ SortedUpTo(pos + 1, Completed)'
  <2>1. nrecords' = nrecords /\ pos' = pos
    BY DEF WriteI
  <2> HIDE DEF Completed
  <2> QED BY <1>3, <1>8, <2>1 DEF SortedUpTo, Index
<1>10. RecordsTypeOK'
  BY <1>1, <1>2, <1>3 DEF RecordsTypeOK, WriteI, Index
<1>11. SortInv'
  BY <1>1, <1>2, <1>6, <1>9 DEF SortInv, WriteI
<1> QED BY <1>1, <1>10, <1>11 DEF CopiedInv, WriteI

LEMMA WriteMinInv == RecordsInv /\ WriteMin => RecordsInv'
<1> SUFFICES ASSUME RecordsInv, WriteMin PROVE RecordsInv'
  OBVIOUS
<1> USE DEF RecordsInv
<1>1. job = "sort"
  BY RecordsAssumption DEF RecordsTypeOK, WriteMin
<1>2. Completed' = Completed
  BY DEF Completed, WriteMin
<1>3. \A r \in Records : Times(r, Completed)' = Times(r, original)'
  BY <1>1, <1>2, TimesKept DEF SortInv, WriteMin
<1>4. SortedUpTo(pos, Completed)'
  BY <1>1, <1>2, SortedKept DEF SortInv, WriteMin
<1>5. pos < nrecords - 1 /\ pos < min
  BY <1>1 DEF SortInv, WriteMin
<1>6. RecordsTypeOK'
  BY <1>1, <1>5 DEF RecordsTypeOK, WriteMin, Index
<1>7. SortInv'
  BY <1>1, <1>3, <1>4 DEF SortInv, WriteMin
<1> QED BY <1>1, <1>6, <1>7 DEF CopiedInv, WriteMin

LEMMA EndSortInv == RecordsInv /\ EndSort => RecordsInv'
<1> SUFFICES ASSUME RecordsInv, EndSort PROVE RecordsInv'
  OBVIOUS
<1> USE DEF RecordsInv
<1>1. job = "sort"
  BY RecordsAssumption DEF RecordsTypeOK, EndSort
<1>2. Completed' = Completed
  BY DEF Completed, EndSort
<1>3. \A r \in Records : Times(r, Completed)' = Times(r, original)'
  BY <1>1, <1>2, TimesKept DEF SortInv, EndSort
<1>4. SortedUpTo(pos, Completed)'
  BY <1>1, <1>2, SortedKept DEF SortInv, EndSort
<1>5. RecordsTypeOK'
  BY <1>1 DEF RecordsTypeOK, EndSort, Index
<1>6. SortInv'
  BY <1>1, <1>3, <1>4 DEF SortInv, EndSort
<1> QED BY <1>1, <1>5, <1>6 DEF CopiedInv, EndSort

-----------------------------------------------------------------------------
(* The record that is read at the end of the file is the last one.          *)
LEMMA LastRecord ==
  ASSUME NEW c \in Nat \ {0}
  PROVE  (CHOOSE q \in 0 .. c - 1 : q + 1 \notin 0 .. c - 1) = c - 1
<1>1. \E q \in 0 .. c - 1 : q + 1 \notin 0 .. c - 1
  <2> WITNESS c - 1 \in 0 .. c - 1
  <2> QED OBVIOUS
<1> DEFINE q == CHOOSE q \in 0 .. c - 1 : q + 1 \notin 0 .. c - 1
<1>2. q \in 0 .. c - 1 /\ q + 1 \notin 0 .. c - 1
  BY <1>1
<1> HIDE DEF q
<1>3. q = c - 1
  BY <1>2
<1> QED BY <1>3 DEF q

LEMMA CopyRecordInv == RecordsInv /\ CopyRecord => RecordsInv'
<1> SUFFICES ASSUME RecordsInv, CopyRecord PROVE RecordsInv'
  OBVIOUS
<1> USE DEF RecordsInv
<1>1. job = "copy"
  BY RecordsAssumption DEF RecordsTypeOK, CopyRecord
<1>2. PICK c \in 1 .. nrecords : CopiedUpTo(c)
  BY <1>1 DEF CopiedInv
<1>3. /\ nrecords \in Nat /\ pos \in Nat /\ c \in Nat \ {0} /\ pos < nrecords /\ buf_i \in Records
      /\ original \in [0 .. c - 1 -> Records]
      /\ nrecords' = nrecords /\ original' = original /\ pos' = pos + 1
  BY <1>2 DEF RecordsTypeOK, CopyRecord, CopiedUpTo
<1>4. buf_i' = original[IF pos < c THEN pos ELSE c - 1]
  BY <1>2, <1>3 DEF CopiedUpTo, CopyRecord
<1>5. CopiedUpTo(c)'
  <2>1. ASSUME NEW p \in 0 .. pos
        PROVE  data'[p] = original[IF p < c THEN p ELSE c - 1]
    <3>1. data'[p] = IF p = pos THEN buf_i' ELSE data[p]
      BY DEF CopyRecord
    <3> QED BY <1>2, <1>3, <1>4, <3>1 DEF CopiedUpTo
  <2>2. pos' >= c => buf_i' = original[c - 1]
    BY <1>3, <1>4
  <2> QED BY <1>3, <2>1, <2>2 DEF CopiedUpTo
<1>6. CopiedInv'
  BY <1>3, <1>5 DEF CopiedInv, CopyRecord
<1>7. RecordsTypeOK'
  BY <1>1, <1>3, <1>4 DEF RecordsTypeOK, CopyRecord
<1> QED BY <1>1, <1>6, <1>7 DEF SortInv, CopyRecord

LEMMA EndCopyInv == RecordsInv /\ EndCopy => RecordsInv'
<1> SUFFICES ASSUME RecordsInv, EndCopy PROVE RecordsInv'
  OBVIOUS
<1> USE DEF RecordsInv
<1>1. job = "copy"
  BY RecordsAssumption DEF RecordsTypeOK, EndCopy
<1>2. RecordsTypeOK'
  BY <1>1 DEF RecordsTypeOK, EndCopy
<1>3. CopiedInv'
  BY <1>1 DEF CopiedInv, CopiedUpTo, EndCopy
<1> QED BY <1>1, <1>2, <1>3 DEF SortInv, EndCopy

LEMMA KillInv == RecordsInv /\ Kill => RecordsInv'
<1> SUFFICES ASSUME RecordsInv, Kill PROVE RecordsInv'
  OBVIOUS
<1> USE DEF RecordsInv
<1>1. job \in {"sort", "copy"}
  BY RecordsAssumption DEF RecordsTypeOK
<1>2. Completed' = Completed
  BY DEF Completed, Kill
<1>3. RecordsTypeOK'
  BY <1>1 DEF RecordsTypeOK, Kill, Index
<1>4. CopiedInv'
  BY DEF CopiedInv, CopiedUpTo, Kill
<1>5. ASSUME job = "sort" PROVE SortInv'
  <2>1. \A r \in Records : Times(r, Completed)' = Times(r, original)'
    BY <1>2, <1>5, TimesKept DEF SortInv, Kill
  <2>2. SortedUpTo(pos, Completed)'
    BY <1>2, <1>5, SortedKept DEF SortInv, Kill
  <2> QED BY <1>5, <2>1, <2>2 DEF SortInv, Kill
<1>6. job # "sort" => SortInv'
  BY DEF SortInv, Kill
<1> QED BY <1>3, <1>4, <1>5, <1>6

LEMMA RecordsNextInv == RecordsInv /\ [RecordsNext]_records_vars => RecordsInv'
<1> SUFFICES ASSUME RecordsInv, [RecordsNext]_records_vars PROVE RecordsInv'
  OBVIOUS
<1>1. CASE UNCHANGED records_vars
  <2> USE <1>1 DEF RecordsInv, records_vars
  <2>1. RecordsTypeOK'
    BY DEF RecordsTypeOK, Index
  <2>2. CopiedInv'
    BY DEF CopiedInv, CopiedUpTo
  <2>3. ASSUME job = "sort" PROVE SortInv'
    <3>1. Completed' = Completed
      BY DEF Completed
    <3>2. \A r \in Records : Times(r, Completed)' = Times(r, original)'
      BY <2>3, <3>1, TimesKept DEF SortInv
    <3>3. SortedUpTo(pos, Completed)' /\ (sort_pc = "write_min" => SortedUpTo(pos + 1, Completed)')
      BY <2>3, <3>1 DEF SortInv, SortedUpTo, Index
    <3> QED BY <2>3, <3>2, <3>3 DEF SortInv, LeastFrom, Index
  <2>4. job # "sort" => SortInv'
    BY DEF SortInv
  <2> QED BY <2>1, <2>2, <2>3, <2>4
<1> QED BY <1>1, StartRoundInv, CompareInv, SkipSwapInv, ReadBothInv, WriteIInv, WriteMinInv,
           EndSortInv, CopyRecordInv, EndCopyInv, KillInv DEF RecordsNext

LEMMA InvKept == RecordsInv => RecordsKept
<1> SUFFICES ASSUME RecordsInv PROVE RecordsKept
  OBVIOUS
<1> USE DEF RecordsInv
<1>1. ASSUME job = "sort" PROVE sort_pc = "sorted" => Sorted
  BY <1>1, RecordsAssumption, SMTT(30)
     DEF SortInv, RecordsTypeOK, Completed, SortedUpTo, Sorted, Index
<1>2. ASSUME job = "sort", sort_pc \notin {"write_min", "torn"} PROVE Permuted
  BY <1>2 DEF SortInv, Completed, Permuted
<1>3. ASSUME sort_pc = "copied", NEW p \in Index
      PROVE  data[p] = original[IF p \in DOMAIN original THEN p
                                ELSE CHOOSE q \in DOMAIN original : q + 1 \notin DOMAIN original]
  <2>1. job = "copy" /\ pos = nrecords /\ nrecords \in Nat
    BY <1>3, RecordsAssumption DEF CopiedInv, RecordsTypeOK
  <2>2. PICK c \in 1 .. nrecords : CopiedUpTo(c)
    BY <2>1 DEF CopiedInv
  <2>3. DOMAIN original = 0 .. c - 1 /\ c \in Nat \ {0}
    BY <2>1, <2>2 DEF CopiedUpTo
  <2>4. (CHOOSE q \in DOMAIN original : q + 1 \notin DOMAIN original) = c - 1
    BY <2>3, LastRecord
  <2>5. data[p] = original[IF p < c THEN p ELSE c - 1]
    BY <2>1, <2>2 DEF CopiedUpTo, Index
  <2>6. p \in DOMAIN original <=> p < c
    BY <2>1, <2>3 DEF Index
  <2> QED BY <2>4, <2>5, <2>6
<1> QED BY <1>1, <1>2, <1>3 DEF RecordsKept

(* A sort that ends has sorted the file (sort_sys, sort_lib), no record is  *)
(* lost but between the two writes of a swap, and a copy that ends has      *)
(* copied all there is and then its last record again: for files of any     *)
(* length and any records.                                                  *)
THEOREM RecordsCorrect == RecordsSpec => []RecordsKept
<1>1. RecordsSpec => []RecordsInv
  BY RecordsInitInv, RecordsNextInv, PTL DEF RecordsSpec
<1> QED BY <1>1, InvKept, PTL

-----------------------------------------------------------------------------
(*****************************************************************************)
(* Fifo: the named pipe, for any number of slaves, lines and masters.  What  *)
(* master has printed and what is still in its pipe are together the text of *)
(* the lines written (TextInv).  That needs pipes nobody else reads: a pipe  *)
(* that master is to open is empty, and its name was made anew since the last *)
(* master removed it (PipesInv; pipes made are counted by removals).         *)
(*****************************************************************************)

Char == Slaves \X Nat \X Nat

WrittenOK == written \in Seq(Slaves \X Nat)

MasterPC == {"new", "open", "opening", "read", "close", "unlink", "exited"}

(* How often the name of the pipe has been removed                          *)
Removals == IF master_pc \in {"new", "exited"} THEN masters ELSE masters - 1

FifoTypes ==
  /\ name \in Nat /\ pipes \in Nat /\ name <= pipes
  /\ masters \in 0 .. MaxMasters
  /\ master_pc \in MasterPC
  /\ master_pc \notin {"new", "exited"} => masters > 0
  /\ pipes <= Removals + (IF name = 0 THEN 0 ELSE 1)
  /\ chars \in [Pipes -> Seq(Char)]
  /\ slave_fd \in [Slaves -> Nat]
  /\ n \in [Slaves -> Nat]
  /\ output \in Seq(Char)
  /\ WrittenOK
  /\ at_eof \in Int

(* A pipe that master is to open, or that is still to be made, is empty.    *)
PipesInv ==
  /\ \A p \in Pipes : p > pipes => chars[p] = <<>>
  /\ master_pc = "open" => name # 0
  /\ master_pc \in {"opening", "read", "close", "unlink"} => master_fd = name /\ name # 0
  /\ master_pc \in {"new", "exited", "open"} /\ name # 0 => chars[name] = <<>>

TextInv ==
  /\ master_pc = "open" => output = <<>> /\ written = <<>> /\ at_eof = -1
  /\ master_pc \in {"opening", "read"} =>
       at_eof = -1 /\ output \o chars[master_fd] = Text(Len(written))
  /\ at_eof # -1 => at_eof \in 0 .. Len(written) /\ output = Text(at_eof)

FifoInv == FifoTypes /\ PipesInv /\ TextInv

-----------------------------------------------------------------------------
(* What a line adds to the text                                            *)

LEMMA InLine ==
  ASSUME NEW L \in Nat, L > 0, NEW m \in Nat, NEW r \in 0 .. L - 1
  PROVE  (L * m + r) \div L = m /\ (L * m + r) % L = r
<1> DEFINE a == L * m + r
           q == a \div L
<1>1. L * m \in Nat /\ a \in Nat
  BY SMT
<1>2. q \in Int /\ a % L \in 0 .. L - 1 /\ a = L * q + (a % L) /\ L * q \in Int
  <2> HIDE DEF a
  <2>1. q \in Int /\ a % L \in 0 .. L - 1 /\ a = L * q + (a % L)
    BY <1>1, DivMod
  <2> QED BY <2>1, SMT
<1>3. a = L * m + r
  OBVIOUS
<1> HIDE DEF a, q
<1>4. ~(q < m)
  <2>1. SUFFICES ASSUME q < m PROVE FALSE
    OBVIOUS
  <2>2. L * q + L <= L * m
    BY <1>2, <2>1, Multiples
  <2> QED BY <1>1, <1>2, <1>3, <2>2
<1>5. ~(m < q)
  <2>1. SUFFICES ASSUME m < q PROVE FALSE
    OBVIOUS
  <2>2. L * m + L <= L * q
    BY <1>2, <2>1, Multiples
  <2> QED BY <1>1, <1>2, <1>3, <2>2
<1>6. q = m
  BY <1>2, <1>4, <1>5
<1> QED BY <1>1, <1>2, <1>3, <1>6 DEF a, q

(* The index of a character that belongs to the first m lines               *)
LEMMA BeforeLine ==
  ASSUME NEW L \in Nat, L > 0, NEW m \in Nat, NEW c \in 1 .. m * L
  PROVE  (c - 1) \div L \in 0 .. m - 1 /\ (c - 1) % L \in 0 .. L - 1
<1> DEFINE q == (c - 1) \div L
<1>1. m * L \in Nat /\ m * L = L * m /\ c \in Nat /\ c >= 1 /\ c <= L * m
  BY SMT
<1>2. q \in Int /\ (c - 1) % L \in 0 .. L - 1 /\ c - 1 = L * q + ((c - 1) % L) /\ L * q \in Int
  <2>1. c - 1 \in Int
    BY <1>1
  <2>2. q \in Int /\ (c - 1) % L \in 0 .. L - 1 /\ c - 1 = L * q + ((c - 1) % L)
    BY <2>1, DivMod
  <2> QED BY <2>2, SMT
<1> HIDE DEF q
<1>3. ~(q < 0)
  <2>1. SUFFICES ASSUME q < 0 PROVE FALSE
    OBVIOUS
  <2>2. L * q + L <= L * 0 /\ L * 0 = 0
    BY <1>2, <2>1, Multiples
  <2> QED BY <1>1, <1>2, <2>2
<1>4. ~(m <= q)
  <2>1. SUFFICES ASSUME m <= q PROVE FALSE
    OBVIOUS
  <2>2. m = q \/ L * m + L <= L * q
    BY <1>2, <2>1, Multiples
  <2> QED BY <1>1, <1>2, <2>2
<1> QED BY <1>2, <1>3, <1>4 DEF q

LEMMA LineLengthType == LineLength \in Nat /\ LineLength > 0
BY FifoAssumption DEF FifoAssumption

TextTyped ==
  \A m \in 0 .. Len(written) :
    Text(m) \in Seq(Char) /\ Len(Text(m)) = m * LineLength /\ m * LineLength \in Nat

LEMMA TextType == WrittenOK => TextTyped
<1> USE DEF TextTyped, WrittenOK
<1> SUFFICES ASSUME WrittenOK, NEW m \in 0 .. Len(written)
             PROVE  Text(m) \in Seq(Char) /\ Len(Text(m)) = m * LineLength /\ m * LineLength \in Nat
  OBVIOUS
<1>1. m \in Nat /\ m * LineLength \in Nat
  BY LineLengthType, SMT
<1>2. ASSUME NEW c \in 1 .. m * LineLength
      PROVE  LET l == written[1 + (c - 1) \div LineLength]
             IN  <<l[1], l[2], ((c - 1) % LineLength) + 1>> \in Char
  <2>1. (c - 1) \div LineLength \in 0 .. m - 1 /\ (c - 1) % LineLength \in 0 .. LineLength - 1
    BY <1>1, LineLengthType, BeforeLine
  <2> DEFINE d == (c - 1) \div LineLength
             e == (c - 1) % LineLength
  <2> HIDE DEF d, e
  <2>2. 1 + d \in 1 .. Len(written) /\ e + 1 \in Nat
    BY <2>1, LineLengthType DEF d, e
  <2>3. written[1 + d] \in Slaves \X Nat
    BY <2>2
  <2> QED BY <2>2, <2>3 DEF Char, d, e
<1>3. Text(m) \in [1 .. m * LineLength -> Char]
  BY <1>2 DEF Text
<1> QED BY <1>1, <1>3

LEMMA LineType ==
  ASSUME NEW s \in Slaves, NEW k0 \in Nat
  PROVE  Line(s, k0) \in Seq(Char) /\ Len(Line(s, k0)) = LineLength
<1>1. Line(s, k0) \in [1 .. LineLength -> Char]
  BY LineLengthType DEF Line, Char
<1> QED BY <1>1, LineLengthType

LEMMA SameText ==
  ASSUME WrittenOK, NEW s \in Slaves, NEW k0 \in Nat,
         written' = Append(written, <<s, k0>>), NEW m \in 0 .. Len(written)
  PROVE  Text(m)' = Text(m)
<1> USE DEF WrittenOK
<1>1. m \in Nat
  OBVIOUS
<1>2. ASSUME NEW c \in 1 .. m * LineLength
      PROVE  written'[1 + (c - 1) \div LineLength] = written[1 + (c - 1) \div LineLength]
  <2>1. (c - 1) \div LineLength \in 0 .. m - 1
    BY <1>1, LineLengthType, BeforeLine
  <2> DEFINE d == (c - 1) \div LineLength
  <2> HIDE DEF d
  <2>2. 1 + d \in 1 .. Len(written)
    BY <2>1 DEF d
  <2> QED BY <2>2 DEF d
<1> QED BY <1>2 DEF Text

LEMMA ShiftOne ==
  ASSUME NEW S, NEW s \in Seq(S), NEW t \in Seq(S), t # <<>>
  PROVE  Append(s, Head(t)) \o Tail(t) = s \o t
OBVIOUS

LEMMA Associate ==
  ASSUME NEW S, NEW s \in Seq(S), NEW t \in Seq(S), NEW u \in Seq(S)
  PROVE  s \o (t \o u) = (s \o t) \o u
OBVIOUS

LEMMA ConcatAt ==
  ASSUME NEW S, NEW s \in Seq(S), NEW t \in Seq(S), NEW c \in 1 .. Len(s) + Len(t)
  PROVE  (s \o t)[c] = IF c <= Len(s) THEN s[c] ELSE t[c - Len(s)]
OBVIOUS

LEMMA TextOfLine ==
  ASSUME WrittenOK, NEW s \in Slaves, NEW k0 \in Nat,
         written' = Append(written, <<s, k0>>)
  PROVE  Text(Len(written))' = Text(Len(written)) \o Line(s, k0)
<1> DEFINE m == Len(written)
           L == LineLength
           old == Text(m)
           new == Text(Len(written))'
<1>1. m \in Nat /\ L \in Nat /\ L > 0 /\ Len(written') = m + 1 /\ WrittenOK'
  BY LineLengthType DEF WrittenOK
<1>2. m * L \in Nat /\ m * L = L * m /\ (m + 1) * L = m * L + L
  BY <1>1, SMT
<1>3. old \in Seq(Char) /\ Len(old) = m * L
  BY TextType DEF TextTyped
<1>4. new = [c \in 1 .. (m + 1) * L |->
               LET l == written'[1 + (c - 1) \div L] IN <<l[1], l[2], ((c - 1) % L) + 1>>]
  BY <1>1 DEF Text
<1>5. old = [c \in 1 .. m * L |->
               LET l == written[1 + (c - 1) \div L] IN <<l[1], l[2], ((c - 1) % L) + 1>>]
  BY DEF Text
<1>6. Line(s, k0) \in Seq(Char) /\ Len(Line(s, k0)) = L /\ \A c \in 1 .. L : Line(s, k0)[c] = <<s, k0, c>>
  BY LineType DEF Line
<1> DEFINE both == old \o Line(s, k0)
<1>7. both \in Seq(Char) /\ Len(both) = m * L + L
  BY <1>2, <1>3, <1>6
<1>8. ASSUME NEW c \in 1 .. m * L + L
      PROVE  both[c] = IF c <= m * L THEN old[c] ELSE Line(s, k0)[c - m * L]
  <2> DEFINE b == m * L
             line1 == Line(s, k0)
  <2>1. b \in Nat /\ old \in Seq(Char) /\ Len(old) = b /\ line1 \in Seq(Char) /\ Len(line1) = L /\ c \in 1 .. b + L
    BY <1>2, <1>3, <1>6
  <2> HIDE DEF b, line1, old
  <2>2. (old \o line1)[c] = IF c <= b THEN old[c] ELSE line1[c - b]
    BY <1>1, <2>1, ConcatAt
  <2> QED BY <2>2 DEF b, line1
<1> HIDE DEF both, old, new
<1>9. ASSUME NEW c \in 1 .. m * L + L PROVE new[c] = both[c]
  <2>1. CASE c <= m * L
    <3>1. c \in 1 .. m * L /\ c \in 1 .. (m + 1) * L
      BY <1>1, <1>2, <2>1
    <3>2. (c - 1) \div L \in 0 .. m - 1
      BY <1>1, <3>1, BeforeLine
    <3> DEFINE d == (c - 1) \div L
    <3> HIDE DEF d
    <3>3. 1 + d \in 1 .. Len(written)
      BY <3>2 DEF d, WrittenOK
    <3>4. written'[1 + d] = written[1 + d]
      BY <3>3 DEF WrittenOK
    <3>5. new[c] = old[c]
      BY <1>4, <1>5, <3>1, <3>4 DEF d
    <3> QED BY <1>8, <2>1, <3>5
  <2>2. CASE ~(c <= m * L)
    <3> DEFINE r == c - 1 - m * L
    <3>1. r \in 0 .. L - 1 /\ c - 1 = L * m + r /\ c \in 1 .. (m + 1) * L
      BY <1>1, <1>2, <2>2
    <3> HIDE DEF r
    <3>2. (c - 1) \div L = m /\ (c - 1) % L = r
      BY <1>1, <3>1, InLine
    <3>3. written'[1 + m] = <<s, k0>>
      BY <1>1 DEF WrittenOK
    <3>4. new[c] = <<s, k0, r + 1>>
      BY <1>4, <3>1, <3>2, <3>3
    <3>5. c - m * L = r + 1 /\ c - m * L \in 1 .. L
      BY <1>1, <1>2, <2>2 DEF r
    <3>6. Line(s, k0)[c - m * L] = <<s, k0, r + 1>>
      BY <1>6, <3>5
    <3> QED BY <1>8, <2>2, <3>4, <3>6
  <2> QED BY <2>1, <2>2
<1>10. new \in Seq(Char) /\ Len(new) = m * L + L
  <2>1. new \in Seq(Char) /\ Len(new) = (m + 1) * L
    <3>1. TextTyped'
      BY <1>1, TextType, PTL
    <3> QED BY <1>1, <3>1 DEF new, TextTyped
  <2> QED BY <1>2, <2>1
<1>11. new = both
  BY <1>7, <1>9, <1>10
<1> QED BY <1>11 DEF new, both, old

-----------------------------------------------------------------------------
LEMMA PipesType ==
  FifoTypes => /\ pipes \in Pipes /\ name \in Pipes
               /\ name = 0 => pipes + 1 \in Pipes
<1> SUFFICES ASSUME FifoTypes
             PROVE  pipes \in Pipes /\ name \in Pipes /\ (name = 0 => pipes + 1 \in Pipes)
  BY DEF FifoTypes
<1>1. MaxMasters \in Nat /\ Removals \in Int /\ Removals <= MaxMasters
  BY FifoAssumption DEF FifoAssumption, FifoTypes, Removals, MasterPC
<1> QED BY <1>1 DEF FifoTypes, Pipes

LEMMA FifoInitInv == FifoInit => FifoInv
<1> SUFFICES ASSUME FifoInit PROVE FifoInv
  OBVIOUS
<1>1. n \in [Slaves -> Nat] /\ MaxMasters \in Nat
  BY FifoAssumption DEF FifoAssumption, FifoInit
<1>2. FifoTypes
  BY <1>1 DEF FifoInit, FifoTypes, MasterPC, Removals, WrittenOK, Pipes
<1>3. PipesInv /\ TextInv
  BY DEF FifoInit, PipesInv, TextInv
<1> QED BY <1>2, <1>3 DEF FifoInv

(* mkfifo, by whoever comes first                                           *)
LEMMA MakeFifoInv ==
  ASSUME FifoTypes, PipesInv, MakeFifo, UNCHANGED chars
  PROVE  /\ name' \in Nat \ {0} /\ pipes' \in Nat /\ name' <= pipes'
         /\ pipes' <= Removals + 1
         /\ \A p \in Pipes : p > pipes' => chars[p] = <<>>
         /\ name # 0 => name' = name
         /\ name = 0 => chars[name'] = <<>>
<1>1. CASE name = 0
  <2>1. pipes + 1 \in Pipes /\ pipes \in Nat /\ name' = pipes + 1 /\ pipes' = pipes + 1
    BY <1>1, PipesType DEF MakeFifo, FifoTypes
  <2>2. Removals \in Int /\ pipes <= Removals
    BY <1>1 DEF FifoTypes, Removals
  <2> QED BY <1>1, <2>1, <2>2 DEF PipesInv, Pipes
<1>2. CASE name # 0
  <2>1. Removals \in Int
    BY DEF FifoTypes, Removals
  <2> QED BY <1>2, <2>1 DEF MakeFifo, FifoTypes, PipesInv
<1> QED BY <1>1, <1>2

LEMMA StartMasterInv == FifoInv /\ StartMaster => FifoInv'
<1> SUFFICES ASSUME FifoInv, StartMaster PROVE FifoInv'
  OBVIOUS
<1> USE DEF FifoInv
<1>1. /\ name' \in Nat \ {0} /\ pipes' \in Nat /\ name' <= pipes' /\ pipes' <= Removals + 1
      /\ \A p \in Pipes : p > pipes' => chars[p] = <<>>
      /\ name # 0 => name' = name
      /\ name = 0 => chars[name'] = <<>>
  BY MakeFifoInv DEF StartMaster
<1>2. Removals' = Removals
  BY DEF Removals, StartMaster, FifoTypes
<1>3. FifoTypes'
  BY <1>1, <1>2, FifoAssumption DEF FifoAssumption, StartMaster, FifoTypes, MasterPC, WrittenOK, slave
<1>4. PipesInv'
  BY <1>1 DEF StartMaster, PipesInv, Pipes
<1>5. TextInv'
  BY DEF StartMaster, TextInv
<1> QED BY <1>3, <1>4, <1>5

LEMMA StartSlaveInv ==
  ASSUME FifoInv, NEW s \in Slaves, StartSlave(s)
  PROVE  FifoInv'
<1> USE DEF FifoInv
<1>1. /\ name' \in Nat \ {0} /\ pipes' \in Nat /\ name' <= pipes' /\ pipes' <= Removals + 1
      /\ \A p \in Pipes : p > pipes' => chars[p] = <<>>
      /\ name # 0 => name' = name
      /\ name = 0 => chars[name'] = <<>>
  BY MakeFifoInv DEF StartSlave
<1>2. Removals' = Removals
  BY DEF Removals, StartSlave, master
<1>3. FifoTypes'
  BY <1>1, <1>2 DEF StartSlave, FifoTypes, MasterPC, WrittenOK, master
<1>4. PipesInv'
  BY <1>1 DEF StartSlave, PipesInv, master, Pipes, FifoTypes, MasterPC
<1>5. TextInv'
  BY DEF StartSlave, TextInv, Text, master
<1> QED BY <1>3, <1>4, <1>5

LEMMA MasterOpensInv == FifoInv /\ (MasterOpen \/ MasterOpened) => FifoInv'
<1> SUFFICES ASSUME FifoInv, MasterOpen \/ MasterOpened PROVE FifoInv'
  OBVIOUS
<1> USE DEF FifoInv
<1>1. UNCHANGED <<name, pipes, chars, masters, output, at_eof, slave, written>>
  BY DEF MasterOpen, MasterOpened, pipe
<1>2. FifoTypes'
  BY <1>1 DEF MasterOpen, MasterOpened, FifoTypes, MasterPC, Removals, WrittenOK, slave
<1>3. PipesInv'
  BY <1>1 DEF MasterOpen, MasterOpened, PipesInv
<1>4. TextInv'
  <2>1. CASE MasterOpen
    <3>1. output = <<>> /\ written = <<>> /\ at_eof = -1 /\ chars[name] = <<>>
      BY <2>1 DEF MasterOpen, TextInv, PipesInv
    <3>2. Text(Len(written)) = <<>>
      BY <3>1, LineLengthType DEF Text
    <3>3. output' \o chars'[master_fd'] = Text(Len(written))'
      BY <1>1, <2>1, <3>1, <3>2 DEF MasterOpen, Text
    <3> QED BY <1>1, <2>1, <3>1, <3>3 DEF MasterOpen, TextInv
  <2>2. CASE MasterOpened
    BY <1>1, <2>2 DEF MasterOpened, TextInv, Text
  <2> QED BY <2>1, <2>2
<1> QED BY <1>2, <1>3, <1>4

LEMMA MasterReadsInv == FifoInv /\ MasterReads => FifoInv'
<1> SUFFICES ASSUME FifoInv, MasterReads PROVE FifoInv'
  OBVIOUS
<1> USE DEF FifoInv
<1> DEFINE full == chars[master_fd]
<1>0. master_fd \in Pipes /\ full \in Seq(Char) /\ output \in Seq(Char)
  BY PipesType DEF MasterReads, PipesInv, FifoTypes
<1>1. CASE full # <<>>
  <2>1. /\ output' = Append(output, Head(full)) /\ chars' = [chars EXCEPT ![master_fd] = Tail(full)]
        /\ UNCHANGED <<name, pipes, master_fd, masters, slave, written, master_pc, at_eof>>
    BY <1>1 DEF MasterReads
  <2> HIDE DEF full
  <2>2. Tail(full) \in Seq(Char) /\ Append(output, Head(full)) \in Seq(Char)
    BY <1>0, <1>1
  <2>3. Append(output, Head(full)) \o Tail(full) = output \o full
    BY <1>0, <1>1, ShiftOne
  <2>4. FifoTypes'
    BY <1>0, <2>1, <2>2 DEF FifoTypes, MasterPC, Removals, WrittenOK, slave
  <2>5. chars'[master_fd] = Tail(full) /\ \A p \in Pipes : p # master_fd => chars'[p] = chars[p]
    BY <1>0, <2>1 DEF FifoTypes
  <2>6. master_pc = "read" /\ master_fd = name /\ name <= pipes
    BY DEF MasterReads, PipesInv, FifoTypes
  <2>7. PipesInv'
    BY <2>1, <2>5, <2>6 DEF PipesInv, FifoTypes, Pipes
  <2>8. TextInv'
    BY <2>1, <2>3, <2>5, <2>6 DEF TextInv, Text, full
  <2> QED BY <2>4, <2>7, <2>8
<1>2. CASE full = <<>>
  <2>1. /\ master_pc = "read" /\ master_pc' = "close" /\ at_eof' = Len(written)
        /\ UNCHANGED <<name, pipes, chars, master_fd, masters, slave, written, output>>
    BY <1>2 DEF MasterReads
  <2>2. output \o <<>> = output /\ Len(written) \in Nat
    BY <1>0 DEF FifoTypes, WrittenOK
  <2>3. output = Text(Len(written))
    BY <1>2, <2>1, <2>2 DEF TextInv
  <2>4. FifoTypes'
    BY <2>1, <2>2 DEF FifoTypes, MasterPC, Removals, WrittenOK, slave
  <2>5. PipesInv'
    BY <2>1 DEF PipesInv
  <2>6. output' = Text(at_eof)'
    BY <2>1, <2>3 DEF Text
  <2>7. TextInv'
    BY <2>1, <2>2, <2>6 DEF TextInv
  <2> QED BY <2>4, <2>5, <2>7
<1> QED BY <1>1, <1>2

LEMMA MasterEndsInv == FifoInv /\ (MasterClose \/ Unlink) => FifoInv'
<1> SUFFICES ASSUME FifoInv, MasterClose \/ Unlink PROVE FifoInv'
  OBVIOUS
<1> USE DEF FifoInv
<1>1. UNCHANGED <<pipes, masters, output, at_eof, slave, written, master_fd>>
  BY DEF MasterClose, Unlink
<1>2. /\ master_pc' \in {"unlink", "exited"}
      /\ master_pc' = "unlink" => UNCHANGED name
      /\ master_pc' = "exited" => name' = 0 /\ UNCHANGED chars
      /\ master_pc \in {"close", "unlink"} /\ master_fd = name /\ name \in Pipes
  BY PipesType DEF MasterClose, Unlink, PipesInv
<1>3. /\ chars' \in [Pipes -> Seq(Char)]
      /\ \A p \in Pipes : chars'[p] = chars[p] \/ chars'[p] = <<>>
  <2>1. CASE MasterClose
    <3>1. chars' = [chars EXCEPT ![master_fd] = <<>>] \/ chars' = chars
      BY <2>1 DEF MasterClose
    <3>2. <<>> \in Seq(Char)
      OBVIOUS
    <3> QED BY <3>1, <3>2 DEF FifoTypes
  <2>2. CASE Unlink
    BY <2>2 DEF Unlink, FifoTypes
  <2> QED BY <2>1, <2>2
<1>4. name' \in Nat /\ name' <= pipes' /\ pipes' <= Removals' + (IF name' = 0 THEN 0 ELSE 1)
  <2>1. CASE MasterClose
    BY <2>1 DEF MasterClose, FifoTypes, Removals
  <2>2. CASE Unlink
    BY <1>2, <2>2 DEF Unlink, FifoTypes, Removals, PipesInv
  <2> QED BY <2>1, <2>2
<1>5. FifoTypes'
  BY <1>1, <1>2, <1>3, <1>4 DEF FifoTypes, MasterPC, WrittenOK, slave
<1>6. PipesInv'
  BY <1>1, <1>2, <1>3 DEF PipesInv
<1>7. TextInv'
  BY <1>1, <1>2 DEF TextInv, Text
<1> QED BY <1>5, <1>6, <1>7

(* The steps of a slave that writes nothing                                 *)
LEMMA SlaveQuiet ==
  ASSUME FifoInv, UNCHANGED <<pipe, master, n, written>>, slave_fd' \in [Slaves -> Nat]
  PROVE  FifoInv'
<1> USE DEF FifoInv
<1>1. FifoTypes'
  BY DEF FifoTypes, MasterPC, Removals, WrittenOK, pipe, master
<1>2. PipesInv' /\ TextInv'
  BY DEF PipesInv, TextInv, Text, pipe, master
<1> QED BY <1>1, <1>2

LEMMA WriteLineInv ==
  ASSUME FifoInv, NEW s \in Slaves, WriteLine(s)
  PROVE  FifoInv'
<1> USE DEF FifoInv
<1>1. CASE ~Readers(slave_fd[s])
  <2>1. UNCHANGED <<pipe, master, n, written, slave_fd>>
    BY <1>1 DEF WriteLine, pipe
  <2> QED BY <2>1, SlaveQuiet DEF FifoTypes
<1>2. CASE Readers(slave_fd[s])
  <2> DEFINE line1 == Line(s, n[s])
             full == chars[master_fd]
  <2>1. /\ slave_fd[s] = master_fd /\ master_pc \in {"opening", "read", "close"}
        /\ master_fd = name /\ name # 0 /\ name \in Pipes /\ name <= pipes
    BY <1>2, PipesType DEF Readers, PipesInv, FifoTypes
  <2>2. /\ chars' = [chars EXCEPT ![master_fd] = full \o line1]
        /\ n' = [n EXCEPT ![s] = n[s] - 1] /\ written' = Append(written, <<s, n[s]>>)
        /\ UNCHANGED <<name, pipes, master, slave_fd, slave_pc>>
    BY <1>2, <2>1 DEF WriteLine, Write, Put
  <2>3. n[s] \in Nat /\ n[s] > 0 /\ full \in Seq(Char) /\ output \in Seq(Char)
    BY <2>1 DEF WriteLine, FifoTypes
  <2>4. line1 \in Seq(Char) /\ full \o line1 \in Seq(Char)
    BY <2>3, LineType
  <2>5. WrittenOK' /\ Len(written') = Len(written) + 1 /\ Len(written) \in Nat
    BY <2>2, <2>3 DEF FifoTypes, WrittenOK
  <2>6. FifoTypes'
    BY <2>1, <2>2, <2>3, <2>4, <2>5 DEF FifoTypes, MasterPC, Removals, master
  <2>7. chars'[master_fd] = full \o line1 /\ \A p \in Pipes : p # master_fd => chars'[p] = chars[p]
    BY <2>1, <2>2 DEF FifoTypes
  <2>8. PipesInv'
    BY <2>1, <2>2, <2>7 DEF PipesInv, FifoTypes, Pipes, master
  <2>9. ASSUME master_pc \in {"opening", "read"}
        PROVE  output \o (full \o line1) = Text(Len(written))'
    <3>1. output \o full = Text(Len(written))
      BY <2>9 DEF TextInv
    <3>2. Text(Len(written))' = Text(Len(written)) \o line1
      BY <2>2, <2>3, TextOfLine DEF FifoTypes
    <3>3. output \o (full \o line1) = (output \o full) \o line1
      <4> HIDE DEF full, line1
      <4> QED BY <2>3, <2>4, Associate
    <3> QED BY <3>1, <3>2, <3>3
  <2>10. ASSUME at_eof # -1 PROVE at_eof \in 0 .. Len(written') /\ Text(at_eof)' = Text(at_eof)
    <3>1. at_eof \in 0 .. Len(written)
      BY <2>10 DEF TextInv
    <3>2. \A m \in 0 .. Len(written) : Text(m)' = Text(m)
      BY <2>2, <2>3, SameText DEF FifoTypes
    <3>3. at_eof' = at_eof
      BY <2>2 DEF master
    <3>4. Text(at_eof)' = Text(at_eof)
      BY <3>1, <3>2, <3>3 DEF Text
    <3> QED BY <2>5, <3>1, <3>4
  <2>11. TextInv'
    BY <2>1, <2>2, <2>7, <2>9, <2>10 DEF TextInv, master
  <2> QED BY <2>6, <2>8, <2>11
<1> QED BY <1>1, <1>2

LEMMA FifoNextInv == FifoInv /\ [FifoNext]_fifo_vars => FifoInv'
<1> SUFFICES ASSUME FifoInv, [FifoNext]_fifo_vars PROVE FifoInv'
  OBVIOUS
<1>1. ASSUME NEW s \in Slaves, SlaveOpen(s) \/ SlaveOpenFails(s) \/ SlaveOpened(s) \/ SlaveClose(s)
      PROVE  FifoInv'
  <2>1. UNCHANGED <<pipe, master, n, written>>
    BY <1>1 DEF SlaveOpen, SlaveOpenFails, SlaveOpened, SlaveClose
  <2>2. slave_fd' \in [Slaves -> Nat]
    BY <1>1 DEF SlaveOpen, SlaveOpenFails, SlaveOpened, SlaveClose, FifoInv, FifoTypes
  <2> QED BY <2>1, <2>2, SlaveQuiet
<1>2. CASE UNCHANGED fifo_vars
  BY <1>2, SlaveQuiet DEF fifo_vars, slave, FifoInv, FifoTypes
<1> QED BY <1>1, <1>2, StartMasterInv, StartSlaveInv, MasterOpensInv, MasterReadsInv, MasterEndsInv,
           WriteLineInv DEF FifoNext, MasterStep

(* master prints, of the lines the slaves write, each whole and in the      *)
(* order in which they are written, and misses none that was written before *)
(* it found the end of the pipe: for any number of slaves and lines, and    *)
(* however often master is started.                                         *)
THEOREM PrintedCorrect == FifoSpec => []PrintedIsWritten
<1>1. FifoSpec => []FifoInv
  BY FifoInitInv, FifoNextInv, PTL DEF FifoSpec
<1>2. FifoInv => PrintedIsWritten
  BY DEF FifoInv, TextInv, PrintedIsWritten
<1> QED BY <1>1, <1>2, PTL

-----------------------------------------------------------------------------
(* All of it, of the program that runs in module Exercises                 *)

LEMMA EachProgram == Spec => WatchSpec /\ FilterSpec /\ RecordsSpec /\ FifoSpec
<1>1. Init => WatchInit /\ FilterInit /\ RecordsInit /\ FifoInit
  BY DEF Init
<1>2. [Next]_vars => [WatchNext]_watch_vars
  BY DEF Next, vars, programs
<1>3. [Next]_vars => [FilterNext]_filter_vars
  BY DEF Next, vars, programs
<1>4. [Next]_vars => [RecordsNext]_records_vars
  BY DEF Next, vars, programs
<1>5. [Next]_vars => [FifoNext]_fifo_vars
  BY DEF Next, vars, programs
<1> QED BY <1>1, <1>2, <1>3, <1>4, <1>5, PTL DEF Spec, WatchSpec, FilterSpec, RecordsSpec, FifoSpec

(* What TLC checks of the small programs on one instance holds of them for  *)
(* all values of the constants, but for the liveness properties.            *)
THEOREM ExercisesCorrect ==
  Spec => /\ [](ReportedCopies /\ ColumnsDivided /\ RecordsKept /\ PrintedIsWritten)
          /\ ReadIsKept /\ OutOfStepOnlyByMerging
BY EachProgram, ReportedCorrect, FilterCorrect, RecordsCorrect, PrintedCorrect, ReadIsKeptCorrect,
   InStepCorrect, PTL
=============================================================================
