------------------------------- MODULE Watch --------------------------------
(***************************************************************************)
(* A monitor starts a watcher for every file of a list; a watcher keeps    *)
(* what is overwritten in the file.  build tells three programs apart:     *)
(*   "signals"  cw04/zad2: the user stops, starts and ends watchers;       *)
(*   "memory"   cw03/zad2, mode 1: watchers poll for a given time;         *)
(*   "cp"       cw03/zad2, mode 2: the same, and cp(1) makes the copies.   *)
(* cw03/zad3 is cw03/zad2 with resource limits.                            *)
(*                                                                         *)
(* The contents of a file are numbered; 0 is the contents of a copy that   *)
(* has been opened and not yet written.  A watcher polls the date of the   *)
(* last modification, whose unit is a second, and reads the file after it. *)
(***************************************************************************)
EXTENDS Integers, FiniteSets

CONSTANTS
  Builds,        \* the programs, one of them runs
  nproc,         \* the files of the list
  Polls,         \* times a watcher of cw03 looks at its file
  StatusWidth,   \* an exit status is 0 .. StatusWidth - 1
  MaxTime, MaxVersion, MaxCommands  \* bounds

ASSUME WatchAssumption ==
  /\ Builds \subseteq {"signals", "memory", "cp"}
  /\ {nproc, Polls, MaxTime, MaxVersion} \subseteq Nat \ {0}
  /\ StatusWidth \in Nat /\ StatusWidth > 2
  /\ MaxCommands \in Nat

VARIABLES
  build,
  now,           \* the time in seconds
  file,          \* the contents and date of each file; date 0: removed
  watch_pc,      \* where each watcher is
  active,        \* the flag of each watcher
  pending,       \* the signals it has still to handle
  mtime, last_mtime, buffer, copies,  \* its variables
  polls,         \* times it has looked
  cps,           \* the processes cp that run: <<watcher, date>>
  archive,       \* the directory archiwum: <<watcher, date>> to contents
  status,        \* exit status of each watcher, Running or Killed
  monitor_pc,    \* where monitor is
  i,             \* its loop variable
  proc_active,   \* what proclist says of each watcher
  commands,      \* commands the user has typed
  reported       \* "Proces ... utworzył ... kopii": the number, or -1

files == <<now, file, archive>>
watcher == <<watch_pc, active, pending, mtime, last_mtime, buffer, copies, polls, status>>
monitor == <<monitor_pc, i, proc_active, commands, reported>>
watch_vars == <<build, files, cps, watcher, monitor>>

Watchers == 1 .. nproc

Running == -1
Killed == -2
EXIT_FAILURE == 1

WatchInit ==
  /\ build \in Builds
  /\ now = 1
  /\ file = [w \in Watchers |-> [version |-> 1, date |-> 1]]
  /\ watch_pc = [w \in Watchers |-> "unborn"]
  /\ active = [w \in Watchers |-> TRUE]
  /\ pending = [w \in Watchers |-> {}]
  /\ mtime = [w \in Watchers |-> 0]
  /\ last_mtime = [w \in Watchers |-> 0]
  /\ buffer = [w \in Watchers |-> 0]
  /\ copies = [w \in Watchers |-> 0]
  /\ polls = [w \in Watchers |-> 0]
  /\ cps = {}
  /\ archive = [c \in {} |-> 0]
  /\ status = [w \in Watchers |-> Running]
  /\ monitor_pc = "spawn"
  /\ i = 1
  /\ proc_active = [w \in Watchers |-> FALSE]
  /\ commands = 0
  /\ reported = [w \in Watchers |-> -1]

Alive(w) == watch_pc[w] \notin {"unborn", "exited", "failed", "killed"}

(* A process with a signal pending handles it before it does anything else. *)
At(w, label) == watch_pc[w] = label /\ pending[w] = {}

Goto(w, label) == watch_pc' = [watch_pc EXCEPT ![w] = label]

Raise(targets, signal) ==
  pending' = [w \in Watchers |->
                IF w \in targets /\ Alive(w) THEN pending[w] \cup {signal} ELSE pending[w]]

-----------------------------------------------------------------------------
(* The world outside                                                       *)

Tick ==
  /\ now < MaxTime
  /\ now' = now + 1
  /\ UNCHANGED <<build, file, archive, cps, watcher, monitor>>

(* tester.c appends a line with one write.                                  *)
Modify(w) ==
  /\ file[w].date # 0 /\ file[w].version < MaxVersion
  /\ file' = [file EXCEPT ![w] = [version |-> @.version + 1, date |-> now]]
  /\ UNCHANGED <<build, now, archive, cps, watcher, monitor>>

Remove(w) ==
  /\ file[w].date # 0
  /\ file' = [file EXCEPT ![w].date = 0]
  /\ UNCHANGED <<build, now, archive, cps, watcher, monitor>>

(* A copy replaces one of the same name.                                    *)
Store(c, version) ==
  archive' = [d \in DOMAIN archive \cup {c} |-> IF d = c THEN version ELSE archive[d]]

(* "cp rpath copypath", which runs next to the watcher that started it.      *)
CpRuns(c) ==
  /\ c \in cps
  /\ cps' = cps \ {c}
  /\ IF file[c[1]].date # 0 THEN Store(c, file[c[1]].version) ELSE UNCHANGED archive
  /\ UNCHANGED <<build, now, file, watcher, monitor>>

-----------------------------------------------------------------------------
(* watch.c                                                                 *)

End(w, label, code) ==
  /\ Goto(w, label)
  /\ status' = [status EXCEPT ![w] = code]
  /\ pending' = [pending EXCEPT ![w] = {}]

(* exit(copies): "return number of copies as status code"                   *)
Exit(w) == End(w, "exited", copies[w] % StatusWidth)

Fail(w) == End(w, "failed", EXIT_FAILURE)

(* Until its handlers are registered a signal kills the watcher.            *)
Register(w) ==
  /\ At(w, "register")
  /\ Goto(w, "test")
  /\ UNCHANGED <<build, files, cps, active, pending, mtime, last_mtime, buffer, copies, polls,
                 status, monitor>>

(* Mistake: pause() is restarted after the handler.                         *)
HandleToggle_restarts(w) ==
  /\ "USR1" \in pending[w]
  /\ active' = [active EXCEPT ![w] = ~@]
  /\ pending' = [pending EXCEPT ![w] = @ \ {"USR1"}]
  /\ UNCHANGED <<watch_pc, status>>

(* handle_sigusr1, which ends pause() if it interrupts it.                  *)
HandleToggle(w) ==
  /\ "USR1" \in pending[w]
  /\ active' = [active EXCEPT ![w] = ~@]
  /\ pending' = [pending EXCEPT ![w] = @ \ {"USR1"}]
  /\ watch_pc' = IF watch_pc[w] = "paused" THEN [watch_pc EXCEPT ![w] = "test"] ELSE watch_pc
  /\ UNCHANGED status

(* handle_sigterm, registered for SIGINT.                                   *)
HandleEnd(w) ==
  /\ "INT" \in pending[w]
  /\ Exit(w)
  /\ UNCHANGED active

Handle(w) ==
  /\ pending[w] # {}
  /\ IF watch_pc[w] = "register" THEN End(w, "killed", Killed) /\ UNCHANGED active
                                 ELSE HandleToggle(w) \/ HandleEnd(w)
  /\ UNCHANGED <<build, files, cps, mtime, last_mtime, buffer, copies, polls, monitor>>

(* "while (active)" and "while (duration >= 0)"                             *)
TestLoop(w) ==
  /\ At(w, "test")
  /\ IF build = "signals"
       THEN Goto(w, IF active[w] THEN "stat" ELSE "pause") /\ UNCHANGED <<status, pending>>
     ELSE IF polls[w] < Polls THEN Goto(w, "stat") /\ UNCHANGED <<status, pending>>
     ELSE Exit(w)
  /\ UNCHANGED <<build, files, cps, active, mtime, last_mtime, buffer, copies, polls, monitor>>

(* Mistake: whether there is a buffer is told by the number of copies.      *)
HasBuffer_counted(w) == copies[w] # 0

HasBuffer(w) == last_mtime[w] # 0

(* get_file_mtime and the two tests of what it has found                    *)
Stat(w) ==
  /\ At(w, "stat")
  /\ LET date == file[w].date IN
     IF date = 0 THEN Fail(w) /\ UNCHANGED mtime
     ELSE /\ mtime' = [mtime EXCEPT ![w] = date]
          /\ Goto(w, IF date = last_mtime[w] THEN "sleep"
                     ELSE IF build = "cp" THEN "fork"
                     ELSE IF HasBuffer(w) THEN "create" ELSE "read")
          /\ UNCHANGED <<status, pending>>
  /\ UNCHANGED <<build, files, cps, active, last_mtime, buffer, copies, polls, monitor>>

(* The copy has the date of the contents that replace it.                   *)
CreateCopy(w) ==
  /\ At(w, "create")
  /\ Store(<<w, mtime[w]>>, 0)
  /\ Goto(w, "write")
  /\ UNCHANGED <<build, now, file, cps, active, pending, mtime, last_mtime, buffer, copies, polls,
                 status, monitor>>

WriteCopy(w) ==
  /\ At(w, "write")
  /\ Store(<<w, mtime[w]>>, buffer[w])
  /\ Goto(w, "count")
  /\ UNCHANGED <<build, now, file, cps, active, pending, mtime, last_mtime, buffer, copies, polls,
                 status, monitor>>

(* Mistake: what is read first is counted too.                              *)
CountCopy_twice(w) ==
  /\ At(w, "count")
  /\ copies' = [copies EXCEPT ![w] = @ + (IF @ = 0 THEN 2 ELSE 1)]
  /\ Goto(w, "read")
  /\ UNCHANGED <<build, files, cps, active, pending, mtime, last_mtime, buffer, polls, status,
                 monitor>>

CountCopy(w) ==
  /\ At(w, "count")
  /\ copies' = [copies EXCEPT ![w] = @ + 1]
  /\ Goto(w, "read")
  /\ UNCHANGED <<build, files, cps, active, pending, mtime, last_mtime, buffer, polls, status,
                 monitor>>

(* "read new version", which need not be the one that has been dated.        *)
ReadFile(w) ==
  /\ At(w, "read")
  /\ last_mtime' = [last_mtime EXCEPT ![w] = mtime[w]]
  /\ IF file[w].date = 0 THEN Fail(w) /\ UNCHANGED buffer
     ELSE /\ buffer' = [buffer EXCEPT ![w] = file[w].version]
          /\ Goto(w, "sleep")
          /\ UNCHANGED <<status, pending>>
  /\ UNCHANGED <<build, files, cps, active, mtime, copies, polls, monitor>>

(* mode_exec_cp counts a copy when cp has been started.                     *)
ForkCp(w) ==
  /\ At(w, "fork")
  /\ last_mtime' = [last_mtime EXCEPT ![w] = mtime[w]]
  /\ cps' = cps \cup {<<w, mtime[w]>>}
  /\ copies' = [copies EXCEPT ![w] = @ + 1]
  /\ Goto(w, "sleep")
  /\ UNCHANGED <<build, files, active, pending, mtime, buffer, polls, status, monitor>>

(* A signal ends the sleep early; the length of any sleep is left open.     *)
Sleep(w) ==
  /\ At(w, "sleep")
  /\ polls' = IF build = "signals" THEN polls ELSE [polls EXCEPT ![w] = @ + 1]
  /\ Goto(w, "test")
  /\ UNCHANGED <<build, files, cps, active, pending, mtime, last_mtime, buffer, copies, status,
                 monitor>>

(* What has been handled before pause() does not end it.                    *)
Pause(w) ==
  /\ At(w, "pause")
  /\ Goto(w, "paused")
  /\ UNCHANGED <<build, files, cps, active, pending, mtime, last_mtime, buffer, copies, polls,
                 status, monitor>>

WatchStep(w) ==
  \/ Register(w) \/ Handle(w) \/ TestLoop(w) \/ Stat(w) \/ CreateCopy(w) \/ WriteCopy(w)
  \/ CountCopy(w) \/ ReadFile(w) \/ ForkCp(w) \/ Sleep(w) \/ Pause(w)

-----------------------------------------------------------------------------
(* monitor.c                                                               *)

(* vfork and execlp; SIGINT is handled when all watchers have been started. *)
Spawn ==
  /\ monitor_pc = "spawn" /\ i <= nproc
  /\ Goto(i, IF build = "signals" THEN "register" ELSE "test")
  /\ proc_active' = [proc_active EXCEPT ![i] = TRUE]
  /\ i' = i + 1
  /\ UNCHANGED <<build, files, cps, active, pending, mtime, last_mtime, buffer, copies, polls,
                 status, monitor_pc, commands, reported>>

SpawnedAll ==
  /\ monitor_pc = "spawn" /\ i > nproc
  /\ monitor_pc' = IF build = "signals" THEN "command" ELSE "wait"
  /\ UNCHANGED <<build, files, cps, watcher, i, proc_active, commands, reported>>

(* Mistake: a watcher is told what it has been told before.                 *)
ToldOtherwise_always(w, on) == TRUE

ToldOtherwise(w, on) == proc_active[w] # on

(* set and set_all: START and STOP of one watcher or of all                 *)
Set(targets, on) ==
  /\ monitor_pc = "command" /\ commands < MaxCommands
  /\ commands' = commands + 1
  /\ LET told == {w \in targets : ToldOtherwise(w, on)} IN
     /\ proc_active' = [w \in Watchers |-> IF w \in told THEN on ELSE proc_active[w]]
     /\ Raise(told, "USR1")
  /\ UNCHANGED <<build, files, cps, watch_pc, active, mtime, last_mtime, buffer, copies, polls,
                 status, monitor_pc, i, reported>>

EndCommand ==
  /\ monitor_pc = "command"
  /\ monitor_pc' = "end" /\ i' = 1
  /\ UNCHANGED <<build, files, cps, watcher, proc_active, commands, reported>>

(* "Cannot read command": the watchers are left behind.                     *)
EndOfInput ==
  /\ monitor_pc = "command"
  /\ monitor_pc' = "failed"
  /\ UNCHANGED <<build, files, cps, watcher, i, proc_active, commands, reported>>

(* Control-C at the terminal goes to the watchers too.                      *)
ControlC ==
  /\ build = "signals" /\ monitor_pc \in {"spawn", "command"}
  /\ monitor_pc' = IF monitor_pc = "command" THEN "end" ELSE "killed"
  /\ i' = 1
  /\ Raise(Watchers, "INT")
  /\ UNCHANGED <<build, files, cps, watch_pc, active, mtime, last_mtime, buffer, copies, polls,
                 status, proc_active, commands, reported>>

(* end(): kill, and then waitpid and the report, one watcher at a time.     *)
KillWatcher ==
  /\ monitor_pc = "end" /\ i <= nproc
  /\ Raise({i}, "INT")
  /\ monitor_pc' = "waitpid"
  /\ UNCHANGED <<build, files, cps, watch_pc, active, mtime, last_mtime, buffer, copies, polls,
                 status, i, proc_active, commands, reported>>

(* WIFEXITED and WEXITSTATUS                                                *)
Report(w) == reported' = [reported EXCEPT ![w] = IF status[w] = Killed THEN -1 ELSE status[w]]

WaitPid ==
  /\ monitor_pc = "waitpid" /\ status[i] # Running
  /\ Report(i)
  /\ i' = i + 1
  /\ monitor_pc' = IF i = nproc THEN "done" ELSE "end"
  /\ UNCHANGED <<build, files, cps, watcher, proc_active, commands>>

(* cw03: wait takes the watchers in any order, until there is none.         *)
Wait(w) ==
  /\ monitor_pc = "wait" /\ status[w] # Running /\ reported[w] = -1
  /\ Report(w)
  /\ UNCHANGED <<build, files, cps, watcher, monitor_pc, i, proc_active, commands>>

WaitedForAll ==
  /\ monitor_pc = "wait" /\ \A w \in Watchers : reported[w] # -1
  /\ monitor_pc' = "done"
  /\ UNCHANGED <<build, files, cps, watcher, i, proc_active, commands, reported>>

MonitorStep == Spawn \/ SpawnedAll \/ KillWatcher \/ WaitPid \/ WaitedForAll

-----------------------------------------------------------------------------
WatchNext ==
  \/ Tick
  \/ MonitorStep
  \/ EndCommand \/ EndOfInput \/ ControlC
  \/ \E w \in Watchers : Modify(w) \/ Remove(w) \/ WatchStep(w) \/ Wait(w)
  \/ \E c \in cps : CpRuns(c)
  \/ \E on \in BOOLEAN : Set(Watchers, on) \/ \E w \in Watchers : Set({w}, on)

WatchSpec == WatchInit /\ [][WatchNext]_watch_vars

-----------------------------------------------------------------------------
(* What a watcher has read is in the archive before it reads again.         *)
ReadIsKept ==
  [][\A w \in Watchers :
       buffer[w] # 0 /\ buffer'[w] # buffer[w] =>
         \E c \in DOMAIN archive : c[1] = w /\ archive[c] = buffer[w]]_watch_vars

(* What proclist says of a watcher is what the watcher does once it has     *)
(* handled the signal that may be on its way.                               *)
InStep(w) == Alive(w) => (proc_active[w] <=> (active[w] <=> "USR1" \notin pending[w]))

(* SIGUSR1 toggles.  A watcher gets out of step with the list only when it  *)
(* is told again before it has handled what it was told last.               *)
OutOfStepOnlyByMerging ==
  [][\A w \in Watchers : InStep(w) /\ ~InStep(w)' => "USR1" \in pending[w]]_watch_vars

(* A watcher that stays active looks at its file again and again, unless    *)
(* it was started between its test of active and pause().                   *)
StartedWatcherPolls ==
  \A w \in Watchers :
    build = "signals" /\ <>[](Alive(w) /\ active[w]) =>
      []<>(watch_pc[w] = "stat") \/ <>(watch_pc[w] = "pause" /\ active[w])

CopiesOf(w) == {c \in DOMAIN archive \cup cps : c[1] = w}

(* "return number of copies as status code": the number reported is that of *)
(* the copies in the archive, as far as a status can hold it.  A watcher    *)
(* that is ended in between has not counted its last copy, and cp may fail. *)
ReportedCopies ==
  \A w \in Watchers : reported[w] >= 0 /\ watch_pc[w] = "exited" =>
    LET n == Cardinality(CopiesOf(w)) IN
    \/ reported[w] = n % StatusWidth
    \/ build = "signals" /\ n > 0 /\ reported[w] = (n - 1) % StatusWidth
    \/ build = "cp" /\ file[w].date = 0
=============================================================================
