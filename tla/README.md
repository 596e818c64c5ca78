# Formal models of the sysopy programs

The repository holds the exercises of an operating-systems course: some twenty small C programs, grouped by
the topic they practise (files, processes, signals, pipes, message queues, shared memory, threads). There is no
library they share; each `cwNN/zadM` is a system of its own. This directory holds TLA+ models of those in which
processes or threads interact, and of two sequential ones that change files or divide work, with model-checking runs
for TLC and proofs for TLAPS.

    tlc -config MCTrolleys_safety.cfg MCTrolleys     # a run: MC<module>_<run>.cfg
    tlapm TrolleysProofs.tla                         # proofs: <module>Proofs.tla

## 1. Inventory

| Component | State | Operations | Interaction | What is hard |
|---|---|---|---|---|
| **Roller coaster**, cw09/zad1 | who sits where, two doors, whose turn it is, `die` | board, press the button, leave; serve the platform, ride; end the program | P + T threads and main; 3 mutexes with 4 condition variables, 2 mutexes used as a semaphore, 2 barriers | tests of state written under other mutexes, broadcasts for two kinds of waiter, barriers used three times a round, shutdown |
| **Conveyor belt**, cw07/zad1 (System V) and zad2 (POSIX) | ring buffer and its two counters in shared memory, truck | load a package, take it off, exchange trucks; finish and clean up on SIGINT | loader processes and a trucker; one semaphore | SIGINT in the middle of a critical section, a belt used before it is set up, removal of the semaphore |
| **Chat**, cw06/zad1 (System V) and zad2 (POSIX) | list of clients, queues, ids | INIT, ECHO, LIST, FRIENDS, ADD, DEL, 2ALL, 2FRIENDS, 2ONE, STOP | a server, clients of two processes (zad1) or with notification threads (zad2); bounded queues, SIGINT, SIGUSR1 | full queues, cleanups that interrupt each other, overtaking by priority, one-shot notification, shutdown handshake |
| **Signal sequences**, cw04/zad3 | signals pending, handlers registered, counter, listen | send, count, send back; or confirm each | two processes and signals | merged signals, tests before `pause()`, default actions |
| **Monitor and watchers**, cw04/zad2 (signals) and cw03/zad2, zad3 (polling) | proclist, active, copies; a buffer and two dates | START, STOP, END, LIST; archive what is replaced in a file, by itself or with cp(1) | SIGUSR1 toggles a watcher, SIGINT ends it, the exit status reports; others write the file | merged toggles, test before `pause()`, file changed between `stat` and `read`, status modulo 256 |
| **Image filter**, cw08/zad1 | columns of the output | filter a part, in blocks or interleaved | threads that share no column; joins | division of the columns, index arithmetic in `unsigned` |
| **Records**, cw02/zad1 | a file of records | generate, sort, copy | none | in-place sort by `lseek`, `read`, `write`; end of file |
| **Line interpreter**, cw05/zad1 | descriptors | run a pipeline | fork, pipe, wait | descriptors left open |
| **Named pipe**, cw05/zad2 | a FIFO and its name | write lines, print what is read | kernel FIFO | lines of several slaves, end of file, unlink |
| Table of blocks, cw01 | table of blocks | create, search, add, remove | none; find(1) | misuse of the interface |
| Date printer, cw04/zad1 | one flag or one child | toggle, end | signals | test before `pause()` |
| Directory listings, cw02/zad2 and cw03/zad1 | none | walk and print | none | none |

What makes the programs in bold correct:

- *Roller coaster*: nobody gets in or out of a moving or full trolley or through a closed door; trolleys keep
  their order, leave full, started by a passenger, and ride together; all rides happen; every thread ends.
- *Conveyor belt*: packages are neither lost, repeated nor reordered, and the limits of belt and truck hold;
  critical sections exclude each other whoever is interrupted; what is on the belt is delivered; loaders end.
- *Chat*: ids are assigned once and to the right client; the server never takes a client that is there for
  unknown; requests are answered; an interrupted server stops every client and leaves last.
- *Signal sequences*: real-time signals are not lost, ordinary ones not all lost, confirmed ones never.
- *Monitor and watchers*: what a watcher has read is archived before it is read over; proclist says what a watcher does; a
  watcher that was started looks at its file; the number reported is that of the copies.
- *Image filter*: every column is computed, by one thread only; what is read lies inside the image.
- *Records*: a sort sorts and loses no record, a copy copies them all.
- *Line interpreter*: no descriptor keeps a command waiting for an end that never comes.
- *Named pipe*: lines are printed whole, in order, and none is missed before the end was found.

`PROJECT.json` lists every hazard at its line with the properties that cover it.

## 2. Modules

| Module | Models | Is composed of |
|---|---|---|
| `RollerCoaster` | what somebody at the platform of cw09 sees (abstract specification) | |
| `Trolleys` | cw09/zad1/main.c, thread by thread | implements `RollerCoaster` |
| `TrolleysProofs`, `RideProofs` | theorems about `Trolleys` | extend it, one after the other |
| `Belt` | a first-in first-out belt and trucks (abstract specification) | |
| `Conveyor` | cw07/zad1 and zad2: loader.c, trucker.c | implements `Belt` |
| `ConveyorProofs` | theorems about `Conveyor` | extends it |
| `ChatRoom` | what the users of cw06 are promised (abstract specification) | |
| `Chat` | cw06/zad1: server.c, client.c | implements `ChatRoom` |
| `ChatProofs` | theorems about `Chat` | extends it and `Counting` |
| `MqChat` | cw06/zad2: server.c, client.c | implements `ChatRoom` |
| `MqChatProofs` | theorems about `MqChat` | extends it and `Counting` |
| `Counting` | lemmas on queues: how many elements are of a kind, what taking out and putting in does | |
| `Signals` | cw04/zad3: sender.c, catcher.c, common.c | |
| `SignalsProofs` | theorems about `Signals` | extends it |
| `Watch` | cw04/zad2 and cw03/zad2: monitor.c, watch.c | |
| `Filter` | cw08/zad1/main.c: the threads | |
| `Records` | cw02/zad1/main.c: sort and copy | |
| `Pipeline` | cw05/zad1/main.c: one line, its commands and pipes | |
| `Fifo` | cw05/zad2: master.c, slave.c | |
| `Exercises` | which of these five programs runs | extends the five |
| `ExercisesProofs` | theorems about `Watch`, `Filter`, `Records`, `Fifo` and their composition | extends `Exercises` |
| `MC...` | sets of model values and instances for TLC | extends the module it is named after |

Definitions whose name ends in a lower-case word after an underscore and whose comment begins "Mistake:"
(`Close_backwards`) are plausible errors. Nothing uses them; each shows, when put in the place of the definition it
varies, that a property would notice.

### Trolleys (cw09/zad1)

`passenger_pc`, `trolley_pc` and `main_pc` say where each thread is; a step is what a thread does between two
points at which another may notice. `AcquireX` is `pthread_mutex_lock` together with the test of the wait that
follows, `WaitX` is `pthread_cond_wait` releasing the mutex, and a woken thread goes back to `AcquireX`, which
tests again. Test and wait are two steps because what is tested (`die`, `current_trolley`) can be written by a
thread that does not hold the mutex: this is how a wake-up gets lost. `Woken` is the effect of a broadcast on
all who wait. A waiter that wakes without a broadcast is `SpuriousPassenger` or `SpuriousTrolley`. The two
button mutexes are locked and unlocked by different threads; glibc lets that pass, and the model treats them as
flags. Barriers count those that are inside.

Abstracted: `current_trolley` and `die` are `int`s read without a lock; their reads are taken to be atomic. The
time of a ride, the printing, the parsing of arguments (its checks are `ArgumentsAssumption`), creation of the
threads (the initial state) and the SIGINT handler, which destroys objects in use and `_exit`s, are left out.

### Conveyor (cw07)

Every write to the segment inside a critical section is a step, the read and the write of `number++` two, for
that is what SIGINT can interrupt and what the trucker's handler, which goes on without the semaphore if
need be, runs next to. `Posix` chooses between the two programs where they differ: SEM_UNDO and the removal of the
semaphore, which wakes and fails those asleep on it, against an unlinked semaphore that lives on. Unsigned
arithmetic wraps at `Word`; `truck_total_weight_of_packages` starts at its largest value, as in the code.
`finish()` and `cleanup()` are steps `Finish` to `Cleanup`.

Left out: creating and opening the objects, time stamps, printing, SIGINT that comes while the trucker is
leaving anyway, and packages heavier than the belt, which a loader tries to put on it forever.

### Chat (cw06/zad1)

The server takes one message per step and collects the `msgsnd` calls its handler is to make in `outbox`;
`ServerSend` makes them one by one, because each may block on a full queue or fail. An answer that cannot be sent
ends the server, a broadcast is carried on. `stop()` unlinks the right node of the list but frees its successor:
the model keeps what is freed in the list as a node without id or queue (`Freed`). A client is a parent
and a child; `cleanup()` is three steps (kill the child, remove the queue, send STOP), any of which a handler
can interrupt to run `cleanup()` once more (`HandleINT`, `HandleUSR1`; `masked` are the handlers under way).
Signals that come before the handlers are registered kill the client. `owner` is a history variable: whom each id was given to.
Texts and their formats, READ (which types more
commands) and the numbers of the queues are left out. The bound of three clients is part of the model: a fourth
could reuse freed memory.

### ChatRoom (cw06)

A room without queues, processes and signals: it admits clients and numbers them in this order, a client learns its number, asks, is
answered and departs; the room closes and shuts, or breaks down. `Chat` and `MqChat` implement it with `owner` for the clients admitted,
`c_id` for the number each takes for its own, and the counters of requests and answers, which only count; `Door` is read off the server's
control, `Presence` off a client's. The promises: nobody is admitted twice, a number is learnt once and is the client's place in the
order, nobody asks before it knows its number or is answered unasked, a closed door stays closed. Two constants say where the programs differ.
An `Orderly` room (`Chat`) shuts after everybody admitted has left. The other room does not: the server of zad2 takes any message for the STOP
it waits for (server.c:257), and its own STOP may overtake the number it has sent, so that a client takes `WrongNumber` for its own,
though not before the door has closed. `Break` is `Chat`'s end over an answer that cannot be sent or over a node freed wrongly: only after
somebody it has admitted has begun to leave. In `MqChat` a failing server closes like an interrupted one. Broadcasts are `Talk`, a step
of the room in which nothing of it changes.

### MqChat (cw06/zad2)

`Insert` orders a queue by priority, as `mq_send` does with the type of the message: the new one comes behind as many as have the
same or a higher one. `owner` is a history variable, as in `Chat`. A broadcast takes a turn for every node and sends to `Nobody` where
the code passes over a client (`Server2Many`); 2ONE is one send or none (`Server2One`). `SendTo` arms no thread
unless the queue is empty and notification registered, and uses the registration up. `notified` and `receivers`
count the threads that have still to register and still to receive. An unlinked queue keeps working for
whoever has it open. Two clients: with three, `stop()` would free the wrong node, as in zad1.
SIGINT to a server that is already in `cleanup()` is left out.

### Signals (cw04/zad3)

`pending` is the queue of signals of a process; `Kept` is the kernel's rule that an ordinary signal is dropped
while one of its kind is pending. A process with a signal pending handles it before it does anything else;
of two different ones either comes first. Real-time signals are queued without limit: RLIMIT_SIGPENDING, at which
`sigqueue` and `kill` would fail, is left out. Handlers are registered one at a time, and a signal without handler kills.
`start` says whether sender begins when it is told the pid of catcher or when catcher waits.

### Watch (cw04/zad2, cw03/zad2)

`build` tells the three programs apart: the watchers that are toggled by signals, those that poll for a while and keep the file in
memory, and those that let cp(1) copy it. A watcher's loop is cut where the world can change: `Stat` (which sets `mtime`
and decides), `CreateCopy`, `WriteCopy`, `CountCopy`, `ReadFile` (which may find another version than the one that was dated), or
`ForkCp`, whose process runs whenever it likes (`CpRuns`), for nobody waits for it. `pending` are the signals of a watcher, a set:
SIGUSR1 is merged with one that is pending. Until its handler is registered a signal kills it. `Set` is START and STOP of one watcher
or all, `KillWatcher` and `WaitPid` the loop of `end()`, `Wait` the loop of cw03. Contents are numbers, dates seconds; a
version is never written twice.

Abstracted: the length of a sleep, and with it the duration of cw03, which becomes a number of polls. A tester that appends a
line, and a user who removes the file, are `Modify` and `Remove`. Left out: LIST (prints), formats of list and command, resource limits of
cw03/zad3, a file that cannot be written, and Control-C while `end()` is under way.

### Filter (cw08/zad1)

Threads compute columns from `XMin` to `XMax` in steps of `XStep`; main creates, joins and saves. `Source` is the pixel that the
sum reads, with the unsigned difference that `clip` sees; nothing that is left out (the sum in floating point, images and their
files) decides where a thread reads or writes. With no threads main itself computes, as one thread of the model. `by` is a history
variable: who has computed each column.

### Records (cw02/zad1)

`data` is the file; each `read` and `write` that can be told apart from outside is a step, and `Kill` ends the program at any of
them. The versions with `read` and with `fread` do the same: what `fwrite` buffers is
written by the `fseek` or `fclose` that follows, and that is when `WriteI` and `WriteMin` happen in them. `buf_i` outlives a turn of the copying loop, as in the code, where a read at the end
of the file leaves the buffer as it was.

### Pipeline (cw05/zad1)

`open` is the table of descriptors of all processes: `<<pipe, end, holder>>`. `Pipe`, `Vfork`, `Exec`, `CloseAndGoOn`,
`WaitForAll` are the loop of `main` over the commands of a line; what is closed in parent and child is `ClosedInParent` and `ClosedInChild`. The commands are not of
this repository: five kinds stand for them, which differ in when they read, write and stop.

### Fifo (cw05/zad2)

Pipes that have had the name are numbered, so that a slave may have open one that was unlinked. `open()` is two steps, before and after
it meets the other end (`master_met`, `slave_met`); a meeting lasts although the other has left by then. A line is one `write`, in one piece
because it is shorter than PIPE_BUF; master reads character by character. Master may be started again, with a new pipe or with one that
slaves have made.

### Exercises

These five programs have nothing in common. `Exercises` picks one that runs; the others stay as they are before their start, with
fixed parameters. The state space is thus the sum, not the product, of theirs, and one run explores all five.

## 3. Runs

All run on small sets of model values. Every passing run explores its instance completely.

| Run | Instance | Shows |
|---|---|---|
| `trolleys_safety` | 6 passengers, 3 trolleys of 2, 2 rides, spurious wakeups, symmetry | types; `StationInv`; `RideTogether`, `ButtonPressed`, `InOrder`, `OnlyThroughTheOpenDoor`; implements `RollerCoaster` |
| `trolleys_live` | 4 passengers, 2 trolleys of 2, 2 rides | all rides happen; everybody who got in gets out |
| `trolleys_shutdown` | 3 passengers, 2 trolleys of 1, 1 ride | **violated**: `EveryThreadEnds` |
| `conveyor_belt` | 2 loaders with 2 packages, 2 places, zad2 | implements `Belt`; nothing lost, repeated, reordered; everything delivered unless loaders that find no room starve the trucker |
| `conveyor_signals` | 2 loaders with 1 package, SIGINT to all at every step, early loaders, zad1 | types and wrap-around; mutual exclusion; loaders end |
| `chat_safety` | 3 clients, queues of 1, LIST and 2ONE, 2 commands in all, all signals everywhere | types; `KnownSender`; `FailsOnlyForTheDeparted`; implements `ChatRoom` |
| `chat_live` | 2 clients, queues of 6, 2 commands in all, SIGINT to the server in any state, SIGUSR1 to clients in any state | requests are answered; an interrupted server ends unless a client it has listed can send no STOP |
| `chat_full` | 2 clients, queues of 3, 4 ECHOs | **violated**: `ServerLeaves` |
| `mq_safety` | 2 clients, queues of 2, a command each, signals, leaving | types; `EveryReceiverHasMail`, `StaysRegistered`, `FailsOnlyForTheDeparted`; implements `ChatRoom` |
| `mq_deaf` | 2 clients, 2 ECHOs each | **violated**: `RequestsAnswered` |
| `signals_all` | 4 signals, 3 modes, both builds, early and late senders | types; `RealTimeLossless`, `OneGetsThrough`, `ConfirmedAll`, `OneAtATime`, `NothingInvented` |
| `exercises_all` | a file and its watcher; widths 1-6, 0-5 threads; files of 1-4 records; 8 pipelines; 3 slaves | `ReadIsKept`, `OutOfStepOnlyByMerging`, `StartedWatcherPolls`, `ReportedCopies`; `ColumnsDivided`; `RecordsKept`; `EveryLineEnds`; `PrintedIsWritten` |

**Bounds.** Two rides: a round differs only in being the first (nothing to let out), the last (nothing to let in) or
neither, and two rides have all three visits. Three trolleys: one that is served, one that waits behind it, one
that has left. Six passengers fill them exactly; more of them only lengthen the platform, where passengers compete
for the open door in these instances too. There is one more passenger than seats in `trolleys_shutdown`, so that somebody
is left on the platform; what is proved holds for any number. Two places on the belt make the ring wrap round with the second package. Queues
of one message make every sender block; queues with room in `chat_live` separate answering from the deadlock that
`chat_full` is about (three messages are what the default limits of Linux leave room for). Three clients are what it
takes to have one in the middle of the list. Four signals suffice for a signal that is merged, one that is handled late and
one that is lost in between.

One watcher is enough, since watchers share nothing but a directory in which their copies have different names; that one changes three
times, in as many seconds or in one, its watcher gets up to four commands, and an exit status of three values wraps around. Widths
that are less than, equal to, divided and not divided by the number of threads occur in both modes. Four records have two with the same first
byte, and swaps of neighbours and of others. The pipelines have every kind of command at either end and in the middle. Three slaves write up to
two lines of two characters to a pipe of five, so that a writer waits with half a line of room; master runs twice.

**Deadlock** is not checked: each of the programs ends, or waits for a user who may never come. Waiting forever is the
subject of the liveness properties.

**Symmetry** is used in safety runs only; passengers and clients differ only in their numbers.

**Fairness.** Weak fairness for every thread and process: the scheduler runs whoever can run. No fairness for
anything users do (commands, leaving, SIGINT): they need never do it. Strong fairness in two places, where the kernel serves those asleep in
the order of their arrival, so that one that is able to proceed again and again is not passed over:

- the System V semaphore (`ServedSpec`, used by `conveyor_signals`): the `semop` that gives it back performs the operation of the process that
  has slept longest. `sem_wait` promises nothing of the kind, and a newcomer may take a POSIX semaphore before whoever has been
  woken, so `conveyor_belt`, which is about zad2, has weak fairness only. Its property `EverythingDelivered` holds of all behaviours but those in
  which a loader finds no room and tries again forever. These exist: without the exception TLC shows a loader that takes the semaphore each time
  before the trucker, and the full belt is never emptied;
- sends that wait for room in a queue of a chat (`FairSpec` of `Chat` and `MqChat`). Of the runs that assume fairness only
  `chat_full` fills a queue, and there it makes the counterexample stronger: nobody is passed over, and yet all wait.

In Trolleys weak fairness is enough, since a mutex is
always released with nobody able to hold everyone else off in the instances checked. In Exercises, weak fairness for the
steps of watcher and monitor, for the process of a line and each of its commands; none for time, users, writers of the file or
failing calls.

### What the violated runs show

- `trolleys_shutdown`. main sets `die` and broadcasts without the mutexes (main.c:407-409). A passenger that has just
  tested `die` and not yet called `pthread_cond_wait` misses the only broadcast; main never gets past `pthread_join`.
- `chat_full`. The interrupted server asks for messages of type STOP only. If its queue is full of commands a client
  cannot send its STOP, and both wait forever.
- `mq_deaf`. Notification is one-shot and only for an empty queue, and each thread takes one message. Two
  messages at once leave one in the queue, which is then never empty: the client receives nothing any more.

### What the models show besides

The models reach the following too; the properties above are stated so that they hold next to them, with the exception
named in the property:

- Conveyor: a loader killed inside its critical section leaves the counters changed and the tail not (`Consistent`); the
  trucker's `finish()` can miss the package of a loader that is still inside; a loader that comes before the belt is set up loses
  its package. `LoadersEnd` is stated under `[]Consistent`, and `CommittedIsKept` is checked without signals.
- Chat: SIGUSR1 in the middle of `cleanup()`, or before its handler is registered, ends a client without its STOP, for which the server
  waits; `stop()` keeps a freed node in the list (`ListIsAllocated`); a server that leaves with an INIT in its queue leaves a client
  waiting for its id. SIGINT to the server alone is enough for the first: a client's own child, forked at client.c:217, reads the STOP and signals
  its parent, which has no handler before client.c:264. And SIGINT that finds the server in `init()`, after the client has been listed and
  before its id is sent, makes it wait for the STOP of a client that waits for its id. `ServerLeaves` names these two as its exceptions (`Lost`).
  It is checked with users that do not interrupt clients; what SIGINT to them, in the middle of `cleanup()` or before the handlers, leads to is
  left to the safety properties of `chat_safety`.
- MqChat: STOP overtakes the id a leaving server has sent (`IdFromServer` speaks of a server that serves), and the
  requests of a client that leaves (`FailsOnlyForTheDeparted`).
- Signals: sender may be killed by answers that come before it has handlers; signals handled before `counter = 0` are lost;
  a signal handled between the test of `listen` and `pause()` leaves its process waiting. The number that sender prints for what
  catcher has received is the value of the signal handled last: `example.txt` shows 38 for 40. `NothingInvented` says that it is
  never more.

- Watch: what is archived as the old version (comment at watch.c:81-84) may be the new one already, since the file is read after
  it is dated, and a change in the second in which the file was read is missed, dates being whole seconds. SIGINT between
  a copy and its count leaves one more copy than reported; in mode cp copies are counted that cp has yet to make, or never makes.
  A status counts modulo 256, and a failed watcher is reported as one copy. A toggle that is merged leaves proclist and watcher in disagreement
  until the end; one handled between test and `pause()` leaves a started watcher asleep. The properties name these cases.
- Filter: what is left of the image is taken from its right edge (theorem `LeftEdge`), for the index has wrapped before it is
  clipped; the upper edge likewise takes the bottom row.
- Records: between the writes of a swap one record is in the file twice and another nowhere (`sort_pc = "torn"`); asked for more
  records than there are, copy repeats the last.
- Fifo: what a slave writes between master's end of file and its `close` is lost; a slave that comes between `close` and `unlink`
  waits forever, one that comes after fails or makes a new pipe; one that writes to a pipe that master has closed is killed.

## 4. Proofs

Eight modules hold theorems: two about `Trolleys`, one each about `Conveyor`, `Chat`, `MqChat` and `Signals`, one about the small
programs and `Counting`, which is about sequences. They are about the specifications that TLC checks, for all values of the constants that
satisfy the ASSUME of their module. Every invariant and every action property that a passing run checks is stated by a theorem, and so are
the four refinements.

### TrolleysProofs

`TrolleysProofs` proves of `Trolleys`, for any number of passengers, trolleys, seats and rides allowed by
`ArgumentsAssumption` (at least one of each and P >= T*C, which is what main checks), with and without spurious wakeups:

- `TypeCorrect`: `Spec => []TypeOK`;
- `StationCorrect`: `Spec => []StationInv`;
- `DoorCorrect`: `Spec => OnlyThroughTheOpenDoor`.

The argument is one inductive invariant, `Inv == TypeOK /\ StationInv`. The types alone are not inductive (`n` is bounded only
because of where a trolley is in its rounds), and neither is any conjunct of `StationInv` by itself:

- `MutexQueue`, `MutexIn`, `MutexOut`: who holds a mutex, read off the program counters;
- `Doors`: a door is open only while the trolley at the station is loading or unloading;
- `TestsStillHold`: what was true when a wait was passed is still true when it is acted on;
- `Rounds`: `n` agrees with the program counter; `DieLast`: `die` comes after the last trolley;
- `Seats`, `SeatsCount`: the counter of a trolley is the number of passengers in it, at most C, exactly C under way.

There is a lemma per conjunct (`RoundsNext`, `DoorsNext`, ...) whose ASSUME names the conjuncts it rests on, with one step per
action under it; `NextInv` puts them together. `SeatsCount` needs facts on cardinalities from `FiniteSetTheorems`
(`AboardBoard`, `AboardLeave`). TLC checks `StationInv` as an invariant of `trolleys_safety`.

### RideProofs

`RideProofs` adds what the trolleys do together: `OrderCorrect` (`InOrder`), `ButtonCorrect` (`ButtonPressed`), `RideCorrect`
(`RideTogether`), and `RollerCoasterCorrect`: `Spec => ImplementsRollerCoaster`. The invariant is `RideInv == Inv /\ OrderInv /\ ButtonInv`.

- `OrderInv` forgets the waits of a trolley and keeps the `Place` in its round: *early*, until it has let everybody out, *late*,
  until it closes its door, *depart*, *ride*, *final*, *done*. `Counted`: all trolleys have counted the same number of rounds, the early
  ones not yet this one. `Platform`: the trolleys before the one at the station wait at the barrier, those behind have still to come; when the
  turn has come back to the first, all are in one place. `QuietNext` shows that only four actions change a place or a count
  (`AcquireQueue`, `Dropped`, `Close`, `ArriveAtBarrier`), so that the proofs have four cases instead of thirty.
- `ButtonInv`: whoever is on the way to the button sits in the trolley at the station, which is loading (`StartersAtStation`); its
  passengers are all before the barrier, or it is full, the barrier has opened and one at most has still to press (`OneForTheButton`); the
  two mutexes of the button say how far this has got (`Pressed`). `BarrierOpens` shows that those released by the
  barrier are the passengers of one trolley and all of them.

Why a barrier opens only when all are there (`BarrierEffect`) is the point at which cardinalities enter. For the refinement,
`Abstraction` expresses the abstract state by places and counts: the stage of a trolley by its place, the number of
rides by the rounds of *any* trolley. Then one lemma per turning point (`BoardImplements`, `LeaveImplements`,
`AdmitImplements`, `CloseImplements`, `BarrierImplements`) names the abstract step, and all other steps are stutters (`Unseen`).

### ConveyorProofs

For any number of loaders, places and packages and both kinds of semaphore, and whoever is interrupted where:

- `MutexCorrect`: `Spec => []MutualExclusion`. That nobody is inside when the semaphore is free is the part of `MutexInv` that
  makes it inductive: SIGINT, which takes a process out of its critical section, must not free a semaphore that somebody else has.
- `TypesCorrect`: `Spec => []TypeOK`. `TypeInv` adds `BeltIsSet` (whoever indexes the ring has found the belt set up, so
  that indices stay below K) and `HasPackage` (a loader that writes has a package left, which bounds its counter). The assumption
  `Word > K` says that the number of places fits the counters' width.

The second half shows that the ring buffer implements the belt, for any number of loaders, places, packages and weights:
`BeltCorrect`: `Undisturbed => (Spec => ImplementsBelt)`. `Undisturbed` says that nobody is sent SIGINT and no loader comes before the
belt is set up; without it the refinement is false, since an interrupted loader leaves what it has done half-way. The invariant
`BeltInv` adds to the two above:

- `Phases`: nobody uses the belt before it is set up, nobody is inside when the trucker has given up;
- `InHand`: what somebody inside has found out is still so when it acts on it: there is room, the package fits, the counter is as
  the register says, the package written is the one at `tail`;
- `Ring`: `tail` is `OnBelt` places after `head`, what lies between are packages, and their weight is `BeltLoad`.

The last needs a sum over the belt, and induction is out of the prover's reach; `Weighs` says it by suffix sums instead, a function `rest`
with `rest[i]` the weight from the i-th package on, which a package put on or taken off makes longer (`Longer`) or shorter
(`Shorter`). `Counts` reads `OnBelt` and `BeltLoad` off the two counters for whoever is inside, `Kept` says that
all steps but `Commit` and `Advance` leave the belt alone although they change counters, and `Rotate`, `Around` are about indices
modulo K. In the refinement `Commit` is `Put`, `Advance` is `Take`, `Examine` of a package that does not fit is
`Depart` or `GiveUp`, and all other steps are stutters (`LoaderUnseen`, `TruckerUnseen`).

`CommittedCorrect`: `Undisturbed => (Spec => []CommittedIsKept)`. What has been carried is what was delivered followed by what lies on
the belt; `CarriedNext` reads off the refinement that a step puts one package behind all others, with the next number of its loader, or
carries nothing: a package lifted from the belt stays where it is in this sequence.

### ChatProofs

For one to three clients (the limit is the model's: see section 2), any room in the queues, any number of commands and any signals, with every
interruption of `cleanup()` by itself:

- `SenderIsKnown`: `Spec => []KnownSender`; `ChatRoomCorrect`: `Spec => ImplementsChatRoom`; `LeavesLast`: `Spec => []ServerLeavesLast`,
  which is what the room's `Shut` says of the server's end, in terms of the program;
- `TypesHold`: `Spec => []TypeOK`; `FailsForTheDeparted`: `Spec => []FailsOnlyForTheDeparted`.

None is inductive, for each says of one place what depends on the way a message has come. The invariant `Core` follows an id along that way:

- `Knocks`: an INIT in the queue of the server is the only one of a client that waits for its id and has none;
- `Owners`: each id has one owner, which has knocked; a client that has an id has its own;
- `Outgoing`: an id is sent alone, before anything else, to a client that has neither id nor mail, and everything else to a client that has
  its id at least in its queue (`Known`);
- `Mailed`: the first mail of a client that waits is its id, so that it takes nothing else for it;
- `Letters`: any other message in the queue of the server bears the id of its sender;
- `Listed`, `Presented`: a node of the list leads to the owner of its id, unless it has been freed; while the server serves, whoever is listed
  has its id, or will be sent it first.

`Control` and `Typed` say where everybody is. A conjunct is kept by a step because of its neighbours along the way, so that they hold together or not
at all: there is one lemma per conjunct (`OwnersStep`, `KnocksStep`, ...), each of which assumes `Core`, and lemmas that say once what a
step can do to the list, the queues and the outbox (`ListStep`, `QueueStep`, `MailStep`, `TakingStep`, `SendStep`).

On `Core` rest three further invariants. `Members`: nobody is listed twice, STOP is the last message of a client, and, as long as the list
has no freed node, every client stays in it until its STOP is read; with `Letters` this is `KnownSender`. `NodesLeft`: clients that run
and STOPs on their way are together no more than the nodes of the list, freed ones included; the server leaves when the list is empty, hence after all.
It is an inequality because `stop()` may take out one node and free another. `Accounts`: answers heard,
waiting in the queue of the client, or still to be sent, and requests still to be read are together no more than what the client has asked for; this bounds
`answered` and completes `TypesHold`.

In the refinement `ServerInit` is `Admit`, `AwaitId` is `Learn`, a request sent is `Ask`, and an answer read is `Answer`, allowed by
`Accounts`. Removing its queue, or ending, makes a client `Depart` (`DepartImplements`), an interrupted server does `Close`, and
`RemoveServerQueue` is `Shut`, for which `NodesLeft` supplies that all have left; everything else is unseen. What is left is the server that
fails or aborts (`BreaksForLeavers`): with a sound list it fails only over a client whose queue is gone, by `KnownSender` and `Core`; and that the
list holds a freed node only after some client has left is one more invariant, `Departed`, since `stop()` runs only for a STOP, which is the
last thing a client does.

### MqChatProofs

For one or two clients, any room, users, threads and signals:

- `ReceiversHaveMail`: `Spec => []EveryReceiverHasMail`; `NobodyIsForgotten`: `Spec => []StaysRegistered`;
- `IdsFromTheServer`: `Spec => []IdFromServer`, which says of the list what `Learn` says of the room's order; `OnlyTheDepartedFail`: `Spec => FailsOnlyForTheDeparted`, an action property;
- `TypesHold`: `Spec => []TypeOK`.

`Core` has the same plan, with two differences that come from the code. `Notification` counts the threads of a client against its queue: those
that have still to register and those that have still to receive are no more than the messages, one at most has still to register, and a client
that is idle is registered or has such a thread. And the queues are ordered: what makes the id the *first* message of a new client (`Mailed`) is that
everything sent to it before it has read its id has a lower priority, broadcasts only (`Outgoing`), since it cannot have
asked for anything (`Once`, `Letters`). STOP has a higher priority, which is why this part of `Mailed` and of `Presented` is about a
server that serves, as `IdFromServer` is. `InsertEffect` and `CountInsert` describe an insertion by priority.

`ChatRoomCorrect`: `Spec => ImplementsChatRoom`, with the same correspondence of steps as in `ChatProofs`; `Fail` is `Close`, and the threads of a
client are unseen but for the one that reads an answer (`Answer`) or a STOP (`Depart`).

### Counting

`Count(s, S)` is the number of places of `s` whose element is in `S`, a cardinality and not a recursion. The lemmas say how it
changes when an element is appended, removed anywhere, taken from the front or inserted (`CountAppend`, `CountRemoveAt`, `CountTail`, `CountInsertAt`), and that a sequence
without repetitions is no longer than the set it is drawn from (`DistinctLength`).

### SignalsProofs

For sequences of any length, all modes and both builds: `TypesCorrect`, `RealTimeCorrect`, `OneCorrect`,
`ConfirmationCorrect`, `OneAtATimeCorrect`, `CountsCorrect`. They share one inductive invariant, `SignalsInv`:

- `Types`; `Merged`: an ordinary signal is pending at most once; `Values`: no number sent along exceeds N;
- `ConfirmInv`: with confirmation at most one thing is on its way, a signal, a confirmation, or one that catcher owes
  (`InFlight`), and which one fixes how far `counter` is from `sent`;
- `FreeInv`: without confirmation no more is counted or pending than was sent, in both directions, and catcher answers when
  everything has been sent and handled;
- `ReadyInv`: a sender that waits for catcher to be ready finds its handlers registered and its counter reset;
- `LosslessInv`: of real-time signals exactly those sent are counted or pending; `ThroughInv`: of ordinary ones at least one.

### ExercisesProofs

`ExercisesCorrect` says of `Exercises`, whichever program runs, that its safety properties hold. It rests on one theorem per
property, each about the specification of its program alone.

*Watch*, for any number of watchers, in all three programs: `ReadIsKeptCorrect`, `InStepCorrect`, `ReportedCorrect`. `WatchInv` is `WatchTypes`,
`SpawnInv` (a watcher that has not been started has not been told anything) and `CopyInv` (the buffer of a watcher that is about to
count its copy or to read is empty or in the archive, whole; in mode cp there is no buffer, in the others no cp). The number of copies needs
`CountInv` besides. A copy is named by the date of what it holds, so that counting is right only if no copy replaces another: `Dated` says that a
watcher finds growing dates, and that all its copies are older than what it is about to archive. `Counted` then ties `copies` to the cardinality of the
archive: less by one between `create` and `count`, by one for good if SIGINT comes there, unknown only when a cp has found its
file removed (`Gone`). `Told` follows the number through the exit status to the monitor.

*Filter*: `FilterCorrect`: in both modes, with any number of threads, no column is computed twice and all are when the image is saved. `Owns`
says which columns are those of a thread; arithmetic on the rounded quotient and on remainders shows that every column has an owner
(`Owned`) and only one (`OwnedOnce`). `FilterInv` ties the threads to it: `Progress` says that a thread has computed exactly its columns
before `x`, `MainLoop` that main saves after all are done. `SourceInside` and `LeftEdge` are about the pixels that are read.

*Records*: `RecordsCorrect`: `RecordsSpec => []RecordsKept`. `RecordsInv` is `RecordsTypeOK`, `SortInv` (the records before `pos` are sorted
and none of the rest is less; `min` is the least so far) and `CopiedInv`. That no record is lost is said of `Completed`, the file as it
will be when a swap under way has been finished: it is a permutation at all times. Permutation is equality of cardinalities, by a
bijection that exchanges two indices.

*Fifo*: `PrintedCorrect`: `FifoSpec => []PrintedIsWritten`. What master has printed followed by what is in the pipe it reads is the text of all
lines written to that pipe (`TextInv`), until it finds the end. That it begins with an empty pipe is `PipesInv`; it rests on a count: pipes
made are at most one more than removals, so that a name which is there was made since the last removal, and what was written
to it nobody has read. `TextOfLine` says what a line adds to the text.

### Only model-checked

- all liveness: `EveryRideHappens`, `EverybodyGetsOut`, `EverythingDelivered`, `LoadersEnd`, `RequestsAnswered`, `ServerLeaves`,
  `StartedWatcherPolls`, `EveryLineEnds`. A proof under fairness needs ENABLED, which is out of reach of the prover;
- what the three violated runs refute, each by a run that shows how.

## 5. Not modelled

`PROJECT.json` gives the reason for each component. Pure input and output (directory listings, the generator of cw02, loading and
saving of images, the printing of LIST), the table of blocks, a sequential structure whose operations are single assignments and whose contents come
from find(1), the date printer, whose one hazard is that of cw04/zad3, floating-point sums, the resource limits of cw03/zad3, parsing of
arguments and commands, and failing calls that end a program before anybody else has seen it (fork, mkfifo, open at the start).

## 6. State of the plan

Done, in this order: Trolleys with its abstraction and proofs; Conveyor with its abstraction; Chat, MqChat, Signals; Watch, Filter, Records,
Pipeline, Fifo, composed in Exercises; proofs about Conveyor, Signals, Filter, Records, Watch, the rides of Trolleys, and the refinements of the
first two; proofs about Chat, MqChat, the counts of Watch, Fifo and the packages committed to the belt; the chat room and the proofs that both chats
implement it.

Open: what `Pipeline` promises short of liveness (who holds which descriptor), as an invariant with its proof; the refinement of `Belt` when
loaders are interrupted, under an abstract specification that says what a loader killed half-way leaves behind.
