-------------------------------- MODULE Fifo --------------------------------
(***************************************************************************)
(* cw05/zad2: slaves write lines to a named pipe, master prints what it    *)
(* reads from it, one character at a time, until no slave has it open, and *)
(* removes its name.  Who comes first makes the pipe; open() blocks until  *)
(* somebody opens the other end.  Every line is one write, which is not    *)
(* divided (a line is shorter than PIPE_BUF).                              *)
(*                                                                         *)
(* The pipes that have had the name are numbered; 0 is none.               *)
(***************************************************************************)
EXTENDS Integers, Sequences

CONSTANTS
  Slaves,
  LineCounts,  \* numbers of lines a slave is told to write (n)
  LineLength,  \* characters of a line
  PipeSize,    \* characters a pipe holds
  MaxMasters   \* master is started at most so often

ASSUME FifoAssumption ==
  /\ LineCounts \subseteq Nat
  /\ {LineLength, MaxMasters} \subseteq Nat \ {0}
  /\ PipeSize \in Nat /\ PipeSize >= LineLength

VARIABLES
  name, pipes,       \* the pipe at fifo_path, and how many there have been
  chars,             \* the characters in each pipe
  master_pc, master_fd,
  master_met,        \* a slave has opened the pipe since master began to
  slave_pc, slave_fd,
  slave_met,         \* master has opened the pipe since the slave began to
  n,                 \* lines each slave has still to write
  masters,           \* times master has been started
  output,            \* what this master has printed
  written,           \* the lines written to the pipe it reads, in order
  at_eof             \* how many there were when it found the end, or -1

pipe == <<name, pipes, chars>>
master == <<master_pc, master_fd, masters, output, at_eof>>
slave == <<slave_pc, slave_fd, n>>
fifo_vars == <<pipe, master, master_met, slave, slave_met, written>>

Pipes == 0 .. MaxMasters + 1

FifoInit ==
  /\ name = 0 /\ pipes = 0
  /\ chars = [p \in Pipes |-> <<>>]
  /\ master_pc = "new" /\ master_fd = 0 /\ master_met = FALSE
  /\ slave_pc = [s \in Slaves |-> "new"]
  /\ slave_fd = [s \in Slaves |-> 0]
  /\ slave_met = [s \in Slaves |-> FALSE]
  /\ n \in [Slaves -> LineCounts]
  /\ masters = 0
  /\ output = <<>> /\ written = <<>> /\ at_eof = -1

(* mkfifo, which accepts a pipe that exists                                 *)
MakeFifo ==
  IF name = 0 THEN pipes' = pipes + 1 /\ name' = pipes' ELSE UNCHANGED <<name, pipes>>

(* Who has a pipe open, those whose open() has not returned included        *)
Readers(p) == master_pc \in {"opening", "read", "close"} /\ master_fd = p

Writers(p) == {s \in Slaves : slave_pc[s] \in {"opening", "write"} /\ slave_fd[s] = p}

-----------------------------------------------------------------------------
(* master.c                                                                *)

StartMaster ==
  /\ master_pc \in {"new", "exited"} /\ masters < MaxMasters
  /\ masters' = masters + 1
  /\ MakeFifo
  /\ master_pc' = "open"
  /\ output' = <<>> /\ written' = <<>> /\ at_eof' = -1
  /\ UNCHANGED <<chars, master_fd, master_met, slave, slave_met>>

(* Nobody removes the name before master does: open() finds it.             *)
MasterOpen ==
  /\ master_pc = "open"
  /\ master_pc' = "opening" /\ master_fd' = name
  /\ master_met' = (Writers(name) # {})
  /\ slave_met' = [s \in Slaves |-> slave_met[s] \/ s \in Writers(name)]
  /\ UNCHANGED <<pipe, masters, output, at_eof, slave, written>>

MasterOpened ==
  /\ master_pc = "opening" /\ master_met
  /\ master_pc' = "read"
  /\ UNCHANGED <<pipe, master_fd, master_met, masters, output, at_eof, slave, slave_met, written>>

(* Mistake: what read() returns is tested after the character is printed.   *)
MasterReads_first ==
  /\ master_pc = "read"
  /\ \/ /\ chars[master_fd] # <<>>
        /\ output' = Append(output, Head(chars[master_fd]))
        /\ chars' = [chars EXCEPT ![master_fd] = Tail(@)]
        /\ UNCHANGED <<master_pc, at_eof>>
     \/ /\ chars[master_fd] = <<>> /\ Writers(master_fd) = {}
        /\ master_pc' = "close" /\ at_eof' = Len(written)
        /\ output' = output \o SubSeq(output, Len(output), Len(output))
        /\ UNCHANGED chars
  /\ UNCHANGED <<name, pipes, master_fd, master_met, masters, slave, slave_met, written>>

(* One turn of the loop: a character, or the end of the pipe                *)
MasterReads ==
  /\ master_pc = "read"
  /\ \/ /\ chars[master_fd] # <<>>
        /\ output' = Append(output, Head(chars[master_fd]))
        /\ chars' = [chars EXCEPT ![master_fd] = Tail(@)]
        /\ UNCHANGED <<master_pc, at_eof>>
     \/ /\ chars[master_fd] = <<>> /\ Writers(master_fd) = {}
        /\ master_pc' = "close" /\ at_eof' = Len(written)
        /\ UNCHANGED <<output, chars>>
  /\ UNCHANGED <<name, pipes, master_fd, master_met, masters, slave, slave_met, written>>

(* What is in a pipe is lost when nobody has it open any more.              *)
MasterClose ==
  /\ master_pc = "close"
  /\ master_pc' = "unlink"
  /\ chars' = IF Writers(master_fd) = {} THEN [chars EXCEPT ![master_fd] = <<>>] ELSE chars
  /\ UNCHANGED <<name, pipes, master_fd, master_met, masters, output, at_eof, slave, slave_met,
                 written>>

Unlink ==
  /\ master_pc = "unlink"
  /\ name' = 0
  /\ master_pc' = "exited"
  /\ UNCHANGED <<pipes, chars, master_fd, master_met, masters, output, at_eof, slave, slave_met,
                 written>>

MasterStep == MasterOpen \/ MasterOpened \/ MasterReads \/ MasterClose \/ Unlink

-----------------------------------------------------------------------------
(* slave.c                                                                 *)

StartSlave(s) ==
  /\ slave_pc[s] = "new"
  /\ MakeFifo
  /\ slave_pc' = [slave_pc EXCEPT ![s] = "open"]
  /\ UNCHANGED <<chars, master, master_met, slave_fd, slave_met, n, written>>

(* "Cannot open fifo": master has removed the name since mkfifo.            *)
SlaveOpenFails(s) ==
  /\ slave_pc[s] = "open" /\ name = 0
  /\ slave_pc' = [slave_pc EXCEPT ![s] = "failed"]
  /\ UNCHANGED <<pipe, master, master_met, slave_fd, slave_met, n, written>>

SlaveOpen(s) ==
  /\ slave_pc[s] = "open" /\ name # 0
  /\ slave_pc' = [slave_pc EXCEPT ![s] = "opening"]
  /\ slave_fd' = [slave_fd EXCEPT ![s] = name]
  /\ slave_met' = [slave_met EXCEPT ![s] = Readers(name)]
  /\ master_met' = (master_met \/ Readers(name))
  /\ UNCHANGED <<pipe, master, n, written>>

SlaveOpened(s) ==
  /\ slave_pc[s] = "opening" /\ slave_met[s]
  /\ slave_pc' = [slave_pc EXCEPT ![s] = "write"]
  /\ UNCHANGED <<pipe, master, master_met, slave_fd, slave_met, n, written>>

Line(s, k) == [c \in 1 .. LineLength |-> <<s, k, c>>]

Put(s, piece) ==
  chars' = [chars EXCEPT ![slave_fd[s]] = @ \o piece]

Write(s) ==
  /\ Len(chars[slave_fd[s]]) + LineLength <= PipeSize
  /\ Put(s, Line(s, n[s]))
  /\ n' = [n EXCEPT ![s] = @ - 1]
  /\ written' = IF slave_fd[s] = master_fd THEN Append(written, <<s, n[s]>>) ELSE written
  /\ UNCHANGED slave_pc

(* One turn of the loop of the slave; SIGPIPE kills it when master is gone. *)
WriteLine(s) ==
  /\ slave_pc[s] = "write" /\ n[s] > 0
  /\ IF Readers(slave_fd[s]) THEN Write(s)
     ELSE /\ slave_pc' = [slave_pc EXCEPT ![s] = "killed"]
          /\ UNCHANGED <<chars, n, written>>
  /\ UNCHANGED <<name, pipes, master, master_met, slave_fd, slave_met>>

SlaveClose(s) ==
  /\ slave_pc[s] = "write" /\ n[s] = 0
  /\ slave_pc' = [slave_pc EXCEPT ![s] = "exited"]
  /\ UNCHANGED <<pipe, master, master_met, slave_fd, slave_met, n, written>>

FifoNext ==
  \/ StartMaster \/ MasterStep
  \/ \E s \in Slaves :
       \/ StartSlave(s) \/ SlaveOpen(s) \/ SlaveOpenFails(s) \/ SlaveOpened(s)
       \/ WriteLine(s) \/ SlaveClose(s)

FifoSpec == FifoInit /\ [][FifoNext]_fifo_vars

-----------------------------------------------------------------------------
(* The characters of the first m lines that have been written               *)
Text(m) ==
  [c \in 1 .. m * LineLength |->
     LET l == written[1 + (c - 1) \div LineLength]
     IN  <<l[1], l[2], ((c - 1) % LineLength) + 1>>]

(* Lines are printed whole and in the order in which they are written,      *)
(* whoever writes them, and none is missing that was written before master  *)
(* found the end of the pipe.                                               *)
PrintedIsWritten ==
  /\ master_pc = "read" => output \o chars[master_fd] = Text(Len(written))
  /\ at_eof # -1 => output = Text(at_eof)
=============================================================================
