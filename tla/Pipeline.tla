------------------------------ MODULE Pipeline ------------------------------
(***************************************************************************)
(* cw05/zad1: the process of one line of the script connects commands by   *)
(* pipes and waits for them.  The commands belong to the system; what they *)
(* do is what tells the plumbing right from wrong:                         *)
(*   "yes"  writes until nobody can read;  "echo"  writes once;            *)
(*   "cat"  copies until the end;          "head"  copies one item;        *)
(*   "missing"  cannot be executed.                                        *)
(* A command ends when it finds the end of its input, which takes every    *)
(* writing end of the pipe to be closed, or when it writes to a pipe that  *)
(* has no reading end any more (SIGPIPE).                                  *)
(***************************************************************************)
EXTENDS Integers, Sequences

CONSTANTS
  Lines,     \* the lines of the script, sequences of commands
  Capacity   \* items a pipe holds

(* The first command has nothing to read but the terminal, which is left    *)
(* out.                                                                     *)
ASSUME PipelineAssumption ==
  /\ Lines \subseteq Seq({"yes", "echo", "cat", "head", "missing"})
  /\ \A l \in Lines : l # <<>> /\ Head(l) \notin {"cat", "head"}
  /\ Capacity \in Nat \ {0}

VARIABLES
  line,
  line_pc,           \* where the process of the line is
  cmdptr,            \* the command it is to start
  prev_fd, next_fd,  \* its variables: a pipe, or 0
  open,              \* <<pipe, end, holder>>; holder 0 is the process of the line
  held,              \* the items in each pipe
  cmd_pc             \* what each command is about to do

pipeline_vars == <<line, line_pc, cmdptr, prev_fd, next_fd, open, held, cmd_pc>>

Commands == 1 .. Len(line)

(* The pipe behind command k has number k.                                  *)
HasNextCommand(k) == k < Len(line)

HasPreviousCommand(k) == k > 1

Ends(p) == {<<p, "read">>, <<p, "write">>}

Has(h, p, end) == <<p, end, h>> \in open

PipelineInit ==
  /\ line \in Lines
  /\ line_pc = "pipe"
  /\ cmdptr = 1
  /\ prev_fd = 0 /\ next_fd = 0
  /\ open = {}
  /\ held = [k \in Commands |-> 0]
  /\ cmd_pc = [k \in Commands |-> "unborn"]

-----------------------------------------------------------------------------
(* The process of the line                                                 *)

Without(h) == {d \in open : d[3] # h}

(* pipe or vfork fails: the process of the line leaves its commands behind. *)
LineFails ==
  /\ \/ line_pc = "pipe" /\ HasNextCommand(cmdptr)
     \/ line_pc = "vfork"
  /\ line_pc' = "failed"
  /\ open' = Without(0)
  /\ UNCHANGED <<line, cmdptr, prev_fd, next_fd, held, cmd_pc>>

Pipe ==
  /\ line_pc = "pipe"
  /\ IF HasNextCommand(cmdptr)
       THEN next_fd' = cmdptr /\ open' = open \cup {<<e[1], e[2], 0>> : e \in Ends(cmdptr)}
       ELSE UNCHANGED <<next_fd, open>>
  /\ line_pc' = "vfork"
  /\ UNCHANGED <<line, cmdptr, prev_fd, held, cmd_pc>>

(* The child has what its parent has open; its parent waits for its exec.   *)
Vfork ==
  /\ line_pc = "vfork"
  /\ open' = open \cup {<<d[1], d[2], cmdptr>> : d \in {o \in open : o[3] = 0}}
  /\ cmd_pc' = [cmd_pc EXCEPT ![cmdptr] = "exec"]
  /\ line_pc' = "vforked"
  /\ UNCHANGED <<line, cmdptr, prev_fd, next_fd, held>>

(* What a child closes before it executes its command                       *)
ClosedInChild(k) ==
  (IF HasPreviousCommand(k) THEN {<<prev_fd, "write", k>>} ELSE {}) \cup
  (IF HasNextCommand(k) THEN {<<next_fd, "read", k>>} ELSE {})

Exec(k) ==
  /\ cmd_pc[k] = "exec"
  /\ cmd_pc' = [cmd_pc EXCEPT ![k] = CASE line[k] = "missing" -> "ended"
                                       [] line[k] \in {"yes", "echo"} -> "write"
                                       [] OTHER -> "read"]
  /\ open' = IF line[k] = "missing" THEN Without(k) ELSE open \ ClosedInChild(k)
  /\ line_pc' = "close"
  /\ UNCHANGED <<line, cmdptr, prev_fd, next_fd, held>>

(* Mistake: the writing end is left open.                                   *)
ClosedInParent_read == {<<prev_fd, "read", 0>>}

ClosedInParent == {<<prev_fd, "read", 0>>, <<prev_fd, "write", 0>>}

(* The rest of the loop                                                     *)
CloseAndGoOn ==
  /\ line_pc = "close"
  /\ open' = IF HasPreviousCommand(cmdptr) THEN open \ ClosedInParent ELSE open
  /\ prev_fd' = next_fd
  /\ cmdptr' = cmdptr + 1
  /\ line_pc' = IF HasNextCommand(cmdptr) THEN "pipe" ELSE "wait"
  /\ UNCHANGED <<line, next_fd, held, cmd_pc>>

(* while (wait(NULL) != -1)                                                 *)
WaitForAll ==
  /\ line_pc = "wait"
  /\ \A k \in Commands : cmd_pc[k] = "ended"
  /\ line_pc' = "ended"
  /\ open' = Without(0)
  /\ UNCHANGED <<line, cmdptr, prev_fd, next_fd, held, cmd_pc>>

LineStep == Pipe \/ Vfork \/ CloseAndGoOn \/ WaitForAll

-----------------------------------------------------------------------------
(* The commands and the pipes                                              *)

Closed(p, end) == \A h \in {0} \cup Commands : ~Has(h, p, end)

CommandEnds(k) == cmd_pc' = [cmd_pc EXCEPT ![k] = "ended"] /\ open' = Without(k)

CommandReads(k) ==
  /\ cmd_pc[k] = "read"
  /\ \/ /\ held[k - 1] > 0
        /\ held' = [held EXCEPT ![k - 1] = @ - 1]
        /\ cmd_pc' = [cmd_pc EXCEPT ![k] = "write"]
        /\ UNCHANGED open
     \/ /\ held[k - 1] = 0 /\ Closed(k - 1, "write")
        /\ CommandEnds(k)
        /\ UNCHANGED held
  /\ UNCHANGED <<line, line_pc, cmdptr, prev_fd, next_fd>>

CommandWrites(k) ==
  /\ cmd_pc[k] = "write"
  /\ \/ /\ HasNextCommand(k) /\ Closed(k, "read")
        /\ CommandEnds(k)
        /\ UNCHANGED held
     \/ /\ HasNextCommand(k) => ~Closed(k, "read") /\ held[k] < Capacity
        /\ held' = IF HasNextCommand(k) THEN [held EXCEPT ![k] = @ + 1] ELSE held
        /\ IF line[k] \in {"echo", "head"} THEN CommandEnds(k)
           ELSE /\ cmd_pc' = [cmd_pc EXCEPT ![k] = IF line[k] = "cat" THEN "read" ELSE "write"]
                /\ UNCHANGED open
  /\ UNCHANGED <<line, line_pc, cmdptr, prev_fd, next_fd>>

CommandStep(k) == Exec(k) \/ CommandReads(k) \/ CommandWrites(k)

PipelineNext == LineStep \/ LineFails \/ \E k \in Commands : CommandStep(k)

PipelineSpec == PipelineInit /\ [][PipelineNext]_pipeline_vars

-----------------------------------------------------------------------------
(* Every "yes" has somebody behind it who stops reading.                    *)
Finite ==
  \A k \in Commands : line[k] = "yes" =>
    \E m \in Commands : m > k /\ line[m] \in {"echo", "head", "missing"}

(* No end of a pipe is forgotten: all commands of a line end, those whose   *)
(* neighbour is gone or never came to be included, and so does its process. *)
LineEnds ==
  Finite => <>[](/\ line_pc \in {"ended", "failed"}
                 /\ \A k \in Commands : cmd_pc[k] \in {"unborn", "ended"})
=============================================================================
