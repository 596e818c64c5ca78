------------------------------- MODULE Filter -------------------------------
(***************************************************************************)
(* cw08/zad1: an image is filtered by threads that share the input, and    *)
(* write different columns of the output; main joins them all and saves    *)
(* what they have computed.  In mode "block" a thread gets adjoining       *)
(* columns, in mode "interleaved" every nthreads-th; with no threads main  *)
(* computes all columns itself, which is modelled as one thread.           *)
(*                                                                         *)
(* A pixel of the output is a sum over pixels of the input that are found  *)
(* in unsigned arithmetic (Source); the sum itself is left out.  Rows are  *)
(* treated like columns and have no threads of their own.                  *)
(***************************************************************************)
EXTENDS Integers

CONSTANTS
  Widths,        \* widths of images (W)
  ThreadCounts,  \* numbers of threads (nthreads)
  Modes,         \* "block" and "interleaved"
  UWord          \* unsigned is 0 .. UWord - 1

(* The columns of all parts have to fit an unsigned; float holds every      *)
(* quotient that matters for widths up to 2^24, so that ceil is exact.      *)
ASSUME FilterAssumption ==
  /\ Widths \subseteq Nat \ {0} /\ ThreadCounts \subseteq Nat /\ UWord \in Nat
  /\ Modes \subseteq {"block", "interleaved"}
  /\ \A w \in Widths, m \in ThreadCounts : w + m < UWord

VARIABLES
  mode, W, nthreads,
  x,           \* the column each thread is to compute next
  thread_pc,   \* "new", "running" or "done"
  k,           \* the loop variable of main
  main_pc,     \* "create", "join", "saved" or "failed"
  by           \* who has computed each column, for the properties

filter_vars == <<mode, W, nthreads, x, thread_pc, k, main_pc, by>>

-----------------------------------------------------------------------------
(* Mistake: integer division.                                               *)
Ceil_floor(a, b) == IF a < b THEN 1 ELSE a \div b

(* ceil(a / (float) b)                                                      *)
Ceil(a, b) == (a + b - 1) \div b

Count(m) == IF m = 0 THEN 1 ELSE m

Threads == 0 .. Count(nthreads) - 1

(* x_min, x_max and x_step of thread t                                      *)
XMin(t) == IF mode = "block" /\ nthreads # 0 THEN t * Ceil(W, nthreads) ELSE t

XMax(t) ==
  IF mode = "block" /\ nthreads # 0 THEN (t + 1) * Ceil(W, nthreads) - 1 ELSE W - 1

XStep == IF mode = "block" THEN 1 ELSE Count(nthreads)

Least(a, b) == IF a < b THEN a ELSE b

(* x <= min(I->W-1, x_max)                                                  *)
HasColumn(t) == x[t] <= Least(W - 1, XMax(t))

(* I->pixels[clip(x-ceil_c_2+i, 0, I->W-1)], for a filter of size c: the    *)
(* difference is unsigned, so that clip never sees a negative number.       *)
Clip(v, b) == Least(v, b)

Source(col, n, c, width) == Clip((col - Ceil(c, 2) + n) % UWord, width - 1)

-----------------------------------------------------------------------------
FilterInit ==
  /\ mode \in Modes /\ W \in Widths /\ nthreads \in ThreadCounts
  /\ x = [t \in Threads |-> 0]
  /\ thread_pc = [t \in Threads |-> "new"]
  /\ k = 0
  /\ main_pc = "create"
  /\ by = [c \in 0 .. W - 1 |-> {}]

Create ==
  /\ main_pc = "create" /\ k \in Threads
  /\ x' = [x EXCEPT ![k] = XMin(k)]
  /\ thread_pc' = [thread_pc EXCEPT ![k] = "running"]
  /\ k' = k + 1
  /\ UNCHANGED <<mode, W, nthreads, main_pc, by>>

(* pthread_create fails and main exits, which ends all threads.             *)
CreateFails ==
  /\ main_pc = "create" /\ k \in Threads /\ nthreads # 0
  /\ main_pc' = "failed"
  /\ UNCHANGED <<mode, W, nthreads, x, thread_pc, k, by>>

CreatedAll ==
  /\ main_pc = "create" /\ k \notin Threads
  /\ main_pc' = "join" /\ k' = 0
  /\ UNCHANGED <<mode, W, nthreads, x, thread_pc, by>>

(* The body of the loop of filter_calculate                                 *)
ComputeColumn(t) ==
  /\ thread_pc[t] = "running" /\ main_pc # "failed"
  /\ HasColumn(t)
  /\ by' = [by EXCEPT ![x[t]] = @ \cup {t}]
  /\ x' = [x EXCEPT ![t] = @ + XStep]
  /\ UNCHANGED <<mode, W, nthreads, thread_pc, k, main_pc>>

EndThread(t) ==
  /\ thread_pc[t] = "running" /\ main_pc # "failed"
  /\ ~HasColumn(t)
  /\ thread_pc' = [thread_pc EXCEPT ![t] = "done"]
  /\ UNCHANGED <<mode, W, nthreads, x, k, main_pc, by>>

Join ==
  /\ main_pc = "join" /\ k \in Threads
  /\ thread_pc[k] = "done"
  /\ k' = k + 1
  /\ UNCHANGED <<mode, W, nthreads, x, thread_pc, main_pc, by>>

Save ==
  /\ main_pc = "join" /\ k \notin Threads
  /\ main_pc' = "saved"
  /\ UNCHANGED <<mode, W, nthreads, x, thread_pc, k, by>>

FilterNext ==
  \/ Create \/ CreateFails \/ CreatedAll \/ Join \/ Save
  \/ \E t \in Threads : ComputeColumn(t) \/ EndThread(t)

FilterSpec == FilterInit /\ [][FilterNext]_filter_vars

-----------------------------------------------------------------------------
(* No column is ever computed by two threads, and when the image is saved   *)
(* every column has been, whatever the width, the mode and the number of    *)
(* threads, which need not divide the width nor be less than it.            *)
ColumnsDivided ==
  \A c \in DOMAIN by :
    /\ \A t, u \in by[c] : t = u
    /\ main_pc = "saved" => by[c] # {}
=============================================================================
