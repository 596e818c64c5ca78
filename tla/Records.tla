------------------------------ MODULE Records -------------------------------
(***************************************************************************)
(* cw02/zad1: sorts the records of a file in place by their first byte, or *)
(* copies records.  sort_sys and sort_lib, copy_sys and copy_lib differ in *)
(* the calls that read and write only, and a write of the latter is in the *)
(* file when the next fseek, or fclose, flushes it.  A swap is two writes, *)
(* between which the program may be killed; a read at the end of the file  *)
(* leaves the buffer as it is.                                             *)
(***************************************************************************)
EXTENDS Integers, FiniteSets

CONSTANTS
  Jobs,       \* "sort" and "copy"
  Records,    \* the records; Key gives the first byte of each
  Key(_),
  Counts,     \* numbers of records (nrecords)
  Extra       \* at most so many more are asked for than there are to copy

ASSUME RecordsAssumption ==
  /\ Jobs \subseteq {"sort", "copy"}
  /\ \A r \in Records : Key(r) \in Nat
  /\ Counts \subseteq Nat \ {0} /\ Extra \in Nat

VARIABLES
  job, nrecords,
  original,    \* the file at the beginning
  data,        \* the file that is sorted, or the copy
  sort_pc,     \* where the program is
  pos, j,      \* its loop variables (pos is i, or r)
  min, min_c,
  buf_i, buf_min

records_vars ==
  <<job, nrecords, original, data, sort_pc, pos, j, min, min_c, buf_i, buf_min>>

Index == 0 .. nrecords - 1

RecordsInit ==
  /\ job \in Jobs
  /\ \E n \in Counts :
       /\ original \in [0 .. n - 1 -> Records]
       /\ nrecords \in IF job = "sort" THEN {n} ELSE n .. n + Extra
       /\ buf_i = original[0] /\ buf_min = original[0]
  /\ data = IF job = "sort" THEN original ELSE [e \in {} |-> 0]
  /\ sort_pc = IF job = "sort" THEN "outer" ELSE "copy"
  /\ pos = 0 /\ j = 0 /\ min = 0 /\ min_c = 0

-----------------------------------------------------------------------------
(* sort_sys, sort_lib                                                      *)

(* min and min_c start with record i; the last record is not looked at.     *)
StartRound ==
  /\ sort_pc = "outer" /\ pos < nrecords - 1
  /\ min' = pos /\ min_c' = Key(data[pos])
  /\ j' = pos + 1
  /\ sort_pc' = "inner"
  /\ UNCHANGED <<job, nrecords, original, data, pos, buf_i, buf_min>>

(* Mistake: the last record is never compared.                              *)
HasNext_short == j < nrecords - 1

HasNext == j < nrecords

Compare ==
  /\ sort_pc = "inner" /\ HasNext
  /\ IF Key(data[j]) < min_c THEN min' = j /\ min_c' = Key(data[j])
                             ELSE UNCHANGED <<min, min_c>>
  /\ j' = j + 1
  /\ UNCHANGED <<job, nrecords, original, data, sort_pc, pos, buf_i, buf_min>>

(* The record is where it belongs.                                          *)
SkipSwap ==
  /\ sort_pc = "inner" /\ ~HasNext /\ pos = min
  /\ pos' = pos + 1
  /\ sort_pc' = "outer"
  /\ UNCHANGED <<job, nrecords, original, data, j, min, min_c, buf_i, buf_min>>

ReadBoth ==
  /\ sort_pc = "inner" /\ ~HasNext /\ pos # min
  /\ buf_i' = data[pos] /\ buf_min' = data[min]
  /\ sort_pc' = "write_i"
  /\ UNCHANGED <<job, nrecords, original, data, pos, j, min, min_c>>

WriteI ==
  /\ sort_pc = "write_i"
  /\ data' = [data EXCEPT ![pos] = buf_min]
  /\ sort_pc' = "write_min"
  /\ UNCHANGED <<job, nrecords, original, pos, j, min, min_c, buf_i, buf_min>>

WriteMin ==
  /\ sort_pc = "write_min"
  /\ data' = [data EXCEPT ![min] = buf_i]
  /\ pos' = pos + 1
  /\ sort_pc' = "outer"
  /\ UNCHANGED <<job, nrecords, original, j, min, min_c, buf_i, buf_min>>

EndSort ==
  /\ sort_pc = "outer" /\ pos >= nrecords - 1
  /\ sort_pc' = "sorted"
  /\ UNCHANGED <<job, nrecords, original, data, pos, j, min, min_c, buf_i, buf_min>>

-----------------------------------------------------------------------------
(* copy_sys, copy_lib                                                      *)

(* One turn of the loop.  What was read last is written again when the file *)
(* is at its end.                                                           *)
CopyRecord ==
  /\ sort_pc = "copy" /\ pos < nrecords
  /\ buf_i' = IF pos \in DOMAIN original THEN original[pos] ELSE buf_i
  /\ data' = [e \in 0 .. pos |-> IF e = pos THEN buf_i' ELSE data[e]]
  /\ pos' = pos + 1
  /\ UNCHANGED <<job, nrecords, original, sort_pc, j, min, min_c, buf_min>>

EndCopy ==
  /\ sort_pc = "copy" /\ pos = nrecords
  /\ sort_pc' = "copied"
  /\ UNCHANGED <<job, nrecords, original, data, pos, j, min, min_c, buf_i, buf_min>>

-----------------------------------------------------------------------------
(* The user ends the program; only between the two writes is it torn.       *)
Kill ==
  /\ sort_pc \notin {"sorted", "copied", "killed", "torn"}
  /\ sort_pc' = IF sort_pc = "write_min" THEN "torn" ELSE "killed"
  /\ UNCHANGED <<job, nrecords, original, data, pos, j, min, min_c, buf_i, buf_min>>

RecordsNext ==
  \/ StartRound \/ Compare \/ SkipSwap \/ ReadBoth \/ WriteI \/ WriteMin \/ EndSort
  \/ CopyRecord \/ EndCopy
  \/ Kill

RecordsSpec == RecordsInit /\ [][RecordsNext]_records_vars

-----------------------------------------------------------------------------
Sorted == \A p, q \in Index : p <= q => Key(data[p]) <= Key(data[q])

Times(r, contents) == Cardinality({p \in Index : contents[p] = r})

(* The records of the file are those it had, each as often.                 *)
Permuted == \A r \in Records : Times(r, data) = Times(r, original)

(* A sort that ends has sorted the file, and no record is lost or repeated  *)
(* at any time but between the two writes of a swap.  A copy that ends has  *)
(* copied all there is, and then its last record again.                     *)
RecordsKept ==
  /\ job = "sort" =>
       /\ sort_pc = "sorted" => Sorted
       /\ sort_pc \notin {"write_min", "torn"} => Permuted
  /\ sort_pc = "copied" =>
       \A p \in Index :
         data[p] = original[IF p \in DOMAIN original THEN p
                            ELSE CHOOSE q \in DOMAIN original : q + 1 \notin DOMAIN original]
=============================================================================
