----------------------------- MODULE Exercises ------------------------------
(***************************************************************************)
(* The small programs of the repository.  They have nothing to do with one *)
(* another: program is the one that runs, and the others stay as they are  *)
(* before they are started, with parameters that do not matter.            *)
(***************************************************************************)
EXTENDS Watch, Filter, Records, Pipeline, Fifo

VARIABLE program

programs == <<watch_vars, filter_vars, records_vars, pipeline_vars, fifo_vars>>
vars == <<program, programs>>

Init ==
  /\ program \in {"watch", "filter", "records", "pipeline", "fifo"}
  /\ WatchInit
  /\ program # "watch" => build = CHOOSE b \in Builds : TRUE
  /\ FilterInit
  /\ program # "filter" =>
       <<mode, W, nthreads>> = CHOOSE p \in Modes \X Widths \X ThreadCounts : TRUE
  /\ RecordsInit
  /\ program # "records" =>
       /\ job = CHOOSE b \in Jobs : TRUE
       /\ nrecords = CHOOSE c \in Counts : TRUE
       /\ original = [p \in 0 .. nrecords - 1 |-> CHOOSE r \in Records : TRUE]
  /\ PipelineInit
  /\ program # "pipeline" => line = CHOOSE l \in Lines : TRUE
  /\ FifoInit
  /\ program # "fifo" => n = CHOOSE f \in [Slaves -> LineCounts] : TRUE

Next ==
  \/ /\ program = "watch" /\ WatchNext
     /\ UNCHANGED <<program, filter_vars, records_vars, pipeline_vars, fifo_vars>>
  \/ /\ program = "filter" /\ FilterNext
     /\ UNCHANGED <<program, watch_vars, records_vars, pipeline_vars, fifo_vars>>
  \/ /\ program = "records" /\ RecordsNext
     /\ UNCHANGED <<program, watch_vars, filter_vars, pipeline_vars, fifo_vars>>
  \/ /\ program = "pipeline" /\ PipelineNext
     /\ UNCHANGED <<program, watch_vars, filter_vars, records_vars, fifo_vars>>
  \/ /\ program = "fifo" /\ FifoNext
     /\ UNCHANGED <<program, watch_vars, filter_vars, records_vars, pipeline_vars>>

Spec == Init /\ [][Next]_vars

(* The scheduler runs every process that can run.  Nothing makes the user   *)
(* type, files change or time pass, and no fork need fail.                  *)
Fairness ==
  /\ WF_watch_vars(program = "watch" /\ MonitorStep)
  /\ \A w \in Watchers : WF_watch_vars(program = "watch" /\ WatchStep(w))
  /\ WF_pipeline_vars(program = "pipeline" /\ LineStep)
  /\ \A c \in UNION {DOMAIN l : l \in Lines} :
       WF_pipeline_vars(program = "pipeline" /\ c \in Commands /\ CommandStep(c))

FairSpec == Spec /\ Fairness

(* LineEnds, of the program that runs                                       *)
EveryLineEnds == program = "pipeline" => LineEnds
=============================================================================
