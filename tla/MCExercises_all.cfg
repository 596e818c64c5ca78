\* One of five programs runs.
SPECIFICATION FairSpec
CONSTANTS
  \* Watch: a file, whose contents change three times in as many seconds
  Builds = {"signals", "memory", "cp"}
  nproc = 1
  Polls = 5
  StatusWidth = 3
  MaxTime = 4
  MaxVersion = 4
  MaxCommands = 4
  \* Filter
  Widths = {1, 2, 3, 4, 5, 6}
  ThreadCounts = {0, 1, 2, 3, 4, 5}
  Modes = {"block", "interleaved"}
  UWord = 16
  \* Records
  Jobs = {"sort", "copy"}
  Records <- ThreeRecords
  Key <- FirstByte
  Counts = {1, 2, 3, 4}
  Extra = 2
  \* Pipeline
  Lines <- LinesOfCommands
  Capacity = 2
  \* Fifo
  Slaves <- ThreeSlaves
  LineCounts = {1, 2}
  LineLength = 2
  PipeSize = 5
  MaxMasters = 2
INVARIANTS
  ReportedCopies
  ColumnsDivided
  RecordsKept
  PrintedIsWritten
PROPERTIES
  ReadIsKept
  OutOfStepOnlyByMerging
  StartedWatcherPolls
  EveryLineEnds
CHECK_DEADLOCK FALSE
