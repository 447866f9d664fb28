\* Two HTTP threads, two masters in turn, two sources, one stream with a queue of
\* one, a ring of two records.
SPECIFICATION FairSpec
CONSTANTS
  Threads = {t1, t2}
  Sources = {tx, rx}
  Streams = {q1}
  MaxRecords = 2
  Chunk = 1
  QueueMax = 1
  MaxRuns = 2
  MaxFrames = 3
  MaxRequests = 3
  MaxPolls = 2
INVARIANTS
  TypeOK
  NoOrphan
  ReadersInOrder
PROPERTIES
  StreamsEnd
CHECK_DEADLOCK FALSE
