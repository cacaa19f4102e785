CONSTANTS
  t1 = t1  t2 = t2  e1 = e1  q1 = q1  q2 = q2  reap = reap
  Threads <- TwoThreads
  Workers = {t1}
  Queues <- OneQueue
  Entries = {e1, reap}
  MaximumCounts = {1}
  WaitArgs <- WorkerArgs
  ReaperQueue = q1
  ReaperItem = reap
  NoQueue = NoQueue
  Idle = Idle
SPECIFICATION FairSpec
PROPERTIES EntryServed ThreadReaped
