SPECIFICATION FairSpec
CONSTANTS
  hd = hd  d1 = d1  d2 = d2  d3 = d3  q1 = q1
  NULL = NULL
  Task <- Tasks
  Client <- Clients
  Header = hd
  DataTask <- DataTasks
  SeqTask = {q1}
  Blocks = 3
INVARIANTS WorkerFileOpen DataTasksExact FreedIsClean
PROPERTIES StopEnds SystemShutdownEnds
