\* The main thread and a thread of the pool set the same variables.
CONSTANTS
  Var <- Links
  Worker = {w1}
  Main = main
  MaxJobs = 2
  MaxNotices = 1
SPECIFICATION Spec
INVARIANTS TypeOK StateIsTold
PROPERTIES LastStateIsTold
