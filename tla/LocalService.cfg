\* Two processes, three requests, one seed.
CONSTANTS
  Seeds = {9}
  MaxProcesses = 2
  MaxCalls = 3
  None = None
  MaxTicks = 4
SPECIFICATION Spec
INVARIANTS ShownAnswersLast ToldIsKept AccountingFollowsEvents NothingLeftRunning
PROPERTY ServerCheckEnds
\* The script ends, and the page need ask no more.
CHECK_DEADLOCK FALSE
