\* Binding and unbinding, with every pair of failures, users calling and the
\* board swapped between lives.
SPECIFICATION Spec
CONSTANTS
  Boards <- AllBoards
  MaxFailures = 2
  MaxLives = 3
INVARIANTS TypeOK WorkerSafe CallsSafe PwmCallsSafe OopsExplained CleanUnbind
           AdcShown
PROPERTY BindsEnd
CHECK_DEADLOCK TRUE
