\* Ctrl-C almost anywhere, twice, with an adapter and a clock that misbehave.
CONSTANTS
  Warmup = 1
  Measured = 2
  Prompts = 2
  Observed = TRUE
  InterruptsAt <- AllButClose
  MaxInterrupts = 2
  AdapterConforms = FALSE
  ClockStepsBack = TRUE
SPECIFICATION Spec
INVARIANTS NothingAfterCancellation InterruptsAreTold RequestsReported AdapterClosed ObserverStopped
PROPERTY AccountingSpec
\* The command exits.
CHECK_DEADLOCK FALSE
