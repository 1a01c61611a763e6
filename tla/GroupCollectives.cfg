SPECIFICATION FairSpec
CONSTANTS
  PEs = {0, 1}
  Jobs <- SomeJobs
INVARIANTS TypeOK GatherExact AnsweredOnce StoreBounded OnlyLastBarrierFails
PROPERTIES ImplementsControlBarrier AlwaysReturns
CHECK_DEADLOCK FALSE
