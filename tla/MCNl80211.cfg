CONSTANTS
  MaxCalls = 3
  MaxReload = 2
CHECK_DEADLOCK FALSE
SPECIFICATION Spec
INVARIANTS HungMeansApplied FailureMeansNotApplied StaleOnlyAfterUnload
PROPERTIES QueriesReturn
