CONSTANTS
  MaxJobs = 3
  MaxInt = 7
  CancelCheckInterval = 2
  Input <- Runs
SPECIFICATION Spec
INVARIANTS NegativeIsTrue PositiveIsTrue FatalIsNotMasked FailureIsDiagnosed CancelledWalkIsNotShown OutputIsPrefix ContextIsExact
