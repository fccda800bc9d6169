CONSTANTS
  Worker = {w1, w2}
  MaxJobs = 3
  BufSize = 1
SPECIFICATION Spec
SYMMETRY Symmetry
INVARIANTS TypeOK NoErrorMeansComplete InternalStopIsNotCancellation CompleteIsNotCancelled DeliveredOnce FatalErrorPrecedesResult EarlyStopIsJustified NoSendOnClosedChannel
PROPERTY KeepsContract
