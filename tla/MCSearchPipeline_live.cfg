CONSTANTS
  Worker = {w1, w2}
  MaxJobs = 2
  BufSize = 1
SPECIFICATION FairSpec
PROPERTY NoGoroutineLeak
