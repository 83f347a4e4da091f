\* one run through every loss, restart and timeout (runs are independent)
SPECIFICATION FairSpec
CONSTANTS
  Runs = {r1}
  MaxPollFailures = 3
  MaxCrashes = 2
  MaxRestarts = 2
  MaxDrops = 1
INVARIANTS
  RunsTypeOK
  NoRunIsAbandoned
  SuccessIsReal

  
\* every run ends and no new one has to start
CHECK_DEADLOCK FALSE
