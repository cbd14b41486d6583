CONSTANTS
  Delays = {1, 2}
  Forever = Forever
  MaxTime = 3
  MaxTimers = 3
SPECIFICATION FairSpec
INVARIANTS TypeOK NoTimerLost
PROPERTIES OverNeverFires DueServed
