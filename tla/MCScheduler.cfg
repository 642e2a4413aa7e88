CONSTANTS
  beat = beat
  stamp = stamp
  Services = {beat, stamp}
  Aligned = {stamp}
  Immediately = {beat}
  Every <- MCEvery
  Behind <- MCBehind
  Limit = 2
  Resume = 1
  Penalty = 2
  Far = 2
  Parts = 2
  MaxSleep = 7
  Second = 2
  MaxLate = 1
  Epoch = 1
  MaxStart = 1
  MaxStarting = 3
  MaxTime = 18
SPECIFICATION FairSpec
INVARIANTS
    TypeOK
    StoppedIsDrained
PROPERTIES
    InvocationsAdvance
    InvokedOnTime
    AllStop
CHECK_DEADLOCK FALSE
