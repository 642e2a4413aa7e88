CONSTANTS
  a = a
  b = b
  dead = dead
  t1 = t1
  t2 = t2
  t3 = t3
  p1 = p1
  p2 = p2
  Processes = {p1, p2}
  Queues = {a, b, dead}
  Topics = {t1, t2, t3}
  Deployments <- MCDeployments
  Pages <- MCPages
  Fresh <- MCNew
  Settings <- MCSettings
  MaxDeletions = 1
  MaxFailures = 1
  Unset = Unset
  Off = Off
  Missing = Missing
SPECIFICATION FairSpec
INVARIANTS
    Configured
PROPERTIES
    Repaired
    StopTerminates
CHECK_DEADLOCK FALSE
