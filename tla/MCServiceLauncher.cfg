CONSTANTS
  c1 = c1
  c2 = c2
  Containers = {c1, c2}
  MaxSaves = 2
SPECIFICATION FairSpec
INVARIANTS
    UnaskedEndIsAnError
PROPERTIES
    ProductionSignalTerminates
    NoticedIsLoaded
CHECK_DEADLOCK FALSE
