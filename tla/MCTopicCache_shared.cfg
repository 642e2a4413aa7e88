SPECIFICATION CacheFairSpec
CONSTANTS
    p1 = p1
    p2 = p2
    p3 = p3
    Callers = {p1, p2, p3}
    Names = {t1, t2}
    Nobody = Nobody
    MaxCloses = 1
INVARIANTS
    OneCreator
    NoLostWakeup
PROPERTIES
    EveryCallReturns
