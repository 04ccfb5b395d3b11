CONSTANTS
    Calls = {c1, c2}
    c1 = c1  c2 = c2  r1 = r1  t1 = t1  t2 = t2  x = x  y = y
    Drain = Drain
    Records = {r1}
    Contents = {x, y}
    Targets = {t1}
    Bodies <- MCRetryBodies
    Configs <- MCOneConfig
    Absent = Absent
    NoBody = NoBody
    DrainLimit = 1
    Outages = {t1}
    Refusers = {t1}
SPECIFICATION FairSpec
PROPERTIES EventuallyDecided
CHECK_DEADLOCK FALSE
