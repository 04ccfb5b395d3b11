SPECIFICATION ManagerSpec
CONSTANTS
    timer = timer
    user = user
    Callers = {timer, user}
    Timer = timer
    Records = {r1}
    MaxGeneration = 3
    MaxRestores = 2
    MaxCrashes = 1
    MaxOutages = 1
    Embeddings = {e1, e2}
    Models = {m1}
    Apis = {a1}
    Bridge = Bridge
    Keep = Keep
    None = None
    MaxSwitches = 2
    MaxDaemonDeaths = 1
INVARIANTS IdentityHolds VectorsComparable
PROPERTIES GenerationsPreserved RestoreIsBackedUp UndoneIsUndone ReportsAreTrue
