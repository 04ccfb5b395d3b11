SPECIFICATION FairSpec
CONSTANTS
    timer = timer
    user = user
    Callers = {timer, user}
    Timer = timer
    Records = {}
    MaxGeneration = 2
    MaxRestores = 1
    MaxCrashes = 1
    MaxOutages = 1
PROPERTY ReachesDesired
