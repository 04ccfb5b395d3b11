CONSTANTS
    Instances = {p1, p2, p3}
    NoOwner = NoOwner
    NoDir = NoDir
    MaxCrashes = 2
    Procs = {p1, p2, p3}
    Nobody = Nobody
    MaxDeaths = 2
    Generations = {g1, g2}
    Statuses = {s1}
    Contexts = {"a", "b"}
    Folders = {f1, f2}
    NoFolder = NoFolder
    Picks = {k1, k2}
    Detaches = {d1, d2}
    MaxIds = 2
SPECIFICATION HostSpec
INVARIANTS MutualExclusion OneInside LeavesNothing
PROPERTIES WaitersServed FoldersHold
CHECK_DEADLOCK FALSE
