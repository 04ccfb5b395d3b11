CONSTANTS
    Requests = {q1, q2, q3}
    NoRequest = NoRequest
    Sessions = {s1, s2}
    Ids = {r1, r2, r3, r4}
    Contents = {x, y}
    Authors = {a1, a2, a3}
    Profile = Profile
    Absent = Absent
    Bodies <- MCBodies
    s1 = s1  s2 = s2  s3 = s3
    r1 = r1  r2 = r2  r3 = r3  r4 = r4
    a1 = a1  a2 = a2  a3 = a3
    x = x  y = y
    Executions = {e1, e2, e3}
    ExtractJobs = {j1, j2, j3}
    Spoken = {j1, j2}
    Texts = {A, B}
    Empty = Empty
    Segments = {g1, g2}
    Outputs <- MCOutputs
    NoClaim = NoClaim
    A = A  B = B  g1 = g1  g2 = g2
SPECIFICATION MemorySpec
SYMMETRY Symmetry
INVARIANTS ReceiptsHold HonestNotRefused ClaimsBacked OneOutputKept
PROPERTIES ImplementsLog
CHECK_DEADLOCK FALSE
