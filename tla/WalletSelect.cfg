\* Grants added in the same millisecond.
CONSTANTS
    None = None
    p1 = p1  p2 = p2  t1 = t1  t2 = t2  x1 = x1  d1 = d1  d2 = d2
    k1 = k1  k2 = k2  w1 = w1  w2 = w2  v3 = v3  u1 = u1
    Procs = {p1}
    Threads = {t1}
    ProcOf <- OneEach
    HasClient = {p1}
    Paths = {x1}
    Dids = {d1, d2}
    Keys = {k1, k2, k3}
    Passphrases = {w1, w2}
    Vcs = {v1, v2}
    Grants = {v1, v2}
    SubjectOf <- Subjects
    PartyOf <- OneParty
    Configs <- Plain
    MaxClock = 1
SPECIFICATION Spec
INVARIANT SelectsMostRecentGrant
