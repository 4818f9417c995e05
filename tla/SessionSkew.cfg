\* Two managers of one service, clocks wrong by up to 0.3 s, restarts.
CONSTANTS
    None = None
    m1 = m1  m2 = m2
    Managers = {m1, m2}
    Secrets = {key, next, short}
    Strong = {key, next}
    Ttls = {0, 1, 2}
    Claims = {agent}
    Verifiable = {agent}
    Offsets <- SmallSkew
    MaxSkew = 300
    Ticks = {500, 700}
    MaxTime = 2400
    MaxTokens = 1
    MaxDecisions = 2
SPECIFICATION Spec
INVARIANTS TypeOK AcceptedNotStale ExpiredNotEarly RevivalBounded
SYMMETRY ManagerSymmetry
