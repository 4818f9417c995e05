\* A service with one secret: which of its tokens do its managers refuse?
CONSTANTS
    None = None
    m1 = m1  m2 = m2
    Managers = {m1}
    Secrets = {key}
    Strong = {key}
    Ttls = {1}
    Claims = {plain, asdictLinks}
    Verifiable = {plain}
    Offsets <- NoSkew
    MaxSkew = 0
    Ticks = {500}
    MaxTime = 2000
    MaxTokens = 1
    MaxDecisions = 2
SPECIFICATION Spec
INVARIANT UsableUntilExpiry
