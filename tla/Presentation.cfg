\* Two tools, two services, three credentials, presentations of every kind.
CONSTANTS
    None = None
    Junk = Junk
    Empty = Empty
    Calls = {"c1"}
    Tools = {"orders", "write"}
    Services = {"s1", "s2"}
    ServiceOf <- Service
    RequiredOf <- Required
    SelfAllowed = {"write"}
    MarkedWith <- Marked
    Vcs = {"v1", "v2", "v3"}
    SelfSigned = {"v3"}
    ScopesOf <- Granted
    Scopes = {"read", "write"}
    Consents = {{"read", "write"}, {"write"}}
    Built = {{"v1", "v3"}}
    MaxVps = 2
SPECIFICATION Spec
INVARIANTS TypeOK RevokedNeverRuns OfferedNotDenied
PROPERTY ImplementsAccessControl
CHECK_DEADLOCK FALSE
