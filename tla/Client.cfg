\* A client of the hosted API, and one without an API.
CONSTANTS
    None = None
    Callers = {"app", "test"}
    ClientOf <- Clients
    Methods <- SomeMethods
    MaxCalls = 3
    Tokens = {"a", "b"}
    Things = {"x"}
    ScopesOf <- ReadWrite
    Delegators = {"a"}
    Enrolled <- OneEnrolled
    Delegations <- TwoDelegations
    Grants <- TwoGrants
    Refusals = {"DELEGATION_NOT_PERMITTED"}
SPECIFICATION Spec
INVARIANTS TypeOK OutcomeHonest NeverUnauthorised RevocationSeen FreshKeyNeverTaken RevokeExistingExact
PROPERTY CallsEnd
CHECK_DEADLOCK FALSE
