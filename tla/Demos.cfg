\* Either demo, and an operator who makes one call of any kind meanwhile.
CONSTANTS
    None = None
    Demo = {"verify", "delegation"}
    Others = {"op"}
    MaxOthers = 1
    Callers = {"verify", "delegation", "op"}
    ClientOf <- AllCore
    Methods <- VcAndAgentMethods
    MaxCalls = 7
    Tokens = {"v", "g", "s"}
    Things = {"x"}
    ScopesOf <- Minted
    Delegators = {"g"}
    Enrolled <- Nobody
    Delegations = {}
    Grants <- OneGrant
    Refusals = {"MAX_DELEGATION_DEPTH_EXCEEDED", "SCOPE_ESCALATION_DENIED", "DELEGATION_DEPTH_EXCEEDED", "DELEGATION_SCOPE_ESCALATION"}
SPECIFICATION DemoSpec
INVARIANTS NeverSurprised DoneIsTrue RefusalRecognised
PROPERTY HangsOnlyOnToken
CHECK_DEADLOCK FALSE
