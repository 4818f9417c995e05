\* Lists of up to two credentials, two holders and two keys that belong to neither,
\* signatures with awkward encodings.
CONSTANTS
    None = None
    agent = agent  grant = grant  both = both  other = other  k0 = k0  k1 = k1
    Vcs = {agent, grant, both, other}
    TypesOf <- Types
    Seeds = {k0, k1}
    PublicOf <- Publics
    Dids = {alice, bob}
    Services = {shop, bank}
    Users = {ann}
    Nonces = {n1}
    Signatures <- Bytes
    Endpoints <- Domains
    MaxList = 2
    MaxVps = 2
\* The bounds end a behaviour: the application has nothing more to sign.
CHECK_DEADLOCK FALSE
SPECIFICATION Spec
INVARIANTS VerifiesWhileUnchanged ProofsNotInterchangeable SignedAsChecked
