------------------------------- MODULE MCClient -------------------------------
(* Instances of Client for TLC. *)
EXTENDS Client

Local      == [url |-> FALSE, admin |-> FALSE, api |-> FALSE]
Enterprise == [url |-> FALSE, admin |-> FALSE, api |-> TRUE]

Clients == [c \in Callers |-> IF c = "app" THEN Enterprise ELSE Local]

\* Two scope sets between the same two parties.
Two(from) == {[from |-> from, to |-> "b", scopes |-> {s}] : s \in {"read", "write"}}
TwoDelegations == Two("a")
TwoGrants      == Two("x")
ReadWrite == [t \in Tokens |-> {"read", "write"}]

SomeMethods ==
    {"create_did", "resolve_did", "add_service_endpoint", "remove_service_endpoint",
     "deactivate_did", "verify_user_challenge", "record_consent",
     "delegate", "revoke_vc", "check_vc_status", "sign_vp", "verify_vp"}

OneEnrolled == <<"a">>
=============================================================================
