-------------------------------- MODULE MCDemos --------------------------------
(* Instances of Demos for TLC. *)
EXTENDS Demos

Core == [url |-> TRUE, admin |-> TRUE, api |-> FALSE]
AllCore == [c \in Callers |-> Core]

\* The verification demo's agent and the delegator are minted with scopes.
Minted == [t \in Tokens |-> CASE t = "v" -> {"read"} [] t = "g" -> {"read", "write"}
                              [] OTHER -> {}]
Nobody == <<>>

VcAndAgentMethods ==
    {"onboard_agent", "sign_vp", "verify_vp", "delegate", "issue_vc", "read_vcs", "revoke_vc",
     "renew_vc", "register_vc", "check_vc_status", "issue_grant", "get_agent_scopes",
     "get_status_list", "create_status_list", "fetch_session_public_key",
     "request_user_challenge", "create_service", "get_audit_log"}
OneGrant == {[from |-> "x", to |-> "v", scopes |-> {"read"}]}
=============================================================================
