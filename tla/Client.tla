--------------------------------- MODULE Client ---------------------------------
(***************************************************************************)
(* HelixClient (src/src/helix_sdk/client.py): every method that calls the  *)
(* API, and the API as far as these methods' documentation and callers     *)
(* depend on it.                                                           *)
(*                                                                         *)
(* A DID made by create_did is known by its key, and the key by the number *)
(* of the call that generated it; an agent that was onboarded is known by  *)
(* its enrollment token. A credential is known by its place in `vcs'.      *)
(***************************************************************************)
EXTENDS Http, Sequences, FiniteSets

CONSTANTS
    Tokens,     \* enrollment tokens, and the agents that they make
    Things,     \* service names and challenges
    ScopesOf,   \* the scopes that each token was minted with
    Delegators, \* those minted with a delegation depth
    Enrolled,   \* sequence: the agents that there are in the beginning
    Delegations,\* [from, to, scopes]: the delegations that callers may ask for
    Grants,     \* the same for a service's grants
    Refusals    \* the codes that refuse a delegation

\* No answer is taken for one without a body or a code; the want of a credential
\* is not what refuses a delegation.
ASSUME NoneAssumption == None \notin Codes \cup {"active", "revoked"}
ASSUME RefusalsAssumption == "ADMIN_AUTH_REQUIRED" \notin Refusals
ASSUME EnrolledAssumption == Enrolled \in Seq(Tokens)
ASSUME MaxCallsAssumption == MaxCalls \in Nat

VARIABLES
    taken,      \* what can be used, or made, once: tokens, names, keys
    gone,       \* deactivated DIDs
    vcs,        \* the credentials the API holds
    revoked,    \* those revoked
    changed     \* history: the request that last changed a credential

apiVars == <<taken, gone, vcs, revoked, changed>>
vars == <<httpVars, apiVars>>

\* A credential of an agent. `from' is the agent or service that delegated or
\* granted it, None for the agent's own; `parent' is what it was delegated from.
Vc(to, from, scopes, parent) ==
    [to |-> to, from |-> from, scopes |-> scopes, parent |-> parent]
Own(t) == Vc(t, None, ScopesOf[t], 0)

Init ==
    /\ HttpInit
    /\ taken = {<<"onboard_agent", Enrolled[i]>> : i \in DOMAIN Enrolled}
    /\ gone = {}
    /\ vcs = [i \in DOMAIN Enrolled |-> Own(Enrolled[i])]
    /\ revoked = {}
    /\ changed = 0

Active == DOMAIN vcs \ revoked
HeldBy(agent) == {i \in Active : vcs[i].to = agent}
Dids == {x[2] : x \in {y \in taken : y[1] = "create_did"}}

\* What the callers have been told: revocations and deactivations.
Told == {<<o.req.op, o.req.arg>> :
           o \in {e \in ended : e.ok /\ e.req.op \in {"revoke_vc", "deactivate_did"}}}

-----------------------------------------------------------------------------
(* The methods. *)

\* Mutant: the client keeps the pair it generated for its first call.
CreateDid_OneKey(c) == Call(c, "create_did", 0, {})

\* A new key pair for each call.
CreateDid(c) == Call(c, "create_did", sent + 1, {})

\* Mutant: "?live=true" is not sent.
ResolveDid_Cached(c) ==
    \E d \in Dids : Call(c, "resolve_did", [did |-> d, live |-> FALSE, asked |-> TRUE], Told)

ResolveDid(c) ==
    \E d \in Dids, live \in BOOLEAN :
      Call(c, "resolve_did", [did |-> d, live |-> live, asked |-> live], Told)

AddServiceEndpoint(c)    == \E d \in Dids : Call(c, "add_service_endpoint", d, {})
RemoveServiceEndpoint(c) == \E d \in Dids : Call(c, "remove_service_endpoint", d, {})
DeactivateDid(c)         == \E d \in Dids : Call(c, "deactivate_did", d, {})

IssueVc(c)    == \E t \in Tokens : Call(c, "issue_vc", t, {})
ReadVcs(c)    == Call(c, "read_vcs", None, {})
RevokeVc(c)   == \E i \in DOMAIN vcs : Call(c, "revoke_vc", i, {})
RenewVc(c)    == \E i \in DOMAIN vcs : Call(c, "renew_vc", i, {})
RegisterVc(c) == \E t \in Tokens, x \in Things : Call(c, "register_vc", <<x, t>>, {})
CheckVcStatus(c) == \E i \in DOMAIN vcs : Call(c, "check_vc_status", i, Told)

\* The body of a delegation or a grant, and what the caller asked for.
Ask(g, revokeExisting, asked) ==
    [from |-> g.from, to |-> g.to, scopes |-> g.scopes,
     revokeExisting |-> revokeExisting, asked |-> asked]

CreateService(c) == \E x \in Things : Call(c, "create_service", x, {})
IssueServiceDelegationGrant(c) ==
    \E g \in Grants, all \in BOOLEAN :
      Call(c, "issue_grant", Ask(g, all, all), {})
GetAgentScopes(c) == \E t \in Tokens : Call(c, "get_agent_scopes", t, {})

StatusLists(c) == \E op \in {"get_status_list", "create_status_list"} : Call(c, op, None, {})
GetAuditLog(c) == Call(c, "get_audit_log", None, {})

\* Only a client with a URL and a credential records a consent.
RecordConsentGrantedAudit(c) ==
    /\ ~SdkOnly(c) /\ Credential(c, "record_consent") # None
    /\ Call(c, "record_consent", None, {})

\* Any presentation which a call of sign_vp returned.
VerifyVp(c) ==
    \E o \in ended :
      /\ o.ok /\ o.req.op = "sign_vp" /\ o.body # None
      /\ Call(c, "verify_vp", o.body, Told)
FetchSessionPublicKey(c) == Call(c, "fetch_session_public_key", None, {})

OnboardAgent(c) == \E t \in Tokens : Call(c, "onboard_agent", t, {})
SignVp(c)       == \E t \in Tokens : Call(c, "sign_vp", t, {})

\* Mutant: revoke_existing is not put in the body.
DelegateAuthority_KeepsOthers(c) ==
    \E g \in Delegations, all \in BOOLEAN :
      Call(c, "delegate", Ask(g, FALSE, all), {})

DelegateAuthority(c) ==
    \E g \in Delegations, all \in BOOLEAN :
      Call(c, "delegate", Ask(g, all, all), {})

RequestUserChallenge(c) == Call(c, "request_user_challenge", None, {})
VerifyUserChallenge(c)  == \E x \in Things : Call(c, "verify_user_challenge", x, {})

\* The methods that take a field from the answer.
Subscripts == {"create_did", "check_vc_status", "issue_grant", "sign_vp",
               "fetch_session_public_key", "delegate"}

-----------------------------------------------------------------------------
(* The API. *)

\* What is refused to a client without the credential that its routes want.
Gated == {"issue_vc", "revoke_vc", "renew_vc", "register_vc", "create_service",
          "issue_grant", "get_agent_scopes", "get_audit_log", "sign_vp", "delegate"}
Admitted(r) == r.op \in Gated => r.cred = IF r.custodial THEN "bearer" ELSE "admin"

\* The error of a second use, or of a second thing of the same name.
AlreadyCode ==
    [create_did            |-> "DID_ALREADY_EXISTS",
     add_service_endpoint  |-> "SERVICE_ENDPOINT_ALREADY_EXISTS",
     create_service        |-> "SERVICE_ALREADY_EXISTS",
     onboard_agent         |-> "ENROLLMENT_TOKEN_ALREADY_USED",
     verify_user_challenge |-> "CHALLENGE_ALREADY_VERIFIED"]

Same == UNCHANGED apiVars

ServeOnce(r) ==
    /\ r.op \in DOMAIN AlreadyCode
    /\ IF <<r.op, r.arg>> \in taken
       THEN Refused(r, AlreadyCode[r.op]) /\ Same
       ELSE /\ Done(r, IF r.op = "onboard_agent" THEN Len(vcs) + 1 ELSE r.arg)
            /\ taken' = taken \cup {<<r.op, r.arg>>}
            /\ IF r.op = "onboard_agent"
               THEN vcs' = Append(vcs, Own(r.arg)) /\ changed' = r.n
               ELSE UNCHANGED <<vcs, changed>>
            /\ UNCHANGED <<gone, revoked>>

ServeRemove(r) ==
    /\ r.op = "remove_service_endpoint"
    /\ LET x == <<"add_service_endpoint", r.arg>>
       IN IF x \notin taken THEN Refused(r, "SERVICE_ENDPOINT_NOT_FOUND") /\ Same
          ELSE Done(r, r.arg) /\ taken' = taken \ {x} /\ UNCHANGED <<gone, vcs, revoked, changed>>

ServeDeactivate(r) ==
    /\ r.op = "deactivate_did"
    /\ IF r.arg \in gone THEN Refused(r, "DID_DEACTIVATED") /\ Same
       ELSE Done(r, None) /\ gone' = gone \cup {r.arg} /\ UNCHANGED <<taken, vcs, revoked, changed>>

\* A live answer is the ledger's; another may be from before a deactivation.
ServeResolve(r) ==
    /\ r.op = "resolve_did"
    /\ \E deactivated \in {r.arg.did \in gone} \cup (IF r.arg.live THEN {} ELSE {FALSE}) :
         Done(r, [deactivated |-> deactivated])
    /\ Same

ServeStore(r) ==
    /\ \/ r.op = "issue_vc" /\ vcs' = Append(vcs, Own(r.arg)) /\ UNCHANGED taken
       \/ /\ r.op = "register_vc"
          /\ taken' = taken \cup {<<r.op, r.arg>>}
          /\ vcs' = IF <<r.op, r.arg>> \in taken THEN vcs
                    ELSE Append(vcs, Vc(r.arg[2], r.arg[1], ScopesOf[r.arg[2]], 0))
    /\ changed' = r.n
    /\ Done(r, Len(vcs'))
    /\ UNCHANGED <<gone, revoked>>

ServeRenew(r) ==
    /\ r.op = "renew_vc"
    /\ IF r.arg \in revoked THEN Refused(r, "VC_REVOKED") /\ Same
       ELSE /\ Done(r, Len(vcs) + 1)
            /\ vcs' = Append(vcs, vcs[r.arg])
            /\ revoked' \in {revoked, revoked \cup {r.arg}}
            /\ changed' = r.n
            /\ UNCHANGED <<taken, gone>>

ServeRevoke(r) ==
    /\ r.op = "revoke_vc"
    /\ IF r.arg \in revoked THEN Refused(r, "VC_ALREADY_REVOKED") /\ Same
       ELSE /\ Done(r, None)
            /\ revoked' = revoked \cup {r.arg}
            /\ changed' = r.n
            /\ UNCHANGED <<taken, gone, vcs>>

\* A delegation or a grant. The same scopes again refresh the earlier one, and
\* others stand beside it unless they are to be revoked. An agent delegates from
\* a credential of its own, within its scopes and depth.
Given(r) == {i \in Active : vcs[i].to = r.arg.to /\ vcs[i].from = r.arg.from}
Parents(r) ==
    IF r.op = "issue_grant" THEN {0}
    ELSE {i \in HeldBy(r.arg.from) : /\ vcs[i].from = None
                                     /\ r.arg.from \in Delegators
                                     /\ r.arg.scopes \subseteq vcs[i].scopes}
ServeGrant(r) ==
    /\ r.op \in {"delegate", "issue_grant"}
    /\ IF Parents(r) = {}
       THEN (\E code \in Refusals : Refused(r, code)) /\ Same
       ELSE \E parent \in Parents(r) :
              LET v == Vc(r.arg.to, r.arg.from, r.arg.scopes, parent)
                  again == {i \in Given(r) : vcs[i].scopes = v.scopes}
              IN /\ vcs' = IF again = {} THEN Append(vcs, v) ELSE vcs
                 /\ revoked' = IF r.arg.revokeExisting
                               THEN revoked \cup (Given(r) \ again) ELSE revoked
                 /\ changed' = r.n
                 /\ Done(r, IF again = {} THEN Len(vcs') ELSE CHOOSE i \in again : TRUE)
                 /\ UNCHANGED <<taken, gone>>

\* Every active credential of the agent goes into its presentation, which is
\* valid while these and what they were delegated from are: then the answer
\* has the effective scopes.
ServeSign(r) ==
    /\ r.op = "sign_vp"
    /\ IF HeldBy(r.arg) = {} THEN Refused(r, "VP_NO_ACTIVE_VC") ELSE Done(r, HeldBy(r.arg))
    /\ Same

ServeVerify(r) ==
    /\ r.op = "verify_vp"
    /\ IF \A i \in r.arg : {i, vcs[i].parent} \subseteq Active \cup {0}
       THEN Done(r, UNION {vcs[i].scopes : i \in r.arg}) ELSE Refused(r, "VC_REVOKED")
    /\ Same

ServeStatus(r) ==
    /\ r.op = "check_vc_status"
    /\ Done(r, IF r.arg \in revoked THEN "revoked" ELSE "active")
    /\ Same

\* Requests whose answers no property looks at.
ServeOther(r) ==
    /\ r.op \in {"read_vcs", "get_agent_scopes", "get_status_list", "create_status_list",
                 "get_audit_log", "record_consent", "fetch_session_public_key",
                 "request_user_challenge"}
    /\ Done(r, "data")
    /\ Same

Serve(r) ==
    \/ ~Admitted(r) /\ Refused(r, "ADMIN_AUTH_REQUIRED") /\ Same
    \/ /\ Admitted(r)
       /\ \/ ServeOnce(r) \/ ServeRemove(r) \/ ServeDeactivate(r) \/ ServeResolve(r)
          \/ ServeStore(r) \/ ServeRenew(r) \/ ServeRevoke(r) \/ ServeGrant(r)
          \/ ServeSign(r) \/ ServeVerify(r) \/ ServeStatus(r) \/ ServeOther(r)

-----------------------------------------------------------------------------
DidMethods(c) ==
    \/ CreateDid(c) \/ ResolveDid(c) \/ AddServiceEndpoint(c) \/ RemoveServiceEndpoint(c)
    \/ DeactivateDid(c)

VcMethods(c) ==
    \/ IssueVc(c) \/ ReadVcs(c) \/ RevokeVc(c) \/ RenewVc(c) \/ RegisterVc(c) \/ CheckVcStatus(c)

ServiceMethods(c) ==
    \/ CreateService(c) \/ IssueServiceDelegationGrant(c) \/ GetAgentScopes(c)
    \/ StatusLists(c) \/ GetAuditLog(c) \/ RecordConsentGrantedAudit(c)

AgentMethods(c) ==
    \/ VerifyVp(c) \/ FetchSessionPublicKey(c) \/ OnboardAgent(c) \/ SignVp(c)
    \/ DelegateAuthority(c) \/ RequestUserChallenge(c) \/ VerifyUserChallenge(c)

AnyMethod(c) == DidMethods(c) \/ VcMethods(c) \/ ServiceMethods(c) \/ AgentMethods(c)

\* What becomes of the calls, whoever made them.
Network(c) == (Receive(c, Subscripts) \/ Timeout(c) \/ GatewayFails(c)) /\ Same

Next ==
    \/ \E c \in Callers : (AnyMethod(c) /\ Same) \/ Network(c)
    \/ \E r \in pending : Serve(r)

\* The timeout of the adapter is the only thing that the code can rely on.
Spec == Init /\ [][Next]_vars /\ \A c \in Callers : WF_vars(Timeout(c) /\ Same)

-----------------------------------------------------------------------------
\* Requests, answers and outcomes belong to the callers and calls they name.
TypeOK ==
    /\ sent \in 0..MaxCalls
    /\ done \subseteq 1..sent
    /\ \A r, q \in waiting : r.by = q.by => r = q
    /\ \A a \in reply : a.to \in waiting
    /\ \A r \in pending : r.n \in (1..sent) \ done
    /\ \A o \in ended : o.req \notin waiting
    /\ revoked \subseteq DOMAIN vcs

\* A call that returned had its effect. One that raised a HelixError with any
\* code but INTERNAL_ERROR had none, and never will have; so the first call
\* that uses a token or a name is never told that it is used. After another
\* exception (a timeout of the library, a KeyError) the caller cannot know: the
\* key of create_did, or the agent of onboard_agent, may be lost then only.
OutcomeHonest ==
    \A o \in {e \in ended : e.req.op # "record_consent"} :
      /\ o.ok => o.req.n \in done
      /\ ~o.ok /\ o.error.code \notin {None, "INTERNAL_ERROR"} =>
           o.req.n \notin done /\ o.req \notin pending

\* A client that was given a credential is never refused for want of it, on the
\* hosted API's routes or on those of core, whichever method it calls.
NeverUnauthorised ==
    \A o \in ended : ~o.ok /\ o.error.code = "ADMIN_AUTH_REQUIRED" =>
      ~ClientOf[o.req.by].api /\ ~ClientOf[o.req.by].admin

\* verify_vp_demo.py:17-19: "verification is always live against current
\* revocation state, never cached locally". Once a caller has been told that a
\* credential is revoked, or a DID deactivated, no call made from then on finds
\* it valid: not verify_vp, nor check_vc_status, nor resolve_did(live=True).
RevocationSeen ==
    \A o \in {e \in ended : e.ok} :
      /\ o.req.op = "verify_vp" =>
           \A i \in o.req.arg : {<<"revoke_vc", i>>, <<"revoke_vc", vcs[i].parent>>}
                                  \cap o.req.history = {}
      /\ o.req.op = "check_vc_status" /\ o.body = "active" =>
           <<"revoke_vc", o.req.arg>> \notin o.req.history
      /\ o.req.op = "resolve_did" /\ o.body # None =>
           (o.req.arg.asked /\ ~o.body.deactivated =>
              <<"deactivate_did", o.req.arg.did>> \notin o.req.history)

\* create_did can be called again after a failure (errors.py:119, "Please
\* retry."): the API never finds its key taken by an attempt that was lost.
FreshKeyNeverTaken ==
    \A o \in ended : o.req.op = "create_did" /\ ~o.ok => o.error.code # "DID_ALREADY_EXISTS"

\* After a delegation or a grant that was to revoke the others has returned,
\* every active credential between the two has exactly the scopes asked for, as
\* long as no other request changes a credential: an earlier attempt that timed
\* out is such a request.  There may be several of them, since renew_vc can leave
\* its original active; none gives more, and none less.
RevokeExistingExact ==
    \A o \in ended :
      o.ok /\ o.req.op \in {"delegate", "issue_grant"} /\ o.req.n = changed =>
        (o.req.arg.asked => \A i \in Given(o.req) : vcs[i].scopes = o.req.arg.scopes)

\* http_adapter.py:32,68: every call ends, whatever the API does.
CallsEnd == \A c \in Callers : Busy(c) ~> ~Busy(c)
=============================================================================
