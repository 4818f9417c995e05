------------------------------ MODULE Presentation ------------------------------
(***************************************************************************)
(* A tool call that presents a VP, from the agent to the tool's handler:   *)
(* src/src/helix_mcp_middleware, vp_transport.py, verify.py, scope.py, and *)
(* the tools that the scope filters of helix_langchain and helix_crewai    *)
(* let the agent see.                                                      *)
(*                                                                         *)
(* The VP travels in _meta or in a header. The middleware takes it from    *)
(* there, has the API verify it, checks the scopes of the answer and only  *)
(* then lets the handler run. Credentials are issued and revoked at any    *)
(* time in between.                                                        *)
(***************************************************************************)
EXTENDS Naturals, FiniteSets

CONSTANTS
    Calls,
    Tools,
    Services,
    ServiceOf,   \* expected_target_service of each tool's middleware, or None
    RequiredOf,  \* its required_scopes
    SelfAllowed, \* the tools whose middleware has allow_self_signed
    MarkedWith,  \* the required scope in each tool's metadata, or None
    Vcs,         \* the agent's credentials
    SelfSigned,  \* those that the agent signed itself
    ScopesOf,    \* the scopes of each
    Scopes,
    Consents,    \* what users may have consented to; Scopes if no user is meant
    Built,       \* the sets of credentials that callers of VPBuilder put in
    MaxVps,      \* bound: presentations signed
    Junk,        \* in a VP's place: what is no base64url JSON object, or no text
    Empty,       \* in a VP's place: the empty object
    None

ASSUME PresentationAssumption ==
    /\ ServiceOf \in [Tools -> Services \cup {None}]
    /\ RequiredOf \in [Tools -> SUBSET Scopes]
    /\ ScopesOf \in [Vcs -> SUBSET Scopes]
    /\ SelfSigned \subseteq Vcs
    /\ Scopes \in Consents
    /\ Consents \subseteq SUBSET Scopes
    /\ Built \subseteq SUBSET Vcs

VARIABLES
    active,      \* credentials that are active
    revoked,     \* credentials that were revoked
    vps,         \* presentations signed so far, by the API or by VPBuilder
    call,        \* each call of a tool
    offered,     \* the tools that the filter left to the agent
    stale,       \* history: a credential has changed since
    fresh        \* history: VPs the API signed between the filter and a change

vars == <<active, revoked, vps, call, offered, stale, fresh>>

Vp == [creds: SUBSET Vcs, target: Services, consent: Consents]

\* What a VP's place in the message may hold.
Slot == Vp \cup {None, Junk, Empty}

ASSUME SlotAssumption == /\ {None, Junk, Empty} \cap Vp = {}
                         /\ Junk \notin {None, Empty}

\* A call on its way through the middleware.
Call == [tool: Tools, meta: Slot, header: Slot,
         stage: {"arrived", "verifying", "judged", "raised", "ran"},
         vp: Vp \cup {None}, valid: BOOLEAN \cup {None}, scopes: SUBSET Scopes,
         code: {None, "VP_MISSING", "VP_INVALID_STRUCTURE", "API",
                "VP_VERIFICATION_FAILED", "INSUFFICIENT_SCOPE"},
         before: SUBSET Vcs, trusted: BOOLEAN]

\* What AccessControl sees of it.
SeenCall == [tool: Tools, vp: Vp \cup {None}, before: SUBSET Vcs,
             verdict: {"open", "allowed", "denied", "failed", "ran"}]

ASSUME NoneAssumption == None \notin Call \cup SeenCall \cup {"API"} \cup BOOLEAN

Init ==
    /\ active = {}
    /\ revoked = {}
    /\ vps = {}
    /\ call = [c \in Calls |-> None]
    /\ offered = {}
    /\ stale = TRUE
    /\ fresh = {}

-----------------------------------------------------------------------------
Issue(v) ==
    /\ v \notin active \cup revoked
    /\ active' = active \cup {v}
    /\ stale' = TRUE
    /\ UNCHANGED <<revoked, vps, call, offered, fresh>>

Revoke(v) ==
    /\ v \in active
    /\ active' = active \ {v}
    /\ revoked' = revoked \cup {v}
    /\ stale' = TRUE
    /\ UNCHANGED <<vps, call, offered, fresh>>

\* Mutant: list_vcs is asked for credentials of any status.
AgentScopes_AnyStatus == {ScopesOf[v] : v \in (active \cup revoked) \ SelfSigned}

\* get_agent_scopes: the scopes of the first active credential that the API
\* has, in whatever order it lists them; those signed by the agent are not there.
AgentScopes == {ScopesOf[v] : v \in active \ SelfSigned}

\* A tool without a required scope is always allowed; another one by its scope,
\* or by its name.
Allowed(t, scopes) == MarkedWith[t] = None \/ MarkedWith[t] \in scopes \/ t \in scopes

\* filter_tools_by_scope; it raises when no credential is active, and when the
\* answer has no JSON, which is no list of any.
Filter ==
    /\ \E scopes \in AgentScopes : offered' = {t \in Tools : Allowed(t, scopes)}
    /\ stale' = FALSE
    /\ fresh' = {}
    /\ UNCHANGED <<active, revoked, vps, call>>

\* sign_vp: every active credential, for one service, and the user's consent.
SignVp ==
    /\ Cardinality(vps) < MaxVps
    /\ active \ SelfSigned # {}
    /\ \E s \in Services, consent \in Consents :
         LET p == [creds |-> active \ SelfSigned, target |-> s, consent |-> consent]
         IN /\ vps' = vps \cup {p}
            /\ fresh' = IF stale \/ consent # Scopes THEN fresh ELSE fresh \cup {p}
    /\ UNCHANGED <<active, revoked, call, offered, stale>>

\* VPBuilder: whatever its caller puts in.
BuildVp ==
    /\ Cardinality(vps) < MaxVps
    /\ \E s \in Services, creds \in Built :
         vps' = vps \cup {[creds |-> creds, target |-> s, consent |-> Scopes]}
    /\ UNCHANGED <<active, revoked, call, offered, stale, fresh>>

\* The VP that a message presents: the one in _meta, or else in the header.
Presented(meta, header) ==
    IF meta \in Vp THEN meta
    ELSE IF meta # Junk /\ header \in Vp THEN header ELSE None

\* A call of a tool arrives, with what attach_helix_vp or a wrapped tool put in
\* it, or with something else. A VP can be sent any number of times.
CallTool(c) ==
    /\ call[c] = None
    /\ \E t \in Tools, meta, header \in vps \cup {None, Junk, Empty} :
         call' = [call EXCEPT ![c] =
                    [tool |-> t, meta |-> meta, header |-> header, stage |-> "arrived",
                     vp |-> None, valid |-> FALSE, scopes |-> {}, code |-> None,
                     before |-> revoked,
                     trusted |-> t \in offered /\ Presented(meta, header) \in fresh]]
    /\ UNCHANGED <<active, revoked, vps, offered, stale, fresh>>

At(c, stage) == call[c] # None /\ call[c].stage = stage

Becomes(c, r) ==
    /\ call' = [call EXCEPT ![c] = r]
    /\ UNCHANGED <<active, revoked, vps, offered, stale, fresh>>

Raises(c, code) == Becomes(c, [call[c] EXCEPT !.stage = "raised", !.code = code])

\* decode_helix_vp: the VP; None for what makes it raise.
Decoded(slot) == IF slot = Junk THEN None ELSE slot

\* Mutant: the header comes first.
Found_HeaderFirst(meta, header) ==
    IF Decoded(header) \in Vp THEN header ELSE Decoded(meta)

\* read_helix_vp_meta(...) or read_helix_vp_header(...): an empty object is no VP
\* to `or', nor to `not vp'. Text in _meta that cannot be decoded is the end.
Found(meta, header) ==
    IF meta \in {None, Empty} THEN Decoded(header) ELSE Decoded(meta)

\* Mutant: only None counts as no VP.
ReadVp_NoneOnly(c) ==
    /\ At(c, "arrived")
    /\ LET found == Found(call[c].meta, call[c].header)
       IN IF found # None
          THEN Becomes(c, [call[c] EXCEPT !.stage = "verifying", !.vp = found])
          ELSE Raises(c, "VP_MISSING")

ReadVp(c) ==
    /\ At(c, "arrived")
    /\ LET m == call[c].meta
           h == call[c].header
       IN IF Found(m, h) \notin {None, Empty}
          THEN Becomes(c, [call[c] EXCEPT !.stage = "verifying", !.vp = Found(m, h)])
          ELSE Raises(c, IF Junk \in {m, h} THEN "VP_INVALID_STRUCTURE" ELSE "VP_MISSING")

\* The API's effective scopes: the credentials', within the user's consent.
EffectiveScopes(p) == (UNION {ScopesOf[v] : v \in p.creds}) \cap p.consent

\* What the middleware's options ask of a VP beside its scopes.
Asked(t, p) ==
    /\ ServiceOf[t] \in {None, p.target}
    /\ p.creds \cap SelfSigned = {} \/ t \in SelfAllowed

\* Mutant: a VP that was valid once is not verified again.
VerifyVp_Cached(c) ==
    /\ At(c, "verifying")
    /\ LET p == call[c].vp
       IN Becomes(c, [call[c] EXCEPT !.stage = "judged",
                        !.valid = p.creds \subseteq active \cup revoked /\ Asked(call[c].tool, p),
                        !.scopes = EffectiveScopes(p)])

\* POST /v1/vp/verify: the API decides by the credentials as they are now.
VerifyVp(c) ==
    /\ At(c, "verifying")
    /\ LET p == call[c].vp
       IN Becomes(c, [call[c] EXCEPT !.stage = "judged",
                        !.valid = p.creds \subseteq active /\ Asked(call[c].tool, p),
                        !.scopes = EffectiveScopes(p)])

\* A successful answer without JSON: _request makes it {}, which has no "valid"
\* and no scopes, whatever the VP is.
VerifyBlank(c) ==
    /\ At(c, "verifying")
    /\ Becomes(c, [call[c] EXCEPT !.stage = "judged", !.valid = None])

\* The request ends in an exception: no answer, or an error of the server.
VerifyFails(c) == At(c, "verifying") /\ Raises(c, "API")

\* require_scope for each of required_scopes.
Enough(r) == RequiredOf[r.tool] \subseteq r.scopes

\* Mutant: only an answer that says no is a refusal.
Conclude_BlankPasses(c) ==
    /\ At(c, "judged")
    /\ IF call[c].valid = FALSE THEN Raises(c, "VP_VERIFICATION_FAILED")
       ELSE IF ~Enough(call[c]) THEN Raises(c, "INSUFFICIENT_SCOPE")
       ELSE Becomes(c, [call[c] EXCEPT !.stage = "ran"])

\* The middleware looks at the answer and returns, so that the handler runs, or
\* raises. An invalid VP may come as an answer or as the API's own error; and an
\* answer without "valid" is taken for that of an invalid VP.
Conclude(c) ==
    /\ At(c, "judged")
    /\ IF call[c].valid # TRUE THEN Raises(c, "VP_VERIFICATION_FAILED")
       ELSE IF ~Enough(call[c]) THEN Raises(c, "INSUFFICIENT_SCOPE")
       ELSE Becomes(c, [call[c] EXCEPT !.stage = "ran"])

Next ==
    \/ \E v \in Vcs : Issue(v) \/ Revoke(v)
    \/ Filter \/ SignVp \/ BuildVp
    \/ \E c \in Calls :
         \/ CallTool(c) \/ ReadVp(c) \/ VerifyVp(c) \/ VerifyBlank(c)
         \/ VerifyFails(c) \/ Conclude(c)

Spec == Init /\ [][Next]_vars

-----------------------------------------------------------------------------
\* What a call looks like to AccessControl. It is decided when the API answers;
\* an answer that says nothing is a failure, though the middleware then raises
\* what it raises for an invalid VP.
InOrder(t, p) ==
    /\ ServiceOf[t] \in {None, p.target}
    /\ p.creds \cap SelfSigned # {} => t \in SelfAllowed
    /\ RequiredOf[t] \subseteq EffectiveScopes(p)
Fits == {f \in Tools \X Vp : InOrder(f[1], f[2])}
Verdict(r) ==
    CASE r.stage \in {"arrived", "verifying"} -> "open"
      [] r.stage = "judged" -> IF r.valid = None THEN "failed"
                               ELSE IF r.valid /\ Enough(r) THEN "allowed" ELSE "denied"
      [] r.stage = "raised" -> IF r.code = "API" \/ r.valid = None THEN "failed"
                               ELSE "denied"
      [] r.stage = "ran"    -> "ran"
Abstract(r) ==
    IF r = None THEN None
    ELSE [tool |-> r.tool, vp |-> Presented(r.meta, r.header),
          verdict |-> Verdict(r), before |-> r.before]

Seen == [c \in Calls |-> Abstract(call[c])]
CredsOf == [p \in Vp |-> p.creds]

AC == INSTANCE AccessControl WITH Vps <- Vp, call <- Seen

\* The middleware implements AccessControl: the VP that counts is the one in
\* _meta, else the one in the header; a call runs only if that one was in order
\* at the moment when the API looked at it, for this service and with every
\* required scope. It is denied by a decision only if it was not; but it can also
\* end undecided, in an exception of the request or, when the answer has no JSON
\* (http_adapter.py:71-77), in the very VP_VERIFICATION_FAILED of an invalid VP
\* (middleware.py:40-42). The error alone does not say that the VP was bad.
ImplementsAccessControl == AC!Spec

\* Every variable has its type.
TypeOK ==
    /\ active \subseteq Vcs /\ revoked \subseteq Vcs
    /\ vps \subseteq Vp /\ fresh \subseteq Vp
    /\ offered \subseteq Tools /\ stale \in BOOLEAN
    /\ call \in [Calls -> Call \cup {None}]

\* No handler runs for a VP with a credential that was revoked before the call
\* arrived, however long the middleware takes and wherever it got the VP from.
RevokedNeverRuns ==
    \A c \in Calls : At(c, "ran") => call[c].vp.creds \cap call[c].before = {}

\* A tool that the filter offers, called with a VP signed before any credential
\* changed and for no user in particular, is not refused for its scopes, if the
\* scope it is marked with is the one that its middleware requires: unless its
\* own name is a scope, by which the filter offers it as well.
Consistent(t) == RequiredOf[t] = {MarkedWith[t]} /\ MarkedWith[t] # None /\ t \notin Scopes
OfferedNotDenied ==
    \A c \in Calls : At(c, "raised") =>
      (call[c].trusted /\ Consistent(call[c].tool) => call[c].code # "INSUFFICIENT_SCOPE")
=============================================================================
