------------------------------ MODULE DemosProofs ------------------------------
(***************************************************************************)
(* Theorems about Demos: how the example programs may end, whoever else    *)
(* uses the API and whatever becomes of their requests.                    *)
(***************************************************************************)
EXTENDS Demos, ClientApiProofs

-----------------------------------------------------------------------------
(* What requests, answers and credentials may say. *)

\* A credential which neither is the sub-agent's gift nor lets the verification
\* demo's agent write.
Credible(vc) == vc.from # "s" /\ (vc.to = "v" => "write" \notin vc.scopes)

\* Nobody asks for another kind.
Asked(op, arg) ==
    /\ op \in {"delegate", "issue_grant"} => (arg.to = "v" => "write" \notin arg.scopes)
    /\ op = "issue_grant" => arg.from # "s"
    /\ op = "register_vc" => arg[1] # "s"

\* A delegation by the sub-agent.
Further(q) == q.op = "delegate" /\ q.arg.from = "s"

\* What the answer to a request says of the credentials of its agent.
Tells(q, body) ==
    body # None =>
      /\ q.op = "onboard_agent" => body \in DOMAIN vcs /\ vcs[body].to = q.arg
      /\ q.op = "sign_vp" => \A i \in body : vcs[i].to = q.arg
      /\ q.op = "verify_vp" => ((\A i \in q.arg : vcs[i].to = "v") => "write" \notin body)

\* The codes that refuse a further delegation.
Blames(q, code) == Further(q) => code \in Refusals \cup {None, "ADMIN_AUTH_REQUIRED"}

\* What the demos read from an error.
Telling(q, error) ==
    /\ error.class \in {"Timeout", "KeyError"} => error.status = None
    /\ error.code # None => error.status # None
    /\ Further(q) /\ ~SdkOnly(q.by) /\ error.status # None =>
         error.code \in {"INTERNAL_ERROR", "ADMIN_AUTH_REQUIRED",
                         "MAX_DELEGATION_DEPTH_EXCEEDED", "SCOPE_ESCALATION_DENIED"}

FactsInv ==
    /\ \A i \in DOMAIN vcs : Credible(vcs[i])
    /\ \A q \in Known : Asked(q.op, q.arg) /\ (Further(q) => q.n \notin done)
    /\ \A a \in reply : a.status \in Nat /\ Tells(a.to, a.body) /\ Blames(a.to, a.code)
    /\ \A o \in ended : IF o.ok THEN Tells(o.req, o.body) ELSE Telling(o.req, o.error)
    /\ \A o, p \in ended : o.req = p.req => o = p

-----------------------------------------------------------------------------
(* The errors. *)

\* No class of the taxonomy has the name of one of the libraries' exceptions.
LEMMA ClassesOwn == "Timeout" \notin DOMAIN ClassStatus /\ "KeyError" \notin DOMAIN ClassStatus
<1> DEFINE Ours(g) == "Timeout" \notin DOMAIN g /\ "KeyError" \notin DOMAIN g
<1>1. Ours(DidStatus)
    BY DEF DidStatus
<1>2. Ours(GeneralStatus)
    BY DEF GeneralStatus
<1>3. Ours(VcStatus)
    BY DEF VcStatus
<1>4. Ours(DelegationStatus)
    BY DEF DelegationStatus
<1>5. Ours(LocalStatus)
    BY DEF LocalStatus
<1>6. Ours(VpStatus)
    BY DEF VpStatus
<1>7. Ours(AgentStatus)
    BY DEF AgentStatus
<1>8. Ours(PreparedStatus)
    BY DEF PreparedStatus
<1>9. Ours(AccountStatus)
    BY DEF AccountStatus
<1>10. \A g \in Groups : Ours(g)
  <2> HIDE DEF Ours
  <2> QED
    BY <1>1, <1>2, <1>3, <1>4, <1>5, <1>6, <1>7, <1>8, <1>9 DEF Groups
<1> QED
    BY <1>10 DEF ClassStatus

\* The classes and codes that the demos look for.
LEMMA ClassesKnown ==
    {"INTERNAL_ERROR", "SDK_ONLY_MODE_NO_API", "MAX_DELEGATION_DEPTH_EXCEEDED",
     "SCOPE_ESCALATION_DENIED"} \subseteq DOMAIN ClassStatus
<1>1. {GeneralStatus, LocalStatus, DelegationStatus} \subseteq Groups
    BY DEF Groups
<1>2. "INTERNAL_ERROR" \in DOMAIN GeneralStatus /\ "SDK_ONLY_MODE_NO_API" \in DOMAIN LocalStatus
    BY DEF GeneralStatus, LocalStatus
<1>3. {"MAX_DELEGATION_DEPTH_EXCEEDED", "SCOPE_ESCALATION_DENIED"} \subseteq DOMAIN DelegationStatus
    BY DEF DelegationStatus
<1> QED
    BY <1>1, <1>2, <1>3 DEF ClassStatus

\* Every one of the four codes becomes one of the two that the demo knows.
LEMMA RefusalsMapped ==
    ASSUME NEW code \in Refusals
    PROVE  /\ code # None /\ code \in DOMAIN CodeToError
           /\ CodeToError[code] \in {"MAX_DELEGATION_DEPTH_EXCEEDED", "SCOPE_ESCALATION_DENIED"}
<1> DEFINE canonical == {"MAX_DELEGATION_DEPTH_EXCEEDED", "SCOPE_ESCALATION_DENIED"}
           older == {"DELEGATION_DEPTH_EXCEEDED", "DELEGATION_SCOPE_ESCALATION"}
<1>1. code \in canonical \cup older
    BY RefusalCodes
<1>2. canonical \cup older \subseteq Codes
    BY ClassesKnown DEF Codes
<1>3. code # None
    BY <1>1, <1>2, NoneAssumption
<1>4. CASE code \in older
    BY <1>3, <1>4 DEF CodeToError, Alias
<1>5. CASE code \in canonical
  <2>1. code \notin DOMAIN LocalStatus
    BY <1>5 DEF LocalStatus
  <2>2. code \notin DOMAIN AccountStatus
    BY <1>5 DEF AccountStatus
  <2>3. code \notin Unmapped
    BY <1>5, <2>1, <2>2 DEF Unmapped
  <2>4. code \in DOMAIN ClassStatus /\ code \notin DOMAIN Alias
    BY <1>5, ClassesKnown DEF Alias
  <2> QED
    BY <1>3, <1>5, <2>3, <2>4 DEF CodeToError
<1> QED
    BY <1>1, <1>4, <1>5

\* An exception of the taxonomy has a status and none of the foreign names.
LEMMA RaisedTells ==
    ASSUME NEW class \in DOMAIN ClassStatus
    PROVE  /\ Raise(class).class \notin {"Timeout", "KeyError"}
           /\ Raise(class).code = class
           /\ Raise(class).status # None
<1>1. ClassStatus[class] \in Nat
    BY ClassesFail DEF Failing
<1> QED
    BY <1>1, ClassesOwn, SubAgentAssumption DEF Raise

\* What the exception for an answer says.
LEMMA MappedTells ==
    ASSUME NEW q, NEW code, NEW status \in Nat, Blames(q, code)
    PROVE  Telling(q, MapApiError(code, status, None))
<1> DEFINE e == MapApiError(code, status, None)
<1>1. CASE code = None
  <2>1. e = Raise("INTERNAL_ERROR")
    BY <1>1 DEF MapApiError
  <2> HIDE DEF e
  <2>2. e.class \notin {"Timeout", "KeyError"} /\ e.code = "INTERNAL_ERROR" /\ e.status # None
    BY <2>1, RaisedTells, ClassesKnown
  <2> QED
    BY <2>2 DEF Telling, e
<1>2. CASE code # None /\ code \in DOMAIN CodeToError
  <2>1. e = Raise(CodeToError[code])
    BY <1>2 DEF MapApiError
  <2>2. CodeToError[code] \in DOMAIN ClassStatus
    BY <1>2, ClassesKnown DEF CodeToError, Alias
  <2>3. e.class \notin {"Timeout", "KeyError"} /\ e.code = CodeToError[code] /\ e.status # None
    BY <2>1, <2>2, RaisedTells
  <2>4. Further(q) => CodeToError[code] \in {"MAX_DELEGATION_DEPTH_EXCEEDED",
                                             "SCOPE_ESCALATION_DENIED", "ADMIN_AUTH_REQUIRED"}
    <3>1. CodeToError["ADMIN_AUTH_REQUIRED"] = "ADMIN_AUTH_REQUIRED" \/ code # "ADMIN_AUTH_REQUIRED"
        BY <1>2 DEF CodeToError, Alias
    <3> QED
        BY <1>2, <3>1, RefusalsMapped DEF Blames
  <2> HIDE DEF e
  <2> QED
    BY <2>3, <2>4 DEF Telling, e
<1>3. CASE code # None /\ code \notin DOMAIN CodeToError
  <2>1. e = [class |-> Base, code |-> code, status |-> status]
    BY <1>3 DEF MapApiError
  <2>2. Further(q) => code = "ADMIN_AUTH_REQUIRED"
    BY <1>3, RefusalsMapped DEF Blames
  <2>3. status # None
    BY SubAgentAssumption
  <2> HIDE DEF e
  <2> QED
    BY <2>1, <2>2, <2>3 DEF Telling, Base, e
<1> QED
    BY <1>1, <1>2, <1>3

LEMMA ForeignTells ==
    ASSUME NEW q, NEW class PROVE Telling(q, Foreign(class))
BY DEF Telling, Foreign

-----------------------------------------------------------------------------
(* Requests. *)

AsksAny(c) ==
    \E op, arg, history : Call(c, op, arg, history) /\ Asked(op, arg)

LEMMA CallAsks ==
    ASSUME NEW c, NEW op, NEW arg, NEW history, Call(c, op, arg, history), Asked(op, arg)
    PROVE  AsksAny(c)
    BY DEF AsksAny

\* No method asks for what Credible excludes.
LEMMA MethodAsks == ASSUME NEW c, AnyMethod(c) PROVE AsksAny(c)
<1>1. CASE DidMethods(c)
  <2>1. CASE CreateDid(c)
    BY <2>1, CallAsks DEF CreateDid, Asked
  <2>2. CASE ResolveDid(c)
    BY <2>2, CallAsks DEF ResolveDid, Asked
  <2>3. CASE AddServiceEndpoint(c)
    BY <2>3, CallAsks DEF AddServiceEndpoint, Asked
  <2>4. CASE RemoveServiceEndpoint(c)
    BY <2>4, CallAsks DEF RemoveServiceEndpoint, Asked
  <2>5. CASE DeactivateDid(c)
    BY <2>5, CallAsks DEF DeactivateDid, Asked
  <2> QED
    BY <1>1, <2>1, <2>2, <2>3, <2>4, <2>5 DEF DidMethods
<1>2. CASE VcMethods(c)
  <2>1. CASE IssueVc(c)
    BY <2>1, CallAsks DEF IssueVc, Asked
  <2>2. CASE ReadVcs(c)
    BY <2>2, CallAsks DEF ReadVcs, Asked
  <2>3. CASE RevokeVc(c)
    BY <2>3, CallAsks DEF RevokeVc, Asked
  <2>4. CASE RenewVc(c)
    BY <2>4, CallAsks DEF RenewVc, Asked
  <2>5. CASE RegisterVc(c)
    BY <2>5, CallAsks, ScopesAssumption, SubAgentAssumption DEF RegisterVc, Asked
  <2>6. CASE CheckVcStatus(c)
    BY <2>6, CallAsks DEF CheckVcStatus, Asked
  <2> QED
    BY <1>2, <2>1, <2>2, <2>3, <2>4, <2>5, <2>6 DEF VcMethods
<1>3. CASE ServiceMethods(c)
  <2>1. CASE CreateService(c)
    BY <2>1, CallAsks DEF CreateService, Asked
  <2>2. CASE IssueServiceDelegationGrant(c)
    BY <2>2, CallAsks, ScopesAssumption, SubAgentAssumption DEF IssueServiceDelegationGrant, Asked, Ask
  <2>3. CASE GetAgentScopes(c)
    BY <2>3, CallAsks DEF GetAgentScopes, Asked
  <2>4. CASE StatusLists(c)
    BY <2>4, CallAsks DEF StatusLists, Asked
  <2>5. CASE GetAuditLog(c)
    BY <2>5, CallAsks DEF GetAuditLog, Asked
  <2>6. CASE RecordConsentGrantedAudit(c)
    BY <2>6, CallAsks DEF RecordConsentGrantedAudit, Asked
  <2> QED
    BY <1>3, <2>1, <2>2, <2>3, <2>4, <2>5, <2>6 DEF ServiceMethods
<1>4. CASE AgentMethods(c)
  <2>1. CASE VerifyVp(c)
    BY <2>1, CallAsks DEF VerifyVp, Asked
  <2>2. CASE FetchSessionPublicKey(c)
    BY <2>2, CallAsks DEF FetchSessionPublicKey, Asked
  <2>3. CASE OnboardAgent(c)
    BY <2>3, CallAsks DEF OnboardAgent, Asked
  <2>4. CASE SignVp(c)
    BY <2>4, CallAsks DEF SignVp, Asked
  <2>5. CASE DelegateAuthority(c)
    BY <2>5, CallAsks, ScopesAssumption, SubAgentAssumption DEF DelegateAuthority, Asked, Ask
  <2>6. CASE RequestUserChallenge(c)
    BY <2>6, CallAsks DEF RequestUserChallenge, Asked
  <2>7. CASE VerifyUserChallenge(c)
    BY <2>7, CallAsks DEF VerifyUserChallenge, Asked
  <2> QED
    BY <1>4, <2>1, <2>2, <2>3, <2>4, <2>5, <2>6, <2>7 DEF AgentMethods
<1> QED
    BY <1>1, <1>2, <1>3, <1>4 DEF AnyMethod

\* A call that begins: its request, and its outcome if there is no API.
LEMMA CallBegins ==
    ASSUME NumbersInv, NEW c, NEW op, NEW arg, NEW history, Call(c, op, arg, history)
    PROVE  \E r :
             /\ r.n = sent + 1 /\ r.by = c /\ r.op = op /\ r.arg = arg /\ r.history = history
             /\ r.n \notin done /\ r \notin Known
             /\ Known' = Known \cup {r}
             /\ sent' = sent + 1 /\ UNCHANGED <<reply, done>>
             /\ \/ ended' = ended
                \/ SdkOnly(c) /\ ended' = ended \cup {Raised(r, Raise("SDK_ONLY_MODE_NO_API"))}
<1> DEFINE r == [n |-> sent + 1, by |-> c, op |-> op, arg |-> arg,
                 cred |-> Credential(c, op), custodial |-> Custodial(c),
                 history |-> history]
           o == Raised(r, Raise("SDK_ONLY_MODE_NO_API"))
<1>1. r.n = sent + 1 /\ r.by = c /\ r.op = op /\ r.arg = arg /\ r.history = history /\ o.req = r
    BY DEF Raised
<1>2. r.n \notin done /\ r \notin Known
    BY <1>1 DEF NumbersInv
<1>3. sent' = sent + 1 /\ UNCHANGED <<reply, done>>
    BY DEF Call
<1>4. \/ waiting' = waiting \cup {r} /\ pending' = pending \cup {r} /\ ended' = ended
      \/ SdkOnly(c) /\ waiting' = waiting /\ pending' = pending /\ ended' = ended \cup {o}
    BY DEF Call
<1> HIDE DEF r, o
<1>5. Known' = Known \cup {r}
    BY <1>1, <1>3, <1>4 DEF Known
<1> QED
    BY <1>1, <1>2, <1>3, <1>4, <1>5 DEF o

LEMMA InitFacts == ASSUME Init PROVE FactsInv
<1>1. Known = {} /\ reply = {} /\ ended = {}
    BY DEF Init, HttpInit, Known
<1>2. \A i \in DOMAIN vcs : Credible(vcs[i])
    BY ScopesAssumption, SubAgentAssumption DEF Init, Own, Vc, Credible
<1> QED
    BY <1>1, <1>2 DEF FactsInv

LEMMA CallFacts == ASSUME NumbersInv, FactsInv, NEW c, AsksAny(c), Same PROVE FactsInv'
<1>1. PICK op, arg, history : Call(c, op, arg, history) /\ Asked(op, arg)
    BY DEF AsksAny
<1>2. PICK r :
             /\ r.n = sent + 1 /\ r.by = c /\ r.op = op /\ r.arg = arg /\ r.history = history
             /\ r.n \notin done /\ r \notin Known
             /\ Known' = Known \cup {r}
             /\ sent' = sent + 1 /\ UNCHANGED <<reply, done>>
             /\ \/ ended' = ended
                \/ SdkOnly(c) /\ ended' = ended \cup {Raised(r, Raise("SDK_ONLY_MODE_NO_API"))}
    BY <1>1, CallBegins
<1> DEFINE o == Raised(r, Raise("SDK_ONLY_MODE_NO_API"))
<1>3. UNCHANGED <<vcs, revoked>>
    BY DEF Same, apiVars
<1>4. o.req = r /\ ~o.ok /\ o.error = Raise("SDK_ONLY_MODE_NO_API")
    BY DEF Raised
<1>5. SdkOnly(c) => Telling(o.req, o.error)
  <2>1. /\ o.error.class \notin {"Timeout", "KeyError"} /\ o.error.status # None
    BY <1>4, RaisedTells, ClassesKnown
  <2> HIDE DEF o
  <2> QED
    BY <1>2, <1>4, <2>1 DEF Telling
<1>6. \A e \in ended : e.req # r
    BY <1>2 DEF Known
<1> HIDE DEF o
<1>7. \A i \in DOMAIN vcs' : Credible(vcs'[i])
    BY <1>3 DEF FactsInv
<1>8. \A q \in Known' : Asked(q.op, q.arg) /\ (Further(q) => q.n \notin done')
    BY <1>1, <1>2 DEF FactsInv
<1>9. \A q, body : Tells(q, body) => Tells(q, body)'
    BY <1>3 DEF Tells
<1>10. \A a \in reply' : a.status \in Nat /\ Tells(a.to, a.body)' /\ Blames(a.to, a.code)
    BY <1>2, <1>9 DEF FactsInv
<1>11. \A e \in ended' : IF e.ok THEN Tells(e.req, e.body)' ELSE Telling(e.req, e.error)
    BY <1>2, <1>4, <1>5, <1>9 DEF FactsInv, o
<1>12. \A e, f \in ended' : e.req = f.req => e = f
    BY <1>2, <1>4, <1>6 DEF FactsInv, o
<1> QED
    BY <1>7, <1>8, <1>10, <1>11, <1>12 DEF FactsInv

-----------------------------------------------------------------------------
(* The API serves a request. *)

\* A presentation that the API signs has all that its agent holds.
Whole(r, body) ==
    r.op = "sign_vp" => \A i \in DOMAIN vcs : vcs[i].to = r.arg => i \in body \cup revoked

\* A request is served, or refused, as FactsInv has it.
ServedWell(r) ==
    /\ \A i \in DOMAIN vcs' : Credible(vcs'[i])
    /\ \/ \E code : Refused(r, code) /\ Blames(r, code) /\ UNCHANGED <<vcs, revoked>>
       \/ /\ ~Further(r)
          /\ r.op = "revoke_vc" => r.arg \notin revoked
          /\ \E body : Done(r, body) /\ Tells(r, body)' /\ Whole(r, body)

LEMMA RefusedWell ==
    ASSUME FactsInv, NEW r, NEW code, Refused(r, code), Blames(r, code), Same
    PROVE  ServedWell(r)
BY DEF ServedWell, FactsInv, Same, apiVars

\* Operations whose answers the demos do not read and that store no credential.
LEMMA OtherWell ==
    ASSUME FactsInv, NEW r, NEW body, Done(r, body), vcs' = vcs,
           r.op \notin {"onboard_agent", "sign_vp", "verify_vp", "revoke_vc", "delegate"}
    PROVE  ServedWell(r)
<1>1. Tells(r, body)' /\ Whole(r, body) /\ ~Further(r)
    BY DEF Tells, Whole, Further
<1> QED
    BY <1>1 DEF ServedWell, FactsInv

LEMMA AppendCredible ==
    ASSUME DataInv, FactsInv, NEW x, Credible(x), vcs' = Append(vcs, x)
    PROVE  /\ \A i \in DOMAIN vcs' : Credible(vcs'[i])
           /\ Len(vcs) + 1 \in DOMAIN vcs' /\ vcs'[Len(vcs) + 1] = x
<1>1. /\ DOMAIN vcs = 1..Len(vcs) /\ Len(vcs) \in Nat
      /\ DOMAIN vcs' = 1..(Len(vcs) + 1)
      /\ vcs'[Len(vcs) + 1] = x
      /\ \A i \in DOMAIN vcs : vcs'[i] = vcs[i]
    BY AppendExtends DEF DataInv, Extends
<1> QED
    BY <1>1 DEF FactsInv

\* An agent's own credential.
LEMMA OwnCredible == ASSUME NEW t PROVE Credible(Own(t)) /\ Own(t).to = t
    BY ScopesAssumption, SubAgentAssumption DEF Credible, Own, Vc

LEMMA OnceWell ==
    ASSUME DataInv, FactsInv, NEW r, ServeOnce(r) PROVE ServedWell(r)
<1>1. r.op \in {"create_did", "add_service_endpoint", "create_service", "onboard_agent",
                "verify_user_challenge"}
    BY DEF ServeOnce, AlreadyCode
<1>2. CASE <<r.op, r.arg>> \in taken
  <2>1. Refused(r, AlreadyCode[r.op]) /\ Same /\ ~Further(r)
    BY <1>1, <1>2 DEF ServeOnce, Further
  <2> QED
    BY <2>1, RefusedWell DEF Blames
<1>3. CASE <<r.op, r.arg>> \notin taken /\ r.op # "onboard_agent"
  <2>1. Done(r, r.arg) /\ vcs' = vcs
    BY <1>3 DEF ServeOnce
  <2> QED
    BY <1>1, <1>3, <2>1, OtherWell
<1>4. CASE <<r.op, r.arg>> \notin taken /\ r.op = "onboard_agent"
  <2>1. Done(r, Len(vcs) + 1) /\ vcs' = Append(vcs, Own(r.arg))
    BY <1>4 DEF ServeOnce
  <2> DEFINE x == Own(r.arg)
             body == Len(vcs) + 1
  <2>2. Credible(x) /\ x.to = r.arg
    BY OwnCredible
  <2>3. Done(r, body) /\ vcs' = Append(vcs, x)
    BY <2>1
  <2> HIDE DEF x
  <2>4. /\ \A i \in DOMAIN vcs' : Credible(vcs'[i])
        /\ body \in DOMAIN vcs' /\ vcs'[body] = x
    BY <2>2, <2>3, AppendCredible
  <2> HIDE DEF body
  <2>5. (\A b : b = body => Tells(r, b)') /\ Whole(r, body) /\ ~Further(r)
    BY <1>4, <2>2, <2>4 DEF Tells, Whole, Further
  <2> QED
    BY <1>4, <2>3, <2>4, <2>5 DEF ServedWell
<1> QED
    BY <1>2, <1>3, <1>4

LEMMA StoreWell ==
    ASSUME DataInv, FactsInv, NEW r, Asked(r.op, r.arg), ServeStore(r) PROVE ServedWell(r)
<1>1. r.op \in {"issue_vc", "register_vc"}
    BY DEF ServeStore
<1>2. PICK body : Done(r, body)
    BY DEF ServeStore
<1>3. Tells(r, body)' /\ Whole(r, body) /\ ~Further(r)
    BY <1>1 DEF Tells, Whole, Further
<1>4. \A i \in DOMAIN vcs' : Credible(vcs'[i])
  <2>1. CASE vcs' = vcs
    BY <2>1 DEF FactsInv
  <2>2. CASE vcs' = Append(vcs, Own(r.arg))
    BY <2>2, OwnCredible, AppendCredible
  <2>3. CASE /\ r.op = "register_vc"
             /\ vcs' = Append(vcs, Vc(r.arg[2], r.arg[1], ScopesOf[r.arg[2]], 0))
    <3>1. Credible(Vc(r.arg[2], r.arg[1], ScopesOf[r.arg[2]], 0))
        BY <2>3, ScopesAssumption DEF Asked, Credible, Vc
    <3> QED
        BY <2>3, <3>1, AppendCredible
  <2> QED
    BY <2>1, <2>2, <2>3 DEF ServeStore
<1> QED
    BY <1>1, <1>2, <1>3, <1>4 DEF ServedWell

LEMMA RenewWell ==
    ASSUME DataInv, FactsInv, NEW r, WellMade(r), ServeRenew(r) PROVE ServedWell(r)
<1>1. r.op = "renew_vc" /\ r.arg \in DOMAIN vcs /\ ~Further(r)
    BY DEF ServeRenew, WellMade, Further
<1>2. CASE Refused(r, "VC_REVOKED") /\ Same
    BY <1>1, <1>2, RefusedWell DEF Blames
<1>3. CASE Done(r, Len(vcs) + 1) /\ vcs' = Append(vcs, vcs[r.arg])
  <2>1. Credible(vcs[r.arg])
    BY <1>1 DEF FactsInv
  <2>2. \A i \in DOMAIN vcs' : Credible(vcs'[i])
    BY <1>3, <2>1, AppendCredible
  <2>3. (\A b : Tells(r, b)') /\ (\A b : Whole(r, b))
    BY <1>1 DEF Tells, Whole
  <2> QED
    BY <1>1, <1>3, <2>2, <2>3 DEF ServedWell
<1> QED
    BY <1>2, <1>3 DEF ServeRenew

LEMMA RevokeWell ==
    ASSUME FactsInv, NEW r, ServeRevoke(r) PROVE ServedWell(r)
<1>1. r.op = "revoke_vc" /\ ~Further(r)
    BY DEF ServeRevoke, Further
<1>2. CASE Refused(r, "VC_ALREADY_REVOKED") /\ Same
    BY <1>1, <1>2, RefusedWell DEF Blames
<1>3. CASE r.arg \notin revoked /\ Done(r, None) /\ vcs' = vcs
  <2>1. Tells(r, None)' /\ Whole(r, None)
    BY <1>1 DEF Tells, Whole
  <2> QED
    BY <1>1, <1>3, <2>1 DEF ServedWell, FactsInv
<1> QED
    BY <1>2, <1>3 DEF ServeRevoke

LEMMA SignWell == ASSUME FactsInv, NEW r, ServeSign(r) PROVE ServedWell(r)
<1>1. r.op = "sign_vp" /\ ~Further(r) /\ Same
    BY DEF ServeSign, Further
<1>2. CASE Refused(r, "VP_NO_ACTIVE_VC")
    BY <1>1, <1>2, RefusedWell DEF Blames
<1>3. CASE Done(r, HeldBy(r.arg))
  <2>1. PICK body : body = HeldBy(r.arg)
    OBVIOUS
  <2>2. Tells(r, body)' /\ Whole(r, body)
    BY <1>1, <2>1 DEF Tells, Whole, HeldBy, Active, Same, apiVars
  <2> QED
    BY <1>1, <1>3, <2>1, <2>2 DEF ServedWell, FactsInv, Same, apiVars
<1> QED
    BY <1>2, <1>3 DEF ServeSign

LEMMA VerifyWell ==
    ASSUME FactsInv, NEW r, WellMade(r), ServeVerify(r) PROVE ServedWell(r)
<1>1. r.op = "verify_vp" /\ ~Further(r) /\ Same /\ r.arg \subseteq DOMAIN vcs
    BY DEF ServeVerify, Further, WellMade
<1>2. CASE Refused(r, "VC_REVOKED")
    BY <1>1, <1>2, RefusedWell DEF Blames
<1>3. CASE Done(r, UNION {vcs[i].scopes : i \in r.arg})
  <2>1. PICK body : body = UNION {vcs[i].scopes : i \in r.arg}
    OBVIOUS
  <2>2. (\A i \in r.arg : vcs[i].to = "v") => "write" \notin body
    BY <1>1, <2>1 DEF FactsInv, Credible
  <2>3. Tells(r, body)' /\ Whole(r, body)
    BY <1>1, <2>2 DEF Tells, Whole, Same, apiVars
  <2> QED
    BY <1>1, <1>3, <2>1, <2>3 DEF ServedWell, FactsInv, Same, apiVars
<1> QED
    BY <1>2, <1>3 DEF ServeVerify

\* The sub-agent finds nothing that it may delegate from.
LEMMA GrantWell ==
    ASSUME DataInv, FactsInv, NEW r, Asked(r.op, r.arg), ServeGrant(r) PROVE ServedWell(r)
<1>1. r.op \in {"delegate", "issue_grant"}
    BY DEF ServeGrant
<1>2. CASE Parents(r) = {}
  <2>1. PICK code \in Refusals : Refused(r, code) /\ Same
    BY <1>2 DEF ServeGrant
  <2> QED
    BY <2>1, RefusedWell DEF Blames
<1>3. CASE Parents(r) # {}
  <2>1. ~Further(r)
    BY <1>3, SubAgentAssumption DEF Further, Parents
  <2>2. r.arg.from # "s"
    BY <1>1, <2>1 DEF Further, Asked
  <2>3. PICK parent, body :
          /\ Done(r, body)
          /\ vcs' \in {vcs, Append(vcs, Vc(r.arg.to, r.arg.from, r.arg.scopes, parent))}
    BY <1>3 DEF ServeGrant
  <2>4. Credible(Vc(r.arg.to, r.arg.from, r.arg.scopes, parent))
    BY <1>1, <2>2 DEF Asked, Credible, Vc
  <2>5. \A i \in DOMAIN vcs' : Credible(vcs'[i])
    BY <2>3, <2>4, AppendCredible DEF FactsInv
  <2>6. Tells(r, body)' /\ Whole(r, body)
    BY <1>1 DEF Tells, Whole
  <2> QED
    BY <1>1, <2>1, <2>3, <2>5, <2>6 DEF ServedWell
<1> QED
    BY <1>2, <1>3

LEMMA ServeWell ==
    ASSUME DataInv, FactsInv, NEW r, WellMade(r), Asked(r.op, r.arg), Serve(r)
    PROVE  ServedWell(r)
<1>1. CASE Refused(r, "ADMIN_AUTH_REQUIRED") /\ Same
    BY <1>1, RefusedWell DEF Blames
<1>2. CASE ServeRemove(r)
  <2>1. r.op = "remove_service_endpoint" /\ ~Further(r)
    BY <1>2 DEF ServeRemove, Further
  <2> QED
    BY <1>2, <2>1, RefusedWell, OtherWell DEF ServeRemove, Blames
<1>3. CASE ServeDeactivate(r)
  <2>1. r.op = "deactivate_did" /\ ~Further(r)
    BY <1>3 DEF ServeDeactivate, Further
  <2> QED
    BY <1>3, <2>1, RefusedWell, OtherWell DEF ServeDeactivate, Blames
<1>4. CASE ServeResolve(r)
    BY <1>4, OtherWell DEF ServeResolve, Same, apiVars
<1>5. CASE ServeStatus(r)
    BY <1>5, OtherWell DEF ServeStatus, Same, apiVars
<1>6. CASE ServeOther(r)
    BY <1>6, OtherWell DEF ServeOther, Same, apiVars
<1> QED
    BY <1>1, <1>2, <1>3, <1>4, <1>5, <1>6, OnceWell, StoreWell, RenewWell, RevokeWell,
       GrantWell, SignWell, VerifyWell DEF Serve

LEMMA ServeGrows == ASSUME ApiInv, NEW r \in pending, Serve(r) PROVE Grows
<1>1. DataInv /\ WellMade(r) /\ r.n \notin done
    BY DEF ApiInv, HonestInv, NumbersInv, Known
<1>2. Served(r)
    BY <1>1, ServeServed
<1> QED
    BY <1>1, <1>2, SameGrows DEF Served, apiVars

LEMMA TellsKept ==
    ASSUME Grows, NEW q, NEW body, WellMade(q), BodyTrue(q, body), Tells(q, body)
    PROVE  Tells(q, body)'
<1> SUFFICES ASSUME body # None PROVE Tells(q, body)'
    BY DEF Tells
<1>1. q.op = "onboard_agent" => body \in DOMAIN vcs' /\ vcs'[body].to = q.arg
    BY DEF Tells, Grows, Extends
<1>2. q.op = "sign_vp" => \A i \in body : vcs'[i].to = q.arg
    BY DEF Tells, BodyTrue, Grows, Extends
<1>3. q.op = "verify_vp" => ((\A i \in q.arg : vcs'[i].to = "v") => "write" \notin body)
    BY DEF Tells, WellMade, Grows, Extends
<1> QED
    BY <1>1, <1>2, <1>3 DEF Tells

LEMMA AnswerNew ==
    ASSUME NEW r, NEW status, NEW code, NEW body, Answer(r, status, code, body)
    PROVE  /\ UNCHANGED <<waiting, ended, sent>> /\ pending' = pending \ {r}
           /\ \A a \in reply' : \/ a \in reply
                                \/ /\ r \in waiting /\ a.to = r
                                   /\ a.status = status /\ a.code = code /\ a.body = body
    BY DEF Answer, Deliver

\* What a serving brings about: what is new is said well.
LEMMA ServeEffect ==
    ASSUME ApiInv, FactsInv, NEW r \in pending, Serve(r)
    PROVE  /\ UNCHANGED <<waiting, ended, sent>> /\ Known' \subseteq Known /\ r \in Known
           /\ done' \subseteq done \cup {r.n}
           /\ r.n \in done' => ~Further(r) /\ (r.op = "revoke_vc" => r.arg \notin revoked)
           /\ \A a \in reply' :
                \/ a \in reply
                \/ /\ r \in waiting /\ a.to = r
                   /\ a.status \in Nat /\ Tells(r, a.body)' /\ Blames(r, a.code)
                   /\ a.body # None => Whole(r, a.body)
<1>1. DataInv /\ HonestInv /\ WellMade(r) /\ r.n \notin done /\ r \in Known /\ Asked(r.op, r.arg)
    BY DEF ApiInv, HonestInv, NumbersInv, Known, FactsInv
<1>2. ServedWell(r)
    BY <1>1, ServeWell
<1>3. Tells(r, None)' /\ Blames(r, None)
    BY DEF Tells, Blames
<1>4. ASSUME NEW code, Refused(r, code), Blames(r, code)
      PROVE  /\ UNCHANGED <<waiting, ended, sent>> /\ Known' \subseteq Known
             /\ done' = done
             /\ \A a \in reply' :
                  \/ a \in reply
                  \/ /\ r \in waiting /\ a.to = r /\ a.status \in Nat
                     /\ Blames(r, a.code) /\ a.body = None
  <2> DEFINE status == IF code \in DOMAIN ClassStatus THEN ClassStatus[code] ELSE 400
  <2>1. status \in Nat
    BY ClassesFail DEF Failing
  <2>2. Answer(r, status, code, None) /\ done' = done
    BY <1>4 DEF Refused
  <2> HIDE DEF status
  <2> QED
    BY <1>1, <1>4, <2>1, <2>2, AnswerNew, AnswerTo
<1>5. ASSUME NEW body, Done(r, body), Tells(r, body)', Whole(r, body)
      PROVE  /\ UNCHANGED <<waiting, ended, sent>> /\ Known' \subseteq Known
             /\ done' = done \cup {r.n}
             /\ \A a \in reply' :
                  \/ a \in reply
                  \/ /\ r \in waiting /\ a.to = r /\ a.status \in Nat
                     /\ Blames(r, a.code) /\ a.body \in {None, body}
  <2>1. PICK status, b : /\ status \in {200, 204} /\ b \in {None, body}
                         /\ Answer(r, status, None, b)
    BY <1>5 DEF Done
  <2>2. status \in Nat
    BY <2>1
  <2>3. done' = done \cup {r.n}
    BY <1>5 DEF Done
  <2> QED
    BY <1>1, <1>3, <2>1, <2>2, <2>3, AnswerNew, AnswerTo
<1>6. CASE \E code : Refused(r, code) /\ Blames(r, code)
    BY <1>1, <1>3, <1>4, <1>6
<1>7. CASE /\ ~Further(r)
           /\ r.op = "revoke_vc" => r.arg \notin revoked
           /\ \E body : Done(r, body) /\ Tells(r, body)' /\ Whole(r, body)
    BY <1>1, <1>3, <1>5, <1>7
<1> QED
    BY <1>2, <1>6, <1>7 DEF ServedWell

LEMMA ServeFacts == ASSUME ApiInv, FactsInv, NEW r \in pending, Serve(r) PROVE FactsInv'
<1>1. \A i \in DOMAIN vcs' : Credible(vcs'[i])
  <2>1. DataInv /\ WellMade(r) /\ Asked(r.op, r.arg)
    BY DEF ApiInv, Known, FactsInv
  <2> QED
    BY <2>1, ServeWell DEF ServedWell
<1>2. Grows
    BY ServeGrows
<1>3. /\ ended' = ended /\ Known' \subseteq Known /\ r \in Known
      /\ done' \subseteq done \cup {r.n}
      /\ r.n \in done' => ~Further(r)
      /\ \A a \in reply' : \/ a \in reply
                           \/ /\ a.to = r /\ a.status \in Nat
                              /\ Tells(r, a.body)' /\ Blames(r, a.code)
    BY ServeEffect
<1>4. \A q \in Known' : Asked(q.op, q.arg) /\ (Further(q) => q.n \notin done')
  <2> SUFFICES ASSUME NEW q \in Known' PROVE Asked(q.op, q.arg) /\ (Further(q) => q.n \notin done')
    OBVIOUS
  <2>1. q = r \/ q.n # r.n
    BY <1>3 DEF ApiInv, HonestInv, NumbersInv
  <2> QED
    BY <1>3, <2>1 DEF FactsInv
<1>5. \A a \in reply' : a.status \in Nat /\ Tells(a.to, a.body)' /\ Blames(a.to, a.code)
  <2> SUFFICES ASSUME NEW a \in reply
               PROVE  a.status \in Nat /\ Tells(a.to, a.body)' /\ Blames(a.to, a.code)
    BY <1>3
  <2>1. WellMade(a.to) /\ BodyTrue(a.to, a.body)
    BY DEF ApiInv, Known
  <2> QED
    BY <1>2, <2>1, TellsKept DEF FactsInv
<1>6. \A o \in ended' : IF o.ok THEN Tells(o.req, o.body)' ELSE Telling(o.req, o.error)
  <2> SUFFICES ASSUME NEW o \in ended
               PROVE  IF o.ok THEN Tells(o.req, o.body)' ELSE Telling(o.req, o.error)
    BY <1>3
  <2>1. WellMade(o.req) /\ (o.ok => BodyTrue(o.req, o.body))
    BY DEF ApiInv, Known
  <2> QED
    BY <1>2, <2>1, TellsKept DEF FactsInv
<1> QED
    BY <1>1, <1>3, <1>4, <1>5, <1>6 DEF FactsInv

-----------------------------------------------------------------------------
(* A call ends. *)

\* What a step of the network brings about: one outcome at most, of a request
\* whose caller waited, and what the answer to it said.
LEMMA NetworkEffect ==
    ASSUME ApiInv, WaitInv, FactsInv, NEW c, Network(c)
    PROVE  /\ UNCHANGED <<sent, done>> /\ Known' \subseteq Known /\ ended \subseteq ended'
           /\ \A a \in reply' : \/ a \in reply
                                \/ a.to \in waiting /\ a.status \in Nat /\ a.code = None /\ a.body = None
           /\ \/ ended' = ended
              \/ \E o : /\ ended' = ended \cup {o} /\ o.req \in waiting
                        /\ IF o.ok THEN o.body = None \/ \E a \in reply : a.to = o.req /\ a.body = o.body
                                   ELSE Telling(o.req, o.error)
<1>1. ASSUME NEW o, End(o.req, o), o.req \in waiting,
             IF o.ok THEN \E a \in reply : a.to = o.req /\ a.body = o.body
                     ELSE Telling(o.req, o.error)
      PROVE  /\ UNCHANGED <<sent, done>> /\ Known' \subseteq Known /\ ended \subseteq ended'
             /\ reply' \subseteq reply
             /\ \E e : /\ ended' = ended \cup {e} /\ e.req \in waiting
                       /\ IF e.ok THEN e.body = None \/ \E a \in reply : a.to = e.req /\ a.body = e.body
                                  ELSE Telling(e.req, e.error)
  <2>1. /\ waiting' = waiting \ {o.req} /\ reply' \subseteq reply
        /\ ended' = ended \cup {Surface(o)} /\ UNCHANGED <<pending, sent, done>>
    BY <1>1 DEF End
  <2>2. Surface(o).req = o.req /\ (Surface(o) # o => Surface(o).ok /\ Surface(o).body = None)
    BY DEF Surface, Returned
  <2>3. Known' \subseteq Known
    BY <1>1, <2>1, <2>2 DEF Known
  <2> QED
    BY <1>1, <2>1, <2>2, <2>3
<1>2. CASE Receive(c, Subscripts)
  <2>1. PICK a \in reply : End(a.to, Interpret(a.to, a, Subscripts))
    BY <1>2 DEF Receive
  <2>2. a.to \in waiting /\ a.status \in Nat /\ Blames(a.to, a.code) /\ Truthful(a)
    BY DEF WaitInv, FactsInv, ApiInv, HonestInv
  <2>3. PICK o : o = Interpret(a.to, a, Subscripts)
    OBVIOUS
  <2>4. o.req = a.to
    BY <2>2, <2>3, InterpretHonest
  <2>5. IF o.ok THEN a.body = o.body ELSE Telling(o.req, o.error)
    <3> DEFINE e == MapApiError(a.code, a.status, None)
    <3>1. Telling(a.to, e) /\ Telling(a.to, Foreign("KeyError"))
        BY <2>2, MappedTells, ForeignTells
    <3> HIDE DEF e
    <3>2. \/ o = Raised(a.to, e) \/ o = Raised(a.to, Foreign("KeyError"))
          \/ o = Returned(a.to, a.body)
        BY <2>3 DEF Interpret, e
    <3> QED
        BY <3>1, <3>2 DEF Raised, Returned
  <2> QED
    BY <1>1, <2>1, <2>2, <2>3, <2>4, <2>5
<1>3. CASE Timeout(c)
  <2>1. PICK r \in waiting : End(r, Raised(r, Foreign("Timeout")))
    BY <1>3 DEF Timeout
  <2>2. PICK o : o = Raised(r, Foreign("Timeout"))
    OBVIOUS
  <2>3. o.req = r /\ ~o.ok /\ Telling(o.req, o.error)
    BY <2>2, ForeignTells DEF Raised
  <2> QED
    BY <1>1, <2>1, <2>2, <2>3
<1>4. CASE GatewayFails(c)
  <2>1. PICK r \in waiting : Deliver(r, 502, None, None)
    BY <1>4 DEF GatewayFails
  <2>2. UNCHANGED <<waiting, pending, ended, sent, done>>
    BY <1>4 DEF GatewayFails
  <2>3. \A a \in reply' : \/ a \in reply
                          \/ a.to = r /\ a.status = 502 /\ a.code = None /\ a.body = None
    BY <2>1 DEF Deliver
  <2>4. Known' \subseteq Known
    BY <2>2, <2>3 DEF Known
  <2> QED
    BY <2>1, <2>2, <2>3, <2>4
<1> QED
    BY <1>2, <1>3, <1>4 DEF Network

LEMMA NetworkFacts ==
    ASSUME ApiInv, WaitInv, FactsInv, NEW c, Network(c) PROVE FactsInv'
<1>1. UNCHANGED <<vcs, revoked>>
    BY DEF Network, Same, apiVars
<1>2. \A q, body : Tells(q, body) => Tells(q, body)'
    BY <1>1 DEF Tells
<1>3. \A q : Tells(q, None) /\ Blames(q, None)
    BY DEF Tells, Blames
<1>4. /\ UNCHANGED <<sent, done>> /\ Known' \subseteq Known
      /\ \A a \in reply' : \/ a \in reply
                           \/ a.status \in Nat /\ a.code = None /\ a.body = None
    BY NetworkEffect
<1>5. \/ ended' = ended
      \/ \E o : /\ ended' = ended \cup {o} /\ o.req \in waiting
                /\ IF o.ok THEN Tells(o.req, o.body) ELSE Telling(o.req, o.error)
    BY <1>3, NetworkEffect DEF FactsInv
<1>6. \A i \in DOMAIN vcs' : Credible(vcs'[i])
    BY <1>1 DEF FactsInv
<1>7. \A q \in Known' : Asked(q.op, q.arg) /\ (Further(q) => q.n \notin done')
    BY <1>4 DEF FactsInv
<1>8. \A a \in reply' : a.status \in Nat /\ Tells(a.to, a.body)' /\ Blames(a.to, a.code)
    BY <1>2, <1>3, <1>4 DEF FactsInv
<1>9. \A o \in ended' : IF o.ok THEN Tells(o.req, o.body)' ELSE Telling(o.req, o.error)
    BY <1>2, <1>5 DEF FactsInv
<1>10. \A o, p \in ended' : o.req = p.req => o = p
    BY <1>5 DEF FactsInv, WaitInv
<1> QED
    BY <1>6, <1>7, <1>8, <1>9, <1>10 DEF FactsInv

-----------------------------------------------------------------------------
(* The inductive invariant of the demos. *)

\* The request is one of the demo's step k.
OfStep(d, k, q) == IF q.n = call[d] THEN at[d] = k ELSE k < at[d]

\* A step that uses the client has gone well.
Went(d, op) ==
    \E o \in ended : /\ o.req.by = d /\ o.req.op = op /\ o.ok
                     /\ o.body # None \/ op = "revoke_vc"

Once(d, op) ==
    \A q, r \in Known : q.by = d /\ r.by = d /\ q.op = op /\ r.op = op => q = r

Exits == {None, "absent", "done", "surprised", "traceback"}

\* How a demo ended.
ExitOk(d) ==
    /\ exit[d] # "surprised"
    /\ exit[d] = "done" =>
         IsLast(d) /\ \E o \in ended : o.req.n = call[d] /\ ~o.ok /\ Expected(d, o.error)
    /\ exit[d] = "traceback" =>
         (IsLast(d) => \E o \in ended : o.req.n = call[d] /\ ~o.ok /\ ~Expected(d, o.error))

ControlOf(d) ==
    /\ at[d] \in 1..Len(Script[d])
    /\ call[d] <= sent
    /\ \A q \in Known : q.n = call[d] => q.by = d
    /\ ExitOk(d)

ControlInv ==
    /\ at \in [Demo -> Nat] /\ call \in [Demo -> Nat] /\ exit \in [Demo -> Exits]
    /\ \A d \in Demo : ControlOf(d)

\* The credential and the presentation of the verification demo.
AgentVc == Result("verify", "onboard_agent")
AgentVp == Result("verify", "sign_vp")

VerifyRequest(q) ==
    \/ q.op = "onboard_agent" /\ q.arg = "v" /\ OfStep("verify", 2, q)
    \/ q.op = "sign_vp" /\ q.arg = "v" /\ OfStep("verify", 3, q)
    \/ q.op = "verify_vp" /\ q.arg = AgentVp /\ OfStep("verify", 4, q)
    \/ q.op = "revoke_vc" /\ q.arg = AgentVc /\ OfStep("verify", 5, q)
    \/ /\ q.op = "verify_vp" /\ q.arg = AgentVp /\ OfStep("verify", 6, q)
       /\ <<"revoke_vc", AgentVc>> \in q.history

VerifyInv ==
    /\ \A q \in Known : q.by = "verify" => VerifyRequest(q)
    /\ Once("verify", "onboard_agent") /\ Once("verify", "sign_vp")
    /\ at["verify"] > 2 => Went("verify", "onboard_agent")
    /\ at["verify"] > 3 => Went("verify", "sign_vp")
    /\ at["verify"] > 5 => Went("verify", "revoke_vc")

\* The credential is in the presentation, unless somebody else has revoked it,
\* whereupon the demo cannot.
Covers(body) ==
    \/ AgentVc \in body
    \/ /\ AgentVc \in revoked
       /\ \A q \in Known : q.by = "verify" /\ q.op = "revoke_vc" => q.n \notin done

Presents(q, body) == q.by = "verify" /\ q.op = "sign_vp" /\ body # None

CoversInv ==
    /\ \A a \in reply : Presents(a.to, a.body) => Covers(a.body)
    /\ \A o \in ended : o.ok /\ Presents(o.req, o.body) => Covers(o.body)

DelegationRequest(q) ==
    \/ q.op = "onboard_agent" /\ (OfStep("delegation", 2, q) \/ OfStep("delegation", 4, q))
    \/ q.op = "delegate" /\ OfStep("delegation", 5, q)
    \/ q.op = "sign_vp" /\ OfStep("delegation", 6, q)
    \/ q.op = "verify_vp" /\ OfStep("delegation", 7, q)
    \/ Further(q) /\ OfStep("delegation", 8, q)

DelegationInv ==
    /\ \A q \in Known : q.by = "delegation" => DelegationRequest(q)
    /\ Once("delegation", "sign_vp")
    /\ at["delegation"] > 6 => Went("delegation", "sign_vp")

CallsInv == ApiInv /\ WaitInv /\ FactsInv

DemoInv ==
    /\ CallsInv
    /\ ControlInv
    /\ "verify" \in Demo => VerifyInv /\ CoversInv
    /\ "delegation" \in Demo => DelegationInv

LEMMA ScriptIs ==
    /\ DOMAIN Script = {"verify", "delegation"}
    /\ LET s == Script["verify"]
       IN  /\ Len(s) = 6 /\ s[1] = "mint" /\ s[2] = "onboard" /\ s[3] = "sign"
           /\ s[4] = "verify" /\ s[5] = "revoke" /\ s[6] = "check"
    /\ LET s == Script["delegation"]
       IN  /\ Len(s) = 8 /\ s[1] = "mint" /\ s[2] = "onboard" /\ s[3] = "mint"
           /\ s[4] = "onboardSub" /\ s[5] = "delegate" /\ s[6] = "sign"
           /\ s[7] = "verify" /\ s[8] = "again"
    BY DEF Script

\* Where a demo is.
LEMMA VerifySteps ==
    ASSUME ControlInv, "verify" \in Demo
    PROVE  LET k == at["verify"] s == Step("verify")
           IN  /\ k \in 1..6 /\ (IsLast("verify") <=> k = 6)
               /\ s = "mint" <=> k = 1
               /\ s = "onboard" <=> k = 2
               /\ s = "sign" <=> k = 3
               /\ s = "verify" <=> k = 4
               /\ s = "revoke" <=> k = 5
               /\ s = "check" <=> k = 6
               /\ s \notin {"onboardSub", "delegate", "again"}
<1> DEFINE k == at["verify"]
<1>1. k \in 1..6 /\ (IsLast("verify") <=> k = 6)
    BY ScriptIs DEF ControlInv, ControlOf, IsLast
<1>2. \/ k = 1 /\ Step("verify") = "mint"
      \/ k = 2 /\ Step("verify") = "onboard"
      \/ k = 3 /\ Step("verify") = "sign"
      \/ k = 4 /\ Step("verify") = "verify"
      \/ k = 5 /\ Step("verify") = "revoke"
      \/ k = 6 /\ Step("verify") = "check"
    BY <1>1, ScriptIs DEF Step
<1> QED
    BY <1>1, <1>2

LEMMA DelegationSteps ==
    ASSUME ControlInv, "delegation" \in Demo
    PROVE  LET k == at["delegation"] s == Step("delegation")
           IN  /\ k \in 1..8 /\ (IsLast("delegation") <=> k = 8)
               /\ s = "mint" <=> k \in {1, 3}
               /\ s = "onboard" <=> k = 2
               /\ s = "onboardSub" <=> k = 4
               /\ s = "delegate" <=> k = 5
               /\ s = "sign" <=> k = 6
               /\ s = "verify" <=> k = 7
               /\ s = "again" <=> k = 8
               /\ s \notin {"revoke", "check"}
<1> DEFINE k == at["delegation"]
<1>1. k \in 1..8 /\ (IsLast("delegation") <=> k = 8)
    BY ScriptIs DEF ControlInv, ControlOf, IsLast
<1>2. \/ k = 1 /\ Step("delegation") = "mint"
      \/ k = 2 /\ Step("delegation") = "onboard"
      \/ k = 3 /\ Step("delegation") = "mint"
      \/ k = 4 /\ Step("delegation") = "onboardSub"
      \/ k = 5 /\ Step("delegation") = "delegate"
      \/ k = 6 /\ Step("delegation") = "sign"
      \/ k = 7 /\ Step("delegation") = "verify"
      \/ k = 8 /\ Step("delegation") = "again"
    BY <1>1, ScriptIs DEF Step
<1> QED
    BY <1>1, <1>2

\* What a step that went well, and was made once, has returned.
LEMMA ResultIs ==
    ASSUME CallsInv, NEW d, NEW op, Once(d, op), NEW o \in ended,
           o.req.by = d, o.req.op = op, o.ok
    PROVE  Result(d, op) = o.body
<1> DEFINE past == {e \in ended : e.req.by = d /\ e.req.op = op /\ e.ok}
<1>1. \A e \in past : e.req \in Known /\ o.req \in Known
    BY DEF Known
<1>2. \A e \in past : e.req = o.req
    BY <1>1 DEF Once
<1>3. past = {o}
    BY <1>2 DEF CallsInv, FactsInv
<1>4. o.req.n \in Nat
    BY <1>1, <1>3 DEF CallsInv, ApiInv, HonestInv, NumbersInv
<1>5. Result(d, op) = (CHOOSE e \in past : \A p \in past : p.req.n <= e.req.n).body
    BY DEF Result
<1> HIDE DEF past
<1>6. (CHOOSE e \in past : \A p \in past : p.req.n <= e.req.n) = o
    BY <1>3, <1>4
<1> QED
    BY <1>5, <1>6

\* No later outcome changes it.
LEMMA ResultKept ==
    ASSUME CallsInv, CallsInv', NEW d, NEW op, Once(d, op), Once(d, op)', Went(d, op),
           ended \subseteq ended'
    PROVE  Result(d, op)' = Result(d, op)
<1> DEFINE past == {e \in ended : e.req.by = d /\ e.req.op = op /\ e.ok}
           later == {e \in ended' : e.req.by = d /\ e.req.op = op /\ e.ok}
<1>1. PICK o \in ended : o.req.by = d /\ o.req.op = op /\ o.ok
    BY DEF Went
<1>2. past = {o}
  <2>1. \A e \in past : e.req \in Known /\ o.req \in Known
    BY DEF Known
  <2> QED
    BY <1>1, <2>1 DEF CallsInv, FactsInv, Once
<1>3. later = {o}
  <2>1. \A e \in later : e.req \in Known' /\ o.req \in Known'
    BY DEF Known
  <2> QED
    BY <1>1, <2>1 DEF CallsInv, FactsInv, Once
<1>4. Result(d, op) = (CHOOSE e \in past : \A p \in past : p.req.n <= e.req.n).body
    BY DEF Result
<1>5. Result(d, op)' = (CHOOSE e \in later : \A p \in later : p.req.n <= e.req.n).body
    BY DEF Result
<1> HIDE DEF past, later
<1> QED
    BY <1>2, <1>3, <1>4, <1>5

-----------------------------------------------------------------------------
(* What the others do leaves a demo where it is. *)

\* No step of the demo, nor a request of its.
Apart(d) ==
    /\ at'[d] = at[d] /\ call'[d] = call[d] /\ exit'[d] = exit[d]
    /\ \A q \in Known' : q \in Known \/ (q.by # d /\ q.n = sent + 1)
    /\ ended \subseteq ended' /\ sent \in Nat /\ sent' \in Nat /\ sent <= sent'

LEMMA ApartControl ==
    ASSUME NEW d \in Demo, ControlInv, Apart(d) PROVE ControlOf(d)'
<1>1. call[d] \in Nat /\ call[d] <= sent /\ at[d] \in 1..Len(Script[d])
    BY DEF ControlInv, ControlOf
<1>2. call'[d] <= sent' /\ at'[d] \in 1..Len(Script[d])
    BY <1>1 DEF Apart
<1>3. \A q \in Known' : q.n = call'[d] => q.by = d
    BY <1>1 DEF Apart, ControlInv, ControlOf
<1>4. IsLast(d)' <=> IsLast(d)
    BY DEF IsLast, Apart
<1>5. ExitOk(d)'
  <2>1. ExitOk(d)
    BY DEF ControlInv, ControlOf
  <2> QED
    BY <1>4, <2>1 DEF ExitOk, Apart
<1> QED
    BY <1>2, <1>3, <1>5 DEF ControlOf

LEMMA ApartOnce == ASSUME NEW d, NEW op, Once(d, op), Apart(d) PROVE Once(d, op)'
    BY DEF Once, Apart

LEMMA ApartWent == ASSUME NEW d, NEW op, Went(d, op), Apart(d) PROVE Went(d, op)'
    BY DEF Went, Apart

LEMMA ApartVerify ==
    ASSUME CallsInv, CallsInv', ControlInv, VerifyInv, "verify" \in Demo, Apart("verify")
    PROVE  /\ VerifyInv'
           /\ at["verify"] > 2 => AgentVc' = AgentVc
<1>1. Once("verify", "onboard_agent")' /\ Once("verify", "sign_vp")'
    BY ApartOnce DEF VerifyInv
<1>2. /\ at["verify"] > 2 => Went("verify", "onboard_agent")' /\ AgentVc' = AgentVc
      /\ at["verify"] > 3 => Went("verify", "sign_vp")' /\ AgentVp' = AgentVp
      /\ at["verify"] > 5 => Went("verify", "revoke_vc")'
    BY <1>1, ApartWent, ResultKept DEF VerifyInv, AgentVc, AgentVp, Apart
<1>3. \A k, q : OfStep("verify", k, q)' <=> OfStep("verify", k, q)
    BY DEF OfStep, Apart
<1>4. at["verify"] \in 1..6
    BY VerifySteps
<1>5. ASSUME NEW q \in Known', q.by = "verify" PROVE VerifyRequest(q)'
  <2>1. VerifyRequest(q)
    BY <1>5 DEF VerifyInv, Apart
  <2>2. /\ OfStep("verify", 4, q) => at["verify"] > 3
        /\ OfStep("verify", 5, q) => at["verify"] > 3
        /\ OfStep("verify", 6, q) => at["verify"] > 3
    BY <1>4 DEF OfStep
  <2>3. at["verify"] > 3 => at["verify"] > 2
    BY <1>4
  <2> QED
    BY <1>2, <1>3, <2>1, <2>2, <2>3 DEF VerifyRequest
<1> QED
    BY <1>1, <1>2, <1>5 DEF VerifyInv, Apart

LEMMA ApartDelegation ==
    ASSUME DelegationInv, Apart("delegation") PROVE DelegationInv'
<1>1. \A k, q : OfStep("delegation", k, q)' <=> OfStep("delegation", k, q)
    BY DEF OfStep, Apart
<1>2. Once("delegation", "sign_vp")'
    BY ApartOnce DEF DelegationInv
<1>3. at'["delegation"] > 6 => Went("delegation", "sign_vp")'
    BY ApartWent DEF DelegationInv, Apart
<1>4. \A q \in Known' : q.by = "delegation" => DelegationRequest(q)'
    BY <1>1 DEF DelegationInv, DelegationRequest, Apart
<1> QED
    BY <1>2, <1>3, <1>4 DEF DelegationInv

\* A request of the verification demo for its presentation comes after the
\* credential has been made.
LEMMA SignStep ==
    ASSUME ControlInv, VerifyInv, "verify" \in Demo, NEW q \in Known, q.by = "verify",
           q.op = "sign_vp"
    PROVE  q.arg = "v" /\ at["verify"] > 2
<1>1. q.arg = "v" /\ OfStep("verify", 3, q)
    BY DEF VerifyInv, VerifyRequest
<1>2. at["verify"] \in 1..6
    BY VerifySteps
<1> QED
    BY <1>1, <1>2 DEF OfStep

\* While that request waits, the demo has asked for no revocation.
LEMMA SignBeforeRevoke ==
    ASSUME CallsInv, ControlInv, VerifyInv, "verify" \in Demo,
           NEW r \in waiting, r.by = "verify", r.op = "sign_vp",
           NEW q \in Known, q.by = "verify", q.op = "revoke_vc"
    PROVE  FALSE
<1>1. OfStep("verify", 5, q) /\ at["verify"] \in 1..6
    BY VerifySteps DEF VerifyInv, VerifyRequest
<1>2. at["verify"] > 3
    BY <1>1 DEF OfStep
<1>3. PICK o \in ended : o.req.by = "verify" /\ o.req.op = "sign_vp"
    BY <1>2 DEF VerifyInv, Went
<1>4. o.req = r
    BY <1>3 DEF VerifyInv, Once, Known
<1> QED
    BY <1>4 DEF CallsInv, WaitInv

\* The credential is one of the agent's.
LEMMA AgentVcHeld ==
    ASSUME CallsInv, ControlInv, VerifyInv, "verify" \in Demo, at["verify"] > 2
    PROVE  AgentVc \in DOMAIN vcs /\ vcs[AgentVc].to = "v"
<1>1. PICK o \in ended : /\ o.req.by = "verify" /\ o.req.op = "onboard_agent" /\ o.ok
                         /\ o.body # None
    BY DEF VerifyInv, Went
<1>2. AgentVc = o.body
    BY <1>1, ResultIs DEF VerifyInv, AgentVc
<1>3. o.req.arg = "v"
    BY <1>1 DEF VerifyInv, VerifyRequest, Known
<1>4. Tells(o.req, o.body)
    BY <1>1 DEF CallsInv, FactsInv
<1> QED
    BY <1>1, <1>2, <1>3, <1>4 DEF Tells

LEMMA CoversKept ==
    ASSUME NEW body, Covers(body), AgentVc' = AgentVc, revoked \subseteq revoked',
           \A q \in Known' : q.by = "verify" /\ q.op = "revoke_vc" =>
             q \in Known /\ (AgentVc \in revoked /\ q.n \in done' => q.n \in done)
    PROVE  Covers(body)'
BY DEF Covers

\* When every demo stays where it is, only what presentations cover is left.
LEMMA AllApart ==
    ASSUME DemoInv, CallsInv', UNCHANGED demoVars, \A d \in Demo : Apart(d),
           "verify" \in Demo /\ VerifyInv' => CoversInv'
    PROVE  DemoInv'
<1>1. ControlInv'
  <2>1. at' \in [Demo -> Nat] /\ call' \in [Demo -> Nat] /\ exit' \in [Demo -> Exits]
    BY DEF DemoInv, ControlInv, demoVars
  <2>2. \A d \in Demo : ControlOf(d)'
    BY ApartControl DEF DemoInv
  <2> QED
    BY <2>1, <2>2 DEF ControlInv
<1>2. "verify" \in Demo => VerifyInv'
    BY ApartVerify DEF DemoInv
<1>3. "delegation" \in Demo => DelegationInv'
    BY ApartDelegation DEF DemoInv
<1> QED
    BY <1>1, <1>2, <1>3 DEF DemoInv

LEMMA OtherCall ==
    ASSUME DemoInv, NEW c \in Others, AnyMethod(c), Same, UNCHANGED demoVars
    PROVE  DemoInv'
<1>1. CallsInv'
  <2>1. NumbersInv
    BY DEF DemoInv, CallsInv, ApiInv, HonestInv
  <2> QED
    BY <2>1, MethodCalls, MethodAsks, CallApi, CallWait, CallFacts DEF DemoInv, CallsInv
<1>2. PICK op, arg, history : Call(c, op, arg, history)
    BY MethodAsks DEF AsksAny
<1>3. NumbersInv
    BY DEF DemoInv, CallsInv, ApiInv, HonestInv
<1>4. PICK r :
             /\ r.n = sent + 1 /\ r.by = c /\ r.op = op /\ r.arg = arg /\ r.history = history
             /\ r.n \notin done /\ r \notin Known
             /\ Known' = Known \cup {r}
             /\ sent' = sent + 1 /\ UNCHANGED <<reply, done>>
             /\ \/ ended' = ended
                \/ SdkOnly(c) /\ ended' = ended \cup {Raised(r, Raise("SDK_ONLY_MODE_NO_API"))}
    BY <1>2, <1>3, CallBegins
<1>5. c \notin Demo
    BY DemoAssumption
<1>6. \A d \in Demo : Apart(d)
    BY <1>3, <1>4, <1>5 DEF Apart, demoVars, NumbersInv
<1>7. ASSUME "verify" \in Demo, VerifyInv' PROVE CoversInv'
  <2>1. c # "verify"
    BY <1>5, <1>7
  <2>2. at["verify"] > 2 => AgentVc' = AgentVc
    BY <1>1, <1>6, <1>7, ApartVerify DEF DemoInv
  <2>3. ASSUME NEW body, NEW q \in Known, Presents(q, body), Covers(body) PROVE Covers(body)'
    <3>1. AgentVc' = AgentVc
        BY <1>7, <2>2, <2>3, SignStep DEF Presents, DemoInv
    <3>2. revoked' = revoked
        BY DEF Same, apiVars
    <3> QED
        BY <1>4, <2>1, <2>3, <3>1, <3>2, CoversKept
  <2>4. \A a \in reply' : Presents(a.to, a.body) => Covers(a.body)'
    BY <1>4, <1>7, <2>3 DEF DemoInv, CoversInv, Known
  <2>5. \A o \in ended' : o.ok /\ Presents(o.req, o.body) => Covers(o.body)'
    <3>1. ~Raised(r, Raise("SDK_ONLY_MODE_NO_API")).ok
        BY DEF Raised
    <3>2. \A o \in ended' : o.ok => o \in ended
        BY <1>4, <3>1
    <3> QED
        BY <1>7, <2>3, <3>2 DEF DemoInv, CoversInv, Known
  <2> QED
    BY <2>4, <2>5 DEF CoversInv
<1> QED
    BY <1>1, <1>6, <1>7, AllApart

LEMMA NetworkStep ==
    ASSUME DemoInv, NEW c, Network(c), UNCHANGED demoVars PROVE DemoInv'
<1>1. CallsInv'
    BY NetworkApi, NetworkWait, NetworkFacts DEF DemoInv, CallsInv
<1>2. /\ UNCHANGED <<sent, done>> /\ Known' \subseteq Known /\ ended \subseteq ended'
      /\ \A a \in reply' : \/ a \in reply
                           \/ a.body = None
      /\ \/ ended' = ended
         \/ \E o : /\ ended' = ended \cup {o}
                   /\ o.ok => o.body = None \/ \E a \in reply : a.to = o.req /\ a.body = o.body
    BY NetworkEffect DEF DemoInv, CallsInv
<1>3. sent \in Nat /\ sent' \in Nat
    BY <1>2 DEF DemoInv, CallsInv, ApiInv, HonestInv, NumbersInv
<1>4. \A d \in Demo : Apart(d)
    BY <1>2, <1>3 DEF Apart, demoVars
<1>5. ASSUME "verify" \in Demo, VerifyInv' PROVE CoversInv'
  <2>1. at["verify"] > 2 => AgentVc' = AgentVc
    BY <1>1, <1>4, <1>5, ApartVerify DEF DemoInv
  <2>2. ASSUME NEW body, NEW q \in Known, Presents(q, body), Covers(body) PROVE Covers(body)'
    <3>1. AgentVc' = AgentVc
        BY <1>5, <2>1, <2>2, SignStep DEF Presents, DemoInv
    <3>2. revoked' = revoked
        BY DEF Network, Same, apiVars
    <3> QED
        BY <1>2, <2>2, <3>1, <3>2, CoversKept
  <2>3. \A a \in reply : a.to \in Known /\ (Presents(a.to, a.body) => Covers(a.body))
    BY <1>5 DEF DemoInv, CoversInv, Known
  <2>4. \A a \in reply' : Presents(a.to, a.body) => Covers(a.body)'
    BY <1>2, <2>2, <2>3 DEF Presents
  <2>5. \A o \in ended' : o.ok /\ Presents(o.req, o.body) => Covers(o.body)'
    <3>1. \A o \in ended : o.req \in Known /\ (o.ok /\ Presents(o.req, o.body) => Covers(o.body))
        BY <1>5 DEF DemoInv, CoversInv, Known
    <3>2. \A o \in ended' : \/ o \in ended
                            \/ o.ok => o.body = None \/ \E a \in reply : a.to = o.req /\ a.body = o.body
        BY <1>2
    <3>3. \A o \in ended' : o.ok /\ Presents(o.req, o.body) => o.req \in Known /\ Covers(o.body)
        BY <2>3, <3>1, <3>2 DEF Presents
    <3> QED
        BY <2>2, <3>3
  <2> QED
    BY <2>4, <2>5 DEF CoversInv
<1> QED
    BY <1>1, <1>4, <1>5, AllApart

LEMMA ServeStep ==
    ASSUME DemoInv, NEW r \in pending, Serve(r), UNCHANGED demoVars PROVE DemoInv'
<1>1. CallsInv'
    BY ServeApi, ServeWait, ServeFacts DEF DemoInv, CallsInv
<1>2. /\ UNCHANGED <<waiting, ended, sent>> /\ Known' \subseteq Known /\ r \in Known
      /\ done' \subseteq done \cup {r.n}
      /\ r.n \in done' => (r.op = "revoke_vc" => r.arg \notin revoked)
      /\ \A a \in reply' :
           \/ a \in reply
           \/ /\ r \in waiting /\ a.to = r
              /\ a.body # None => Whole(r, a.body)
    BY ServeEffect DEF DemoInv, CallsInv
<1>3. sent \in Nat /\ sent' \in Nat
    BY <1>2 DEF DemoInv, CallsInv, ApiInv, HonestInv, NumbersInv
<1>4. \A d \in Demo : Apart(d)
    BY <1>2, <1>3 DEF Apart, demoVars
<1>5. revoked \subseteq revoked'
    BY ServeGrows DEF Grows, DemoInv, CallsInv
<1>6. ASSUME "verify" \in Demo, VerifyInv' PROVE CoversInv'
  <2>1. at["verify"] > 2 => AgentVc' = AgentVc
    BY <1>1, <1>4, <1>6, ApartVerify DEF DemoInv
  <2>2. ASSUME NEW body, NEW q \in Known, Presents(q, body), Covers(body) PROVE Covers(body)'
    <3>1. AgentVc' = AgentVc
        BY <1>6, <2>1, <2>2, SignStep DEF Presents, DemoInv
    <3>2. ASSUME NEW p \in Known', p.by = "verify", p.op = "revoke_vc",
                 AgentVc \in revoked, p.n \in done'
          PROVE  p.n \in done
      <4>1. p \in Known /\ p.arg = AgentVc
        BY <1>2, <1>6, <3>2 DEF DemoInv, VerifyInv, VerifyRequest
      <4>2. p = r \/ p.n # r.n
        BY <1>2, <4>1 DEF DemoInv, CallsInv, ApiInv, HonestInv, NumbersInv
      <4> QED
        BY <1>2, <3>2, <4>1, <4>2
    <3> QED
        BY <1>2, <1>5, <2>2, <3>1, <3>2, CoversKept
  <2>3. ASSUME NEW body, r \in waiting, Presents(r, body), Whole(r, body) PROVE Covers(body)'
    <3>1. r.arg = "v" /\ at["verify"] > 2 /\ AgentVc' = AgentVc
        BY <1>2, <1>6, <2>1, <2>3, SignStep DEF Presents, DemoInv
    <3>2. AgentVc \in body \cup revoked
        BY <1>6, <2>3, <3>1, AgentVcHeld DEF Presents, Whole, DemoInv
    <3>3. \A q \in Known' : ~(q.by = "verify" /\ q.op = "revoke_vc")
        BY <1>2, <1>6, <2>3, SignBeforeRevoke DEF Presents, DemoInv
    <3> QED
        BY <1>5, <3>1, <3>2, <3>3 DEF Covers
  <2>4. \A a \in reply' : Presents(a.to, a.body) => Covers(a.body)'
    <3>1. \A a \in reply : a.to \in Known /\ (Presents(a.to, a.body) => Covers(a.body))
        BY <1>6 DEF DemoInv, CoversInv, Known
    <3>2. \A a \in reply' : a \in reply \/ ~Presents(a.to, a.body)
                              \/ (r \in waiting /\ a.to = r /\ Whole(r, a.body))
        BY <1>2 DEF Presents
    <3> QED
        BY <2>2, <2>3, <3>1, <3>2
  <2>5. \A o \in ended' : o.ok /\ Presents(o.req, o.body) => Covers(o.body)'
    BY <1>2, <1>6, <2>2 DEF DemoInv, CoversInv, Known
  <2> QED
    BY <2>4, <2>5 DEF CoversInv
<1> QED
    BY <1>1, <1>4, <1>6, AllApart

-----------------------------------------------------------------------------
(* A demo calls. *)

\* Whatever it calls, the requests of before stay at their steps, and no step
\* returns anything else.
LEMMA DemoCall ==
    ASSUME DemoInv, NEW d \in Demo, MakeCall(d), NEW op, NEW arg, NEW history,
           Call(d, op, arg, history), Legal(d, op, arg, history), Asked(op, arg)
    PROVE  /\ CallsInv' /\ ControlInv'
           /\ \A e \in Demo \ {d} : Apart(e)
           /\ \A e, x : Result(e, x)' = Result(e, x) /\ (Went(e, x) => Went(e, x)')
           /\ \A k : \A q \in Known : OfStep(d, k, q)' <=> OfStep(d, k, q)
           /\ \A k : \A q \in Known : OfStep(d, k, q) => k < at[d]
           /\ UNCHANGED <<at, reply, done, revoked>>
           /\ \A o \in ended' : o.ok => o \in ended
           /\ \E r : /\ r.by = d /\ r.op = op /\ r.arg = arg /\ r.history = history
                     /\ r.n \notin done /\ Known' = Known \cup {r}
                     /\ OfStep(d, at[d], r)'
<1>1. NumbersInv
    BY DEF DemoInv, CallsInv, ApiInv, HonestInv
<1>2. PICK r :
             /\ r.n = sent + 1 /\ r.by = d /\ r.op = op /\ r.arg = arg /\ r.history = history
             /\ r.n \notin done /\ r \notin Known
             /\ Known' = Known \cup {r}
             /\ sent' = sent + 1 /\ UNCHANGED <<reply, done>>
             /\ \/ ended' = ended
                \/ SdkOnly(d) /\ ended' = ended \cup {Raised(r, Raise("SDK_ONLY_MODE_NO_API"))}
    BY <1>1, CallBegins
<1>3. /\ exit[d] = None /\ call[d] = 0 /\ Same /\ UNCHANGED <<at, exit, revoked>>
      /\ call' = [call EXCEPT ![d] = sent + 1]
    BY DEF MakeCall, Same, apiVars
<1>4. CallsInv'
    BY <1>1, <1>3, CallIsAny, CallAsks, CallApi, CallWait, CallFacts DEF DemoInv, CallsInv
<1>5. ~Raised(r, Raise("SDK_ONLY_MODE_NO_API")).ok
    BY DEF Raised
<1>6. ended \subseteq ended' /\ \A o \in ended' : o.ok => o \in ended
    BY <1>2, <1>5
<1>7. /\ sent \in Nat /\ \A q \in Known : q.n \in Nat /\ q.n >= 1 /\ q.n <= sent
      /\ call \in [Demo -> Nat]
    BY <1>1 DEF NumbersInv, DemoInv, ControlInv
<1>8. call'[d] = sent + 1 /\ \A e \in Demo \ {d} : call'[e] = call[e]
    BY <1>3, <1>7
<1>9. \A e \in Demo \ {d} : Apart(e)
    BY <1>2, <1>3, <1>6, <1>7, <1>8 DEF Apart
<1>10. \A e, x : Result(e, x)' = Result(e, x) /\ (Went(e, x) => Went(e, x)')
  <2> TAKE e, x
  <2>1. {o \in ended' : o.req.by = e /\ o.req.op = x /\ o.ok}
          = {o \in ended : o.req.by = e /\ o.req.op = x /\ o.ok}
    BY <1>6
  <2> QED
    BY <1>6, <2>1 DEF Result, Went
<1>11. \A k : \A q \in Known : OfStep(d, k, q) <=> k < at[d]
    BY <1>3, <1>7 DEF OfStep
<1>12. \A k : \A q \in Known : OfStep(d, k, q)' <=> k < at[d]
    BY <1>3, <1>7, <1>8 DEF OfStep
<1>13. OfStep(d, at[d], r)'
    BY <1>2, <1>3, <1>8 DEF OfStep
<1>14. ControlInv'
  <2>1. at' \in [Demo -> Nat] /\ call' \in [Demo -> Nat] /\ exit' \in [Demo -> Exits]
    BY <1>3, <1>7 DEF DemoInv, ControlInv
  <2>2. ControlOf(d)
    BY DEF DemoInv, ControlInv
  <2>3. ExitOk(d)'
    <3>1. \A o \in ended : o.req.n # call[d]
        BY <1>3, <1>7 DEF Known
    <3>2. exit[d] \notin {"surprised", "done"} /\ (exit[d] = "traceback" => ~IsLast(d))
        BY <2>2, <3>1 DEF ControlOf, ExitOk
    <3>3. exit'[d] = exit[d] /\ (IsLast(d)' <=> IsLast(d))
        BY <1>3 DEF IsLast
    <3> QED
        BY <3>2, <3>3 DEF ExitOk
  <2>4. \A q \in Known' : q.n = call'[d] => q.by = d
    BY <1>2, <1>7, <1>8
  <2>5. ControlOf(d)'
    BY <1>2, <1>3, <1>7, <1>8, <2>2, <2>3, <2>4 DEF ControlOf
  <2>6. \A e \in Demo \ {d} : ControlOf(e)'
    BY <1>9, ApartControl DEF DemoInv
  <2> QED
    BY <2>1, <2>5, <2>6 DEF ControlInv
<1> QED
    BY <1>2, <1>3, <1>4, <1>6, <1>9, <1>10, <1>11, <1>12, <1>13, <1>14

\* What the verification demo calls.
VerifyCall ==
    \/ at["verify"] = 2 /\ Call("verify", "onboard_agent", "v", {})
    \/ at["verify"] = 3 /\ Call("verify", "sign_vp", "v", {})
    \/ at["verify"] \in {4, 6} /\ Call("verify", "verify_vp", AgentVp, Told)
    \/ at["verify"] = 5 /\ Call("verify", "revoke_vc", AgentVc, {})

LEMMA VerifyCalls ==
    ASSUME ControlInv, "verify" \in Demo, MakeCall("verify") PROVE VerifyCall
<1>1. CallOf("verify") /\ Step("verify") # "mint"
    BY DEF MakeCall
<1>2. /\ at["verify"] \in 1..6
      /\ Step("verify") = "mint" <=> at["verify"] = 1
      /\ Step("verify") = "onboard" <=> at["verify"] = 2
      /\ Step("verify") = "sign" <=> at["verify"] = 3
      /\ Step("verify") = "verify" <=> at["verify"] = 4
      /\ Step("verify") = "revoke" <=> at["verify"] = 5
      /\ Step("verify") = "check" <=> at["verify"] = 6
      /\ Step("verify") \notin {"onboardSub", "delegate", "again"}
    BY VerifySteps
<1>3. CASE at["verify"] = 2
  <2>1. Step("verify") = "onboard"
    BY <1>2, <1>3
  <2> QED
    BY <1>1, <1>3, <2>1 DEF CallOf, VerifyCall
<1>4. CASE at["verify"] = 3
  <2>1. Step("verify") = "sign"
    BY <1>2, <1>4
  <2> QED
    BY <1>1, <1>4, <2>1 DEF CallOf, VerifyCall, Agent
<1>5. CASE at["verify"] \in {4, 6}
  <2>1. Step("verify") \in {"verify", "check"}
    BY <1>2, <1>5
  <2> QED
    BY <1>1, <1>5, <2>1 DEF CallOf, VerifyCall, AgentVp
<1>6. CASE at["verify"] = 5
  <2>1. Step("verify") = "revoke"
    BY <1>2, <1>6
  <2> QED
    BY <1>1, <1>6, <2>1 DEF CallOf, VerifyCall, AgentVc
<1> QED
    BY <1>1, <1>2, <1>3, <1>4, <1>5, <1>6

\* What is presented was signed.
LEMMA VpSigned ==
    ASSUME CallsInv, NEW d, Once(d, "sign_vp"), Went(d, "sign_vp")
    PROVE  \E o \in ended : /\ o.req.by = d /\ o.req.op = "sign_vp" /\ o.ok
                            /\ o.body # None /\ Result(d, "sign_vp") = o.body
BY ResultIs DEF Went

LEMMA MakeVerify ==
    ASSUME DemoInv, "verify" \in Demo, MakeCall("verify") PROVE DemoInv'
<1>1. VerifyCall
    BY VerifyCalls DEF DemoInv
<1>2. PICK op, arg, history :
        /\ Call("verify", op, arg, history)
        /\ Legal("verify", op, arg, history) /\ Asked(op, arg)
        /\ \/ at["verify"] = 2 /\ op = "onboard_agent" /\ arg = "v"
           \/ at["verify"] = 3 /\ op = "sign_vp" /\ arg = "v"
           \/ at["verify"] \in {4, 6} /\ op = "verify_vp" /\ arg = AgentVp /\ history = Told
           \/ at["verify"] = 5 /\ op = "revoke_vc" /\ arg = AgentVc
  <2>1. CASE at["verify"] = 2 /\ Call("verify", "onboard_agent", "v", {})
    BY <2>1 DEF Legal, Asked
  <2>2. CASE at["verify"] = 3 /\ Call("verify", "sign_vp", "v", {})
    BY <2>2 DEF Legal, Asked
  <2>3. CASE at["verify"] \in {4, 6} /\ Call("verify", "verify_vp", AgentVp, Told)
    <3>1. at["verify"] > 3
        BY <2>3
    <3>2. \E o \in ended : o.ok /\ o.req.op = "sign_vp" /\ o.body # None /\ AgentVp = o.body
        BY <3>1, VpSigned DEF DemoInv, VerifyInv, AgentVp
    <3>3. Legal("verify", "verify_vp", AgentVp, Told) /\ Asked("verify_vp", AgentVp)
        BY <3>2 DEF Legal, Asked
    <3> QED
        BY <2>3, <3>3
  <2>4. CASE at["verify"] = 5 /\ Call("verify", "revoke_vc", AgentVc, {})
    <3>1. AgentVc \in DOMAIN vcs
        BY <2>4, AgentVcHeld DEF DemoInv
    <3>2. Legal("verify", "revoke_vc", AgentVc, {}) /\ Asked("revoke_vc", AgentVc)
        BY <3>1 DEF Legal, Asked
    <3> QED
        BY <2>4, <3>2
  <2> QED
    BY <1>1, <2>1, <2>2, <2>3, <2>4 DEF VerifyCall
<1>3. /\ CallsInv' /\ ControlInv'
      /\ \A e \in Demo \ {"verify"} : Apart(e)
      /\ \A e, x : Result(e, x)' = Result(e, x) /\ (Went(e, x) => Went(e, x)')
      /\ \A k : \A q \in Known : OfStep("verify", k, q)' <=> OfStep("verify", k, q)
      /\ \A k : \A q \in Known : OfStep("verify", k, q) => k < at["verify"]
      /\ UNCHANGED <<at, reply, done, revoked>>
      /\ \A o \in ended' : o.ok => o \in ended
    BY <1>2, DemoCall
<1>4. PICK r : /\ r.by = "verify" /\ r.op = op /\ r.arg = arg /\ r.history = history
               /\ r.n \notin done /\ Known' = Known \cup {r}
               /\ OfStep("verify", at["verify"], r)'
    BY <1>2, DemoCall
<1>5. UNCHANGED <<AgentVc, AgentVp>>
    BY <1>3 DEF AgentVc, AgentVp
<1>6. VerifyRequest(r)'
  <2>1. CASE at["verify"] = 6
    <3>1. PICK o \in ended : o.req.by = "verify" /\ o.req.op = "revoke_vc" /\ o.ok
        BY <2>1 DEF DemoInv, VerifyInv, Went
    <3>2. o.req.arg = AgentVc
        BY <2>1, <3>1 DEF DemoInv, VerifyInv, VerifyRequest, Known
    <3>3. <<"revoke_vc", AgentVc>> \in Told
        BY <3>1, <3>2 DEF Told
    <3> QED
        BY <1>2, <1>3, <1>4, <1>5, <2>1, <3>3 DEF VerifyRequest
  <2>2. CASE at["verify"] # 6
    BY <1>2, <1>3, <1>4, <1>5, <2>2 DEF VerifyRequest
  <2> QED
    BY <2>1, <2>2
<1>7. \A q \in Known : q.by = "verify" => VerifyRequest(q)'
    BY <1>3, <1>5 DEF DemoInv, VerifyInv, VerifyRequest
<1>8. \A q \in Known : q.by = "verify" => VerifyRequest(q)
    BY DEF DemoInv, VerifyInv
<1>9. Once("verify", "onboard_agent")'
  <2>1. op = "onboard_agent" => \A q \in Known : q.by = "verify" => q.op # "onboard_agent"
    BY <1>2, <1>3, <1>8 DEF VerifyRequest
  <2> QED
    BY <1>4, <2>1 DEF Once, DemoInv, VerifyInv
<1>10. Once("verify", "sign_vp")'
  <2>1. op = "sign_vp" => \A q \in Known : q.by = "verify" => q.op # "sign_vp"
    BY <1>2, <1>3, <1>8 DEF VerifyRequest
  <2> QED
    BY <1>4, <2>1 DEF Once, DemoInv, VerifyInv
<1>11. VerifyInv'
    BY <1>3, <1>4, <1>6, <1>7, <1>9, <1>10 DEF DemoInv, VerifyInv
<1>12. CoversInv'
  <2>1. \A body : Covers(body) => Covers(body)'
    BY <1>3, <1>4, <1>5 DEF Covers
  <2> QED
    BY <1>3, <2>1 DEF DemoInv, CoversInv
<1>13. "delegation" \in Demo => DelegationInv'
    BY <1>3, ApartDelegation DEF DemoInv
<1> QED
    BY <1>3, <1>11, <1>12, <1>13 DEF DemoInv

\* What the delegation demo calls.
DelegationCall ==
    \/ at["delegation"] = 2 /\ Call("delegation", "onboard_agent", "g", {})
    \/ at["delegation"] = 4 /\ Call("delegation", "onboard_agent", "s", {})
    \/ at["delegation"] = 5 /\ Call("delegation", "delegate", Asks("delegate"), {})
    \/ at["delegation"] = 6 /\ Call("delegation", "sign_vp", "s", {})
    \/ at["delegation"] = 7 /\ Call("delegation", "verify_vp", Result("delegation", "sign_vp"), Told)
    \/ at["delegation"] = 8 /\ Call("delegation", "delegate", Asks("again"), {})

LEMMA DelegationCalls ==
    ASSUME ControlInv, "delegation" \in Demo, MakeCall("delegation") PROVE DelegationCall
<1>1. CallOf("delegation") /\ Step("delegation") # "mint"
    BY DEF MakeCall
<1>2. /\ at["delegation"] \in 1..8
      /\ Step("delegation") = "mint" <=> at["delegation"] \in {1, 3}
      /\ Step("delegation") = "onboard" <=> at["delegation"] = 2
      /\ Step("delegation") = "onboardSub" <=> at["delegation"] = 4
      /\ Step("delegation") = "delegate" <=> at["delegation"] = 5
      /\ Step("delegation") = "sign" <=> at["delegation"] = 6
      /\ Step("delegation") = "verify" <=> at["delegation"] = 7
      /\ Step("delegation") = "again" <=> at["delegation"] = 8
    BY DelegationSteps
<1>3. CASE at["delegation"] = 2
  <2>1. Step("delegation") = "onboard"
    BY <1>2, <1>3
  <2> QED
    BY <1>1, <1>3, <2>1 DEF CallOf, DelegationCall
<1>4. CASE at["delegation"] = 4
  <2>1. Step("delegation") = "onboardSub"
    BY <1>2, <1>4
  <2> QED
    BY <1>1, <1>4, <2>1 DEF CallOf, DelegationCall
<1>5. CASE at["delegation"] = 5
  <2>1. Step("delegation") = "delegate"
    BY <1>2, <1>5
  <2> QED
    BY <1>1, <1>5, <2>1 DEF CallOf, DelegationCall
<1>6. CASE at["delegation"] = 6
  <2>1. Step("delegation") = "sign"
    BY <1>2, <1>6
  <2> QED
    BY <1>1, <1>6, <2>1 DEF CallOf, DelegationCall, Agent
<1>7. CASE at["delegation"] = 7
  <2>1. Step("delegation") = "verify"
    BY <1>2, <1>7
  <2> QED
    BY <1>1, <1>7, <2>1 DEF CallOf, DelegationCall
<1>8. CASE at["delegation"] = 8
  <2>1. Step("delegation") = "again"
    BY <1>2, <1>8
  <2> QED
    BY <1>1, <1>8, <2>1 DEF CallOf, DelegationCall
<1> QED
    BY <1>1, <1>2, <1>3, <1>4, <1>5, <1>6, <1>7, <1>8

LEMMA MakeDelegation ==
    ASSUME DemoInv, "delegation" \in Demo, MakeCall("delegation") PROVE DemoInv'
<1>1. DelegationCall
    BY DelegationCalls DEF DemoInv
<1>2. PICK op, arg, history :
        /\ Call("delegation", op, arg, history)
        /\ Legal("delegation", op, arg, history) /\ Asked(op, arg)
        /\ \/ at["delegation"] \in {2, 4} /\ op = "onboard_agent"
           \/ at["delegation"] = 5 /\ op = "delegate"
           \/ at["delegation"] = 6 /\ op = "sign_vp"
           \/ at["delegation"] = 7 /\ op = "verify_vp"
           \/ at["delegation"] = 8 /\ op = "delegate" /\ arg.from = "s"
  <2>1. CASE at["delegation"] = 2 /\ Call("delegation", "onboard_agent", "g", {})
    BY <2>1 DEF Legal, Asked
  <2>2. CASE at["delegation"] = 4 /\ Call("delegation", "onboard_agent", "s", {})
    BY <2>2 DEF Legal, Asked
  <2>3. CASE at["delegation"] = 5 /\ Call("delegation", "delegate", Asks("delegate"), {})
    <3>1. Legal("delegation", "delegate", Asks("delegate"), {}) /\ Asked("delegate", Asks("delegate"))
        BY DEF Legal, Asked, Asks, Ask
    <3> QED
        BY <2>3, <3>1
  <2>4. CASE at["delegation"] = 6 /\ Call("delegation", "sign_vp", "s", {})
    BY <2>4 DEF Legal, Asked
  <2>5. CASE /\ at["delegation"] = 7
             /\ Call("delegation", "verify_vp", Result("delegation", "sign_vp"), Told)
    <3> DEFINE vp == Result("delegation", "sign_vp")
    <3>1. at["delegation"] > 6
        BY <2>5
    <3>2. \E o \in ended : o.ok /\ o.req.op = "sign_vp" /\ o.body # None /\ vp = o.body
        BY <2>5, <3>1, VpSigned DEF DemoInv, DelegationInv
    <3>3. Legal("delegation", "verify_vp", vp, Told) /\ Asked("verify_vp", vp)
        BY <3>2 DEF Legal, Asked
    <3> QED
        BY <2>5, <3>3
  <2>6. CASE at["delegation"] = 8 /\ Call("delegation", "delegate", Asks("again"), {})
    <3>1. Legal("delegation", "delegate", Asks("again"), {}) /\ Asked("delegate", Asks("again"))
        BY DEF Legal, Asked, Asks, Ask
    <3>2. Asks("again").from = "s"
        BY DEF Asks, Ask
    <3> QED
        BY <2>6, <3>1, <3>2
  <2> QED
    BY <1>1, <2>1, <2>2, <2>3, <2>4, <2>5, <2>6 DEF DelegationCall
<1>3. /\ CallsInv' /\ ControlInv'
      /\ \A e \in Demo \ {"delegation"} : Apart(e)
      /\ \A e, x : Went(e, x) => Went(e, x)'
      /\ \A k : \A q \in Known : OfStep("delegation", k, q)' <=> OfStep("delegation", k, q)
      /\ \A k : \A q \in Known : OfStep("delegation", k, q) => k < at["delegation"]
      /\ UNCHANGED <<at, reply, done, revoked>>
      /\ \A o \in ended' : o.ok => o \in ended
    BY <1>2, DemoCall
<1>4. PICK r : /\ r.by = "delegation" /\ r.op = op /\ r.arg = arg
               /\ r.n \notin done /\ Known' = Known \cup {r}
               /\ OfStep("delegation", at["delegation"], r)'
    BY <1>2, DemoCall
<1>5. DelegationRequest(r)'
    BY <1>2, <1>3, <1>4 DEF DelegationRequest, Further
<1>6. \A q \in Known : q.by = "delegation" => DelegationRequest(q)'
    BY <1>3 DEF DemoInv, DelegationInv, DelegationRequest
<1>7. Once("delegation", "sign_vp")'
  <2>1. op = "sign_vp" => \A q \in Known : q.by = "delegation" => q.op # "sign_vp"
    BY <1>2, <1>3 DEF DemoInv, DelegationInv, DelegationRequest, Further
  <2> QED
    BY <1>4, <2>1 DEF Once, DemoInv, DelegationInv
<1>8. DelegationInv'
    BY <1>3, <1>4, <1>5, <1>6, <1>7 DEF DemoInv, DelegationInv
<1>9. ASSUME "verify" \in Demo PROVE VerifyInv' /\ CoversInv'
  <2>1. Apart("verify") /\ VerifyInv'
    BY <1>3, <1>9, ApartVerify DEF DemoInv
  <2>2. at["verify"] > 2 => AgentVc' = AgentVc
    BY <1>3, <1>9, <2>1, ApartVerify DEF DemoInv
  <2>3. ASSUME NEW body, NEW q \in Known, Presents(q, body), Covers(body) PROVE Covers(body)'
    <3>1. AgentVc' = AgentVc
        BY <1>9, <2>2, <2>3, SignStep DEF Presents, DemoInv
    <3> QED
        BY <1>3, <1>4, <2>3, <3>1, CoversKept
  <2>4. \A a \in reply' : Presents(a.to, a.body) => Covers(a.body)'
    BY <1>3, <1>9, <2>3 DEF DemoInv, CoversInv, Known
  <2>5. \A o \in ended' : o.ok /\ Presents(o.req, o.body) => Covers(o.body)'
    BY <1>3, <1>9, <2>3 DEF DemoInv, CoversInv, Known
  <2> QED
    BY <2>1, <2>4, <2>5 DEF CoversInv
<1> QED
    BY <1>3, <1>8, <1>9 DEF DemoInv

-----------------------------------------------------------------------------
(* A demo goes on, or ends. *)

LEMMA CallsStay == ASSUME CallsInv, UNCHANGED vars PROVE CallsInv'
<1>1. ApiInv'
    BY NextApi DEF CallsInv
<1>2. WaitInv'
    BY DEF CallsInv, WaitInv, vars, httpVars
<1>3. FactsInv'
  <2>1. UNCHANGED <<Known, vcs, done, reply, ended>>
    BY DEF vars, httpVars, apiVars, Known
  <2>2. \A q, body : Tells(q, body)' <=> Tells(q, body)
    BY <2>1 DEF Tells
  <2> QED
    BY <2>1, <2>2 DEF CallsInv, FactsInv
<1> QED
    BY <1>1, <1>2, <1>3 DEF CallsInv

\* What does not depend on where the demos are.
LEMMA ResultsStay ==
    ASSUME UNCHANGED vars
    PROVE  /\ UNCHANGED <<Known, ended, reply, revoked, done, sent>>
           /\ UNCHANGED <<AgentVc, AgentVp>>
           /\ \A d, op : (Went(d, op)' <=> Went(d, op)) /\ (Once(d, op)' <=> Once(d, op))
           /\ \A body : Covers(body)' <=> Covers(body)
<1>1. UNCHANGED <<Known, ended, reply, revoked, done, sent>>
    BY DEF vars, httpVars, apiVars, Known
<1>2. UNCHANGED <<AgentVc, AgentVp>>
    BY <1>1 DEF AgentVc, AgentVp, Result
<1>3. \A d, op : (Went(d, op)' <=> Went(d, op)) /\ (Once(d, op)' <=> Once(d, op))
    BY <1>1 DEF Went, Once
<1> QED
    BY <1>1, <1>2, <1>3 DEF Covers

\* A demo that goes no further has only its way of ending to account for.
LEMMA ExitKeeps ==
    ASSUME DemoInv, NEW d \in Demo, NEW how \in Exits, UNCHANGED vars, Exit(d, how), ExitOk(d)'
    PROVE  DemoInv'
<1>1. CallsInv'
    BY CallsStay DEF DemoInv
<1>2. /\ UNCHANGED <<at, call>> /\ exit' = [exit EXCEPT ![d] = how]
      /\ exit \in [Demo -> Exits]
    BY DEF Exit, DemoInv, ControlInv
<1>3. \A e \in Demo \ {d} : exit'[e] = exit[e]
    BY <1>2
<1>4. ControlInv'
  <2>1. ASSUME NEW e \in Demo PROVE ControlOf(e)'
    <3>1. ControlOf(e)
        BY DEF DemoInv, ControlInv
    <3>2. ExitOk(e)'
      <4>1. CASE e = d
        BY <4>1
      <4>2. CASE e # d
        BY <1>2, <1>3, <3>1, <4>2, ResultsStay DEF ControlOf, ExitOk, IsLast
      <4> QED
        BY <4>1, <4>2
    <3> QED
        BY <1>2, <3>1, <3>2, ResultsStay DEF ControlOf
  <2>2. at' \in [Demo -> Nat] /\ call' \in [Demo -> Nat] /\ exit' \in [Demo -> Exits]
    BY <1>2 DEF DemoInv, ControlInv
  <2> QED
    BY <2>1, <2>2 DEF ControlInv
<1>5. \A e, k, q : OfStep(e, k, q)' <=> OfStep(e, k, q)
    BY <1>2 DEF OfStep
<1>6. "verify" \in Demo => VerifyInv'
  <2>1. \A q : VerifyRequest(q)' <=> VerifyRequest(q)
    BY <1>5, ResultsStay DEF VerifyRequest
  <2> QED
    BY <1>2, <2>1, ResultsStay DEF DemoInv, VerifyInv
<1>7. "verify" \in Demo => CoversInv'
    BY ResultsStay DEF DemoInv, CoversInv
<1>8. "delegation" \in Demo => DelegationInv'
  <2>1. \A q : DelegationRequest(q)' <=> DelegationRequest(q)
    BY <1>5 DEF DelegationRequest
  <2> QED
    BY <1>2, <2>1, ResultsStay DEF DemoInv, DelegationInv
<1> QED
    BY <1>1, <1>4, <1>6, <1>7, <1>8 DEF DemoInv

\* The operation of a step whose result a later step needs.
Needed(d) ==
    CASE d = "verify" /\ at[d] = 2 -> "onboard_agent"
      [] d = "verify" /\ at[d] = 5 -> "revoke_vc"
      [] OTHER -> "sign_vp"

\* A demo that takes a step has what that step was to give it.
LEMMA AdvanceKeeps ==
    ASSUME DemoInv, NEW d \in Demo, UNCHANGED vars, Advance(d), exit[d] = None, ~IsLast(d),
           d = "verify" /\ at[d] \in {2, 3, 5} => Went(d, Needed(d)),
           d = "delegation" /\ at[d] = 6 => Went(d, Needed(d))
    PROVE  DemoInv'
<1>1. CallsInv'
    BY CallsStay DEF DemoInv
<1>2. /\ at' = [at EXCEPT ![d] = @ + 1] /\ call' = [call EXCEPT ![d] = 0] /\ exit' = exit
      /\ at \in [Demo -> Nat] /\ call \in [Demo -> Nat] /\ exit \in [Demo -> Exits]
    BY DEF Advance, DemoInv, ControlInv
<1>3. /\ at'[d] = at[d] + 1 /\ call'[d] = 0 /\ at[d] \in Nat
      /\ \A e \in Demo \ {d} : at'[e] = at[e] /\ call'[e] = call[e]
    BY <1>2
<1>4. sent \in Nat /\ \A q \in Known : q.n \in Nat /\ q.n >= 1
    BY DEF DemoInv, CallsInv, ApiInv, HonestInv, NumbersInv
<1>5. ControlInv'
  <2>1. ASSUME NEW e \in Demo PROVE ControlOf(e)'
    <3>1. ControlOf(e)
        BY DEF DemoInv, ControlInv
    <3>2. CASE e = d
      <4>1. at[d] + 1 \in 1..Len(Script[d])
        <5>1. Len(Script[d]) \in Nat
            BY ScriptIs, DemoAssumption
        <5> QED
            BY <3>1, <3>2, <5>1 DEF ControlOf, IsLast
      <4>2. ExitOk(d)'
        BY <1>2, DemoAssumption DEF ExitOk
      <4> QED
        BY <1>3, <1>4, <3>2, <4>1, <4>2, ResultsStay DEF ControlOf
    <3>3. CASE e # d
      <4>1. ExitOk(e)'
        BY <1>2, <1>3, <3>1, <3>3, ResultsStay DEF ControlOf, ExitOk, IsLast
      <4> QED
        BY <1>3, <3>1, <3>3, <4>1, ResultsStay DEF ControlOf
    <3> QED
        BY <3>2, <3>3
  <2>2. at' \in [Demo -> Nat] /\ call' \in [Demo -> Nat] /\ exit' \in [Demo -> Exits]
    BY <1>2
  <2> QED
    BY <2>1, <2>2 DEF ControlInv
<1>6. \A e \in Demo : \A k \in Nat : \A q \in Known : OfStep(e, k, q) => OfStep(e, k, q)'
    BY <1>3, <1>4 DEF OfStep
<1>7. ASSUME "verify" \in Demo PROVE VerifyInv' /\ CoversInv'
  <2>1. \A q \in Known : VerifyRequest(q) => VerifyRequest(q)'
    BY <1>6, <1>7, ResultsStay DEF VerifyRequest
  <2>2. CASE d # "verify"
    BY <1>3, <1>7, <2>1, <2>2, ResultsStay DEF DemoInv, VerifyInv, CoversInv
  <2>3. CASE d = "verify"
    <3>1. /\ at'["verify"] > 2 => Went("verify", "onboard_agent")
          /\ at'["verify"] > 3 => Went("verify", "sign_vp")
          /\ at'["verify"] > 5 => Went("verify", "revoke_vc")
        BY <1>3, <2>3 DEF DemoInv, VerifyInv, Needed
    <3> QED
        BY <1>7, <2>1, <3>1, ResultsStay DEF DemoInv, VerifyInv, CoversInv
  <2> QED
    BY <2>2, <2>3
<1>8. ASSUME "delegation" \in Demo PROVE DelegationInv'
  <2>1. \A q \in Known : DelegationRequest(q) => DelegationRequest(q)'
    BY <1>6, <1>8 DEF DelegationRequest
  <2>2. CASE d # "delegation"
    BY <1>3, <1>8, <2>1, <2>2, ResultsStay DEF DemoInv, DelegationInv
  <2>3. CASE d = "delegation"
    <3>1. at'["delegation"] > 6 => Went("delegation", "sign_vp")
        BY <1>3, <2>3 DEF DemoInv, DelegationInv, Needed
    <3> QED
        BY <1>8, <2>1, <3>1, ResultsStay DEF DemoInv, DelegationInv
  <2> QED
    BY <2>2, <2>3
<1> QED
    BY <1>1, <1>5, <1>7, <1>8 DEF DemoInv

-----------------------------------------------------------------------------
(* How the call of a step ended. *)

\* The presentation covers the credential, and is the agent's.
LEMMA VpCovers ==
    ASSUME DemoInv, "verify" \in Demo, at["verify"] > 3
    PROVE  Covers(AgentVp) /\ \A i \in AgentVp : vcs[i].to = "v"
<1>1. PICK o \in ended : /\ o.req.by = "verify" /\ o.req.op = "sign_vp" /\ o.ok
                         /\ o.body # None /\ AgentVp = o.body
    BY VpSigned DEF DemoInv, VerifyInv, AgentVp
<1>2. Covers(o.body)
    BY <1>1 DEF DemoInv, CoversInv, Presents
<1>3. o.req.arg = "v"
    BY <1>1 DEF DemoInv, VerifyInv, VerifyRequest, Known
<1>4. Tells(o.req, o.body)
    BY <1>1 DEF DemoInv, CallsInv, FactsInv
<1> QED
    BY <1>1, <1>2, <1>3, <1>4 DEF Tells

\* The demo has revoked its credential.
LEMMA VcRevoked ==
    ASSUME DemoInv, "verify" \in Demo, at["verify"] > 5
    PROVE  /\ AgentVc \in revoked
           /\ \E q \in Known : q.by = "verify" /\ q.op = "revoke_vc" /\ q.n \in done
<1>1. PICK o \in ended : o.req.by = "verify" /\ o.req.op = "revoke_vc" /\ o.ok
    BY DEF DemoInv, VerifyInv, Went
<1>2. o.req \in Known /\ o.req.arg = AgentVc
    BY <1>1 DEF DemoInv, VerifyInv, VerifyRequest, Known
<1>3. o.req.n \in done
    BY <1>1 DEF DemoInv, CallsInv, ApiInv, HonestInv, OutcomeHonest
<1> QED
    BY <1>1, <1>2, <1>3 DEF DemoInv, CallsInv, ApiInv, Effective

\* The outcome that a demo waits for is of the request of its step.
LEMMA OutcomeOwn ==
    ASSUME DemoInv, NEW d \in Demo, NEW o \in ended, o.req.n = call[d]
    PROVE  o.req \in Known /\ o.req.by = d /\ \A k : OfStep(d, k, o.req) => at[d] = k
BY DEF Known, DemoInv, ControlInv, ControlOf, OfStep

LEMMA VerifyOutcome ==
    ASSUME DemoInv, "verify" \in Demo, NEW o \in ended, o.req.n = call["verify"]
    PROVE  LET q == o.req k == at["verify"]
           IN  /\ k = 2 => q.op = "onboard_agent"
               /\ k = 3 => q.op = "sign_vp"
               /\ k = 5 => q.op = "revoke_vc"
               /\ k \in {4, 6} => q.op = "verify_vp" /\ q.arg = AgentVp
               /\ k = 6 => <<"revoke_vc", AgentVc>> \in q.history
<1>1. PICK q : q = o.req
    OBVIOUS
<1>2. q \in Known /\ q.by = "verify" /\ \A k : OfStep("verify", k, q) => at["verify"] = k
    BY <1>1, OutcomeOwn
<1>3. VerifyRequest(q)
    BY <1>2 DEF DemoInv, VerifyInv
<1> QED
    BY <1>1, <1>2, <1>3 DEF VerifyRequest

LEMMA DelegationOutcome ==
    ASSUME DemoInv, "delegation" \in Demo, NEW o \in ended, o.req.n = call["delegation"]
    PROVE  /\ at["delegation"] = 6 => o.req.op = "sign_vp"
           /\ at["delegation"] = 8 => Further(o.req)
<1>1. PICK q : q = o.req
    OBVIOUS
<1>2. /\ q \in Known /\ q.by = "delegation"
      /\ \A k : OfStep("delegation", k, q) => at["delegation"] = k
    BY <1>1, OutcomeOwn
<1>3. DelegationRequest(q)
    BY <1>2 DEF DemoInv, DelegationInv
<1> QED
    BY <1>1, <1>2, <1>3 DEF DelegationRequest

\* The last call of the verification demo cannot return: its presentation
\* covers the credential, and it knows of the revocation.
LEMMA CheckRefused ==
    ASSUME DemoInv, "verify" \in Demo, IsLast("verify"),
           NEW o \in ended, o.req.n = call["verify"], o.ok
    PROVE  FALSE
<1>1. at["verify"] = 6
    BY VerifySteps DEF DemoInv
<1>2. /\ o.req.op = "verify_vp" /\ o.req.arg = AgentVp
      /\ <<"revoke_vc", AgentVc>> \in o.req.history
    BY <1>1, VerifyOutcome
<1>3. o.req.n \in done /\ o.req \in Known
    BY <1>2, OutcomeOwn DEF DemoInv, CallsInv, ApiInv, HonestInv, OutcomeHonest
<1>4. AgentVc \notin AgentVp
    BY <1>2, <1>3 DEF DemoInv, CallsInv, ApiInv, Effective
<1>5. \A q \in Known : q.by = "verify" /\ q.op = "revoke_vc" => q.n \notin done
    BY <1>1, <1>4, VpCovers DEF Covers
<1> QED
    BY <1>1, <1>5, VcRevoked

\* Nor can that of the delegation demo: nobody lets the sub-agent delegate.
LEMMA AgainRefused ==
    ASSUME DemoInv, "delegation" \in Demo, IsLast("delegation"),
           NEW o \in ended, o.req.n = call["delegation"]
    PROVE  Further(o.req) /\ ~o.ok
<1>1. at["delegation"] = 8
    BY DelegationSteps DEF DemoInv
<1>2. Further(o.req) /\ o.req \in Known
    BY <1>1, OutcomeOwn, DelegationOutcome
<1>3. o.ok => o.req.n \in done
    BY <1>2 DEF DemoInv, CallsInv, ApiInv, HonestInv, OutcomeHonest, Further
<1> QED
    BY <1>2, <1>3 DEF DemoInv, CallsInv, FactsInv

\* The scope that the agent lacks is not in the answer to the first verification.
LEMMA NeverOverscoped ==
    ASSUME DemoInv, NEW d \in Demo, NEW o \in ended, o.req.n = call[d], o.ok, Usable(d, o)
    PROVE  ~Overscoped(d, o)
<1> SUFFICES ASSUME d = "verify", Step(d) = "verify" PROVE "write" \notin o.body
    BY DEF Overscoped
<1>1. at["verify"] = 4
    BY VerifySteps DEF DemoInv
<1>2. o.req.op = "verify_vp" /\ o.req.arg = AgentVp
    BY <1>1, VerifyOutcome
<1>3. o.body # None
    BY DEF Usable
<1>4. Tells(o.req, o.body)
    BY DEF DemoInv, CallsInv, FactsInv
<1> QED
    BY <1>1, <1>2, <1>3, <1>4, VpCovers DEF Tells

LEMMA ContinueStep ==
    ASSUME DemoInv, NEW d \in Demo, Continue(d) PROVE DemoInv'
<1>1. d \in {"verify", "delegation"}
    BY DemoAssumption, ScriptIs
<1>2. PICK o \in ended :
        /\ o.req.n = call[d]
        /\ \/ ~o.ok /\ Exit(d, IF IsLast(d) /\ Expected(d, o.error) THEN "done" ELSE "traceback")
           \/ o.ok /\ IsLast(d)
           \/ o.ok /\ ~IsLast(d) /\ ~Usable(d, o) /\ Exit(d, "traceback")
           \/ /\ o.ok /\ ~IsLast(d) /\ Usable(d, o)
              /\ IF Overscoped(d, o) THEN Exit(d, "surprised") ELSE Advance(d)
    BY DEF Continue
<1>3. exit[d] = None /\ UNCHANGED vars
    BY DEF Continue
<1>4. exit \in [Demo -> Exits]
    BY DEF DemoInv, ControlInv
<1>5. CASE ~o.ok /\ Exit(d, IF IsLast(d) /\ Expected(d, o.error) THEN "done" ELSE "traceback")
  <2>1. /\ exit'[d] = IF IsLast(d) /\ Expected(d, o.error) THEN "done" ELSE "traceback"
        /\ UNCHANGED <<at, call, ended>> /\ (IsLast(d)' <=> IsLast(d))
    BY <1>3, <1>4, <1>5, ResultsStay DEF Exit, IsLast
  <2>2. ExitOk(d)'
    BY <1>2, <1>5, <2>1 DEF ExitOk
  <2>3. {"done", "traceback"} \subseteq Exits
    BY DEF Exits
  <2> QED
    BY <1>3, <1>5, <2>2, <2>3, ExitKeeps
<1>6. CASE o.ok /\ IsLast(d)
    BY <1>1, <1>2, <1>6, CheckRefused, AgainRefused
<1>7. CASE o.ok /\ ~IsLast(d) /\ ~Usable(d, o) /\ Exit(d, "traceback")
  <2>1. exit'[d] = "traceback" /\ (IsLast(d)' <=> IsLast(d))
    BY <1>4, <1>7 DEF Exit, IsLast
  <2>2. ExitOk(d)'
    BY <1>7, <2>1 DEF ExitOk
  <2>3. "traceback" \in Exits
    BY DEF Exits
  <2> QED
    BY <1>3, <1>7, <2>2, <2>3, ExitKeeps
<1>8. CASE /\ o.ok /\ ~IsLast(d) /\ Usable(d, o)
           /\ IF Overscoped(d, o) THEN Exit(d, "surprised") ELSE Advance(d)
  <2>1. Advance(d)
    BY <1>2, <1>8, NeverOverscoped
  <2>2. o.req.by = d
    BY <1>2, OutcomeOwn
  <2>3. d = "verify" /\ at[d] \in {2, 3, 5} => Went(d, Needed(d))
    <3> SUFFICES ASSUME d = "verify", at[d] \in {2, 3, 5} PROVE Went(d, Needed(d))
        OBVIOUS
    <3>1. o.req.op = Needed(d)
        BY <1>2, VerifyOutcome DEF Needed
    <3>2. o.body # None \/ Needed(d) = "revoke_vc"
        BY <1>8, VerifySteps DEF Usable, Needed, DemoInv
    <3> QED
        BY <1>8, <2>2, <3>1, <3>2 DEF Went
  <2>4. d = "delegation" /\ at[d] = 6 => Went(d, Needed(d))
    <3> SUFFICES ASSUME d = "delegation", at[d] = 6 PROVE Went(d, Needed(d))
        OBVIOUS
    <3>1. o.req.op = Needed(d)
        BY <1>2, DelegationOutcome DEF Needed
    <3>2. o.body # None
        BY <1>8, DelegationSteps DEF Usable, DemoInv
    <3> QED
        BY <1>8, <2>2, <3>1, <3>2 DEF Went
  <2> QED
    BY <1>3, <1>8, <2>1, <2>3, <2>4, AdvanceKeeps
<1> QED
    BY <1>2, <1>5, <1>6, <1>7, <1>8

LEMMA MintStep == ASSUME DemoInv, NEW d \in Demo, Mint(d) PROVE DemoInv'
<1>1. d \in {"verify", "delegation"}
    BY DemoAssumption, ScriptIs
<1>2. exit[d] = None /\ Step(d) = "mint" /\ UNCHANGED vars
    BY DEF Mint
<1>3. /\ ~IsLast(d)
      /\ d = "verify" => at[d] = 1
      /\ d = "delegation" => at[d] \in {1, 3}
    BY <1>1, <1>2, VerifySteps, DelegationSteps DEF DemoInv
<1>4. CASE Advance(d)
    BY <1>2, <1>3, <1>4, AdvanceKeeps
<1>5. CASE Exit(d, "traceback")
  <2>1. ExitOk(d)' /\ "traceback" \in Exits
    <3>1. exit'[d] = "traceback" /\ (IsLast(d)' <=> IsLast(d))
        BY <1>5 DEF Exit, IsLast, DemoInv, ControlInv
    <3> QED
        BY <1>3, <3>1 DEF ExitOk, Exits
  <2> QED
    BY <1>2, <1>5, <2>1, ExitKeeps
<1> QED
    BY <1>4, <1>5 DEF Mint

-----------------------------------------------------------------------------
(* The theorems. *)

LEMMA InitDemo == ASSUME DemoInit PROVE DemoInv
<1>1. Known = {} /\ reply = {} /\ ended = {} /\ waiting = {} /\ sent = 0
    BY DEF DemoInit, Init, HttpInit, Known
<1>2. CallsInv
  <2>1. WaitInv
    BY <1>1, MaxCallsAssumption DEF WaitInv
  <2> QED
    BY <2>1, InitApi, InitFacts DEF DemoInit, CallsInv
<1>3. at = [d \in Demo |-> 1] /\ call = [d \in Demo |-> 0] /\ exit \in [Demo -> {None, "absent"}]
    BY DEF DemoInit
<1>4. ControlInv
  <2>1. ASSUME NEW d \in Demo PROVE ControlOf(d)
    <3>1. 1 \in 1..Len(Script[d])
        BY ScriptIs, DemoAssumption
    <3>2. ExitOk(d)
        BY <1>3, DemoAssumption DEF ExitOk
    <3> QED
        BY <1>1, <1>3, <3>1, <3>2 DEF ControlOf
  <2>2. at \in [Demo -> Nat] /\ call \in [Demo -> Nat] /\ exit \in [Demo -> Exits]
    BY <1>3 DEF Exits
  <2> QED
    BY <2>1, <2>2 DEF ControlInv
<1>5. /\ "verify" \in Demo => VerifyInv /\ CoversInv
      /\ "delegation" \in Demo => DelegationInv
    BY <1>1, <1>3 DEF VerifyInv, CoversInv, DelegationInv, Once
<1> QED
    BY <1>2, <1>4, <1>5 DEF DemoInv

LEMMA StutterStep == ASSUME DemoInv, UNCHANGED allVars PROVE DemoInv'
<1>1. UNCHANGED vars /\ UNCHANGED demoVars
    BY DEF allVars
<1>2. CallsInv'
    BY <1>1, CallsStay DEF DemoInv
<1>3. sent \in Nat
    BY DEF DemoInv, CallsInv, ApiInv, HonestInv, NumbersInv
<1>4. \A d \in Demo : Apart(d)
    BY <1>1, <1>3, ResultsStay DEF Apart, demoVars
<1>5. "verify" \in Demo => CoversInv'
    BY <1>1, ResultsStay DEF DemoInv, CoversInv
<1> QED
    BY <1>1, <1>2, <1>4, <1>5, AllApart

\* No step of a demo, of another caller, of the network or of the API breaks it.
LEMMA DemosInvariant == DemoSpec => []DemoInv
<1>1. DemoInv /\ [DemoNext]_allVars => DemoInv'
  <2> SUFFICES ASSUME DemoInv, [DemoNext]_allVars PROVE DemoInv'
    OBVIOUS
  <2>1. ASSUME NEW d \in Demo, MakeCall(d) PROVE DemoInv'
    <3>1. d \in {"verify", "delegation"}
        BY DemoAssumption, ScriptIs
    <3> QED
        BY <2>1, <3>1, MakeVerify, MakeDelegation
  <2>2. ASSUME NEW d \in Demo, Continue(d) PROVE DemoInv'
    BY <2>2, ContinueStep
  <2>3. ASSUME NEW d \in Demo, Mint(d) PROVE DemoInv'
    BY <2>3, MintStep
  <2>4. ASSUME NEW c \in Others, AnyMethod(c), Same, UNCHANGED demoVars PROVE DemoInv'
    BY <2>4, OtherCall
  <2>5. ASSUME NEW c \in Callers, Network(c), UNCHANGED demoVars PROVE DemoInv'
    BY <2>5, NetworkStep
  <2>6. ASSUME NEW r \in pending, Serve(r), UNCHANGED demoVars PROVE DemoInv'
    BY <2>6, ServeStep
  <2>7. CASE UNCHANGED allVars
    BY <2>7, StutterStep
  <2> QED
    BY <2>1, <2>2, <2>3, <2>4, <2>5, <2>6, <2>7 DEF DemoNext
<1>2. DemoInit => DemoInv
    BY InitDemo
<1> QED
    BY <1>1, <1>2, PTL DEF DemoSpec

\* Whatever answers are lost and whatever others revoke, renew or delegate, no
\* demo reports "unexpected success": its last call never returns, and the
\* verified scopes never have "write" (verify_vp_demo.py:95, 106,
\* agent_delegation_demo.py:126).
THEOREM DemosNeverSurprised == DemoSpec => []NeverSurprised
<1>1. DemoInv => NeverSurprised
    BY DEF DemoInv, ControlInv, ControlOf, ExitOk, NeverSurprised
<1> QED
    BY <1>1, DemosInvariant, PTL

\* A demo that ends well says the truth: the credential whose verification
\* failed is revoked, and the further delegation was refused by the API and has
\* made no credential (verify_vp_demo.py:104-109, agent_delegation_demo.py:117-137).
THEOREM DemosDoneIsTrue == DemoSpec => []DoneIsTrue
<1>1. ASSUME DemoInv, "verify" \in Demo, exit["verify"] = "done"
      PROVE  Result("verify", "onboard_agent") \in revoked
  <2>1. at["verify"] > 5
    BY <1>1, VerifySteps DEF DemoInv, ControlInv, ControlOf, ExitOk
  <2> QED
    BY <1>1, <2>1, VcRevoked DEF AgentVc
<1>2. ASSUME DemoInv, "delegation" \in Demo, exit["delegation"] = "done"
      PROVE  Refusal("delegation") # {} /\ \A i \in Active : vcs[i].from # "s"
  <2>1. PICK o \in ended : /\ IsLast("delegation") /\ o.req.n = call["delegation"] /\ ~o.ok
                           /\ Expected("delegation", o.error)
    BY <1>2 DEF DemoInv, ControlInv, ControlOf, ExitOk
  <2>2. o.error.code \in {"MAX_DELEGATION_DEPTH_EXCEEDED", "SCOPE_ESCALATION_DENIED"}
    BY <2>1 DEF Expected
  <2>3. o.error.code # None
    BY <2>2, ClassesKnown, NoneAssumption DEF Codes
  <2>4. o.error.status # None
    BY <1>2, <2>1, <2>3 DEF DemoInv, CallsInv, FactsInv, Telling
  <2>5. o \in Refusal("delegation")
    BY <2>1, <2>2, <2>4 DEF Refusal
  <2>6. \A i \in Active : vcs[i].from # "s"
    BY <1>2 DEF Active, DemoInv, CallsInv, FactsInv, Credible
  <2> QED
    BY <2>5, <2>6
<1>3. DemoInv => DoneIsTrue
    BY <1>1, <1>2, DemoAssumption, ScriptIs DEF DoneIsTrue
<1> QED
    BY <1>3, DemosInvariant, PTL

\* By whichever of the four codes the API refuses, the demo knows the refusal
\* for what it expects and does not die of it (errors.py:220-222,
\* agent_delegation_demo.py:128-139).
THEOREM DemosRefusalRecognised == DemoSpec => []RefusalRecognised
<1>1. ASSUME DemoInv, NEW d \in Demo, exit[d] = "traceback", NEW o \in Refusal(d) PROVE FALSE
  <2>1. /\ o \in ended /\ IsLast(d) /\ o.req.n = call[d] /\ ~o.ok
        /\ o.error.status # None /\ o.error.code # "INTERNAL_ERROR"
    BY <1>1 DEF Refusal
  <2>2. PICK p \in ended : p.req.n = call[d] /\ ~p.ok /\ ~Expected(d, p.error)
    BY <1>1, <2>1 DEF DemoInv, ControlInv, ControlOf, ExitOk
  <2>3. p = o
    <3>1. p.req \in Known /\ o.req \in Known
        BY <2>1, <2>2 DEF Known
    <3>2. p.req = o.req
        BY <1>1, <2>1, <2>2, <3>1 DEF DemoInv, CallsInv, ApiInv, HonestInv, NumbersInv
    <3> QED
        BY <1>1, <2>1, <2>2, <3>2 DEF DemoInv, CallsInv, FactsInv
  <2>4. Telling(o.req, o.error) /\ Plausible(o.req, o.error.code) /\ o.req \in Known
    BY <1>1, <2>1 DEF DemoInv, CallsInv, FactsInv, ApiInv, Known
  <2>5. CASE d = "verify"
    BY <2>1, <2>2, <2>3, <2>4, <2>5 DEF Expected, Telling
  <2>6. CASE d = "delegation"
    <3>1. Further(o.req) /\ o.req.by = "delegation"
        BY <1>1, <2>1, <2>6, AgainRefused, OutcomeOwn
    <3>2. ClientOf["delegation"].url /\ ClientOf["delegation"].admin /\ ~ClientOf["delegation"].api
        BY <2>6, ClientAssumption
    <3>3. ~SdkOnly(o.req.by)
        BY <3>1, <3>2 DEF SdkOnly
    <3>4. o.error.code = "ADMIN_AUTH_REQUIRED"
        BY <2>1, <2>2, <2>3, <2>4, <2>6, <3>1, <3>3 DEF Expected, Telling
    <3>5. Admitted(o.req)
      <4>1. WellMade(o.req)
        BY <1>1, <2>4 DEF DemoInv, CallsInv, ApiInv
      <4> QED
        BY <3>1, <3>2, <4>1 DEF WellMade, Admitted, Credential, Custodial
    <3> QED
        BY <2>4, <3>4, <3>5 DEF Plausible
  <2> QED
    BY <2>5, <2>6, DemoAssumption, ScriptIs
<1>2. DemoInv => RefusalRecognised
    BY <1>1 DEF RefusalRecognised
<1> QED
    BY <1>2, DemosInvariant, PTL
=============================================================================
