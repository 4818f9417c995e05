------------------------------ MODULE ClientProofs ------------------------------
(***************************************************************************)
(* Theorems about Client: what a caller may conclude from how a call       *)
(* ended, for any callers, methods, arguments and API data.                *)
(***************************************************************************)
EXTENDS Client, TLAPS

-----------------------------------------------------------------------------
(* The error map. *)

Failing(f) == \A code \in DOMAIN f : f[code] \in Nat /\ f[code] >= 400

\* The status of every class of the taxonomy is one of a failure (errors.py:35).
LEMMA ClassesFail == Failing(ClassStatus)
<1>1. Failing(DidStatus)
    BY DEF Failing, DidStatus
<1>2. Failing(GeneralStatus)
    BY DEF Failing, GeneralStatus
<1>3. Failing(VcStatus)
    BY DEF Failing, VcStatus
<1>4. Failing(DelegationStatus)
    BY DEF Failing, DelegationStatus
<1>5. Failing(LocalStatus)
    BY DEF Failing, LocalStatus
<1>6. Failing(VpStatus)
    BY DEF Failing, VpStatus
<1>7. Failing(AgentStatus)
    BY DEF Failing, AgentStatus
<1>8. Failing(PreparedStatus)
    BY DEF Failing, PreparedStatus
<1>9. Failing(AccountStatus)
    BY DEF Failing, AccountStatus
<1>10. \A g \in Groups : Failing(g)
    BY <1>1, <1>2, <1>3, <1>4, <1>5, <1>6, <1>7, <1>8, <1>9 DEF Groups
<1>11. ASSUME NEW c \in UNION {DOMAIN g : g \in Groups}
       PROVE  ClassStatus[c] \in Nat /\ ClassStatus[c] >= 400
  <2>1. PICK h \in Groups : c \in DOMAIN h
    OBVIOUS
  <2> DEFINE k == CHOOSE g \in Groups : c \in DOMAIN g
  <2>2. k \in Groups /\ c \in DOMAIN k
    BY <2>1
  <2>3. ClassStatus[c] = k[c]
    BY DEF ClassStatus
  <2> QED
    BY <1>10, <2>2, <2>3 DEF Failing
<1>12. DOMAIN ClassStatus = UNION {DOMAIN g : g \in Groups}
    BY DEF ClassStatus
<1> QED
    BY <1>11, <1>12 DEF Failing

-----------------------------------------------------------------------------
(* The inductive invariant. *)

\* Every request that somebody still knows of.
Known == waiting \cup pending \cup {a.to : a \in reply} \cup {o.req : o \in ended}

\* A request is known by its number, and only those not served are pending.
NumbersInv ==
    /\ sent \in Nat
    /\ done \subseteq 1..sent
    /\ \A q \in Known : q.n \in 1..sent
    /\ \A q, r \in Known : q.n = r.n => q = r
    /\ \A r \in pending : r.n \notin done

\* A success is the answer to what was done, an error code to what was not.
Truthful(a) ==
    IF a.status >= 400 THEN a.code # None => a.to.n \notin done /\ a.to \notin pending
    ELSE a.to.n \in done

HonestInv ==
    /\ NumbersInv
    /\ \A a \in reply : Truthful(a)
    /\ OutcomeHonest

\* What the methods see to before they call: client.py:271, what is recorded
\* silently is recorded through an API; a key is new; a credential, or what has
\* been signed of several, is one that the API has; a flag is in the body.
Legal(c, op, arg, history) ==
    /\ op = "record_consent" => ~SdkOnly(c)
    /\ op = "create_did" => arg = sent + 1
    /\ op \in {"revoke_vc", "renew_vc", "check_vc_status"} => arg \in DOMAIN vcs
    /\ op = "verify_vp" =>
         \E o \in ended : o.ok /\ o.req.op = "sign_vp" /\ o.body # None /\ arg = o.body
    /\ op = "resolve_did" => arg.live = arg.asked
    /\ op \in {"delegate", "issue_grant"} => arg.revokeExisting = arg.asked
    /\ history \subseteq Told

AnyCall(c) ==
    \E op, arg, history : Call(c, op, arg, history) /\ Legal(c, op, arg, history)

LEMMA CallIsAny ==
    ASSUME NEW c, NEW op, NEW arg, NEW history, Call(c, op, arg, history),
           Legal(c, op, arg, history)
    PROVE  AnyCall(c)
    BY DEF AnyCall

\* Each method is one call, with the arguments that it may have.
LEMMA MethodCalls == ASSUME NEW c, AnyMethod(c) PROVE AnyCall(c)
<1>1. CASE DidMethods(c)
  <2>1. CASE CreateDid(c)
    BY <2>1, CallIsAny DEF CreateDid, Legal
  <2>2. CASE ResolveDid(c)
    BY <2>2, CallIsAny DEF ResolveDid, Legal
  <2>3. CASE AddServiceEndpoint(c)
    BY <2>3, CallIsAny DEF AddServiceEndpoint, Legal
  <2>4. CASE RemoveServiceEndpoint(c)
    BY <2>4, CallIsAny DEF RemoveServiceEndpoint, Legal
  <2>5. CASE DeactivateDid(c)
    BY <2>5, CallIsAny DEF DeactivateDid, Legal
  <2> QED
    BY <1>1, <2>1, <2>2, <2>3, <2>4, <2>5 DEF DidMethods
<1>2. CASE VcMethods(c)
  <2>1. CASE IssueVc(c)
    BY <2>1, CallIsAny DEF IssueVc, Legal
  <2>2. CASE ReadVcs(c)
    BY <2>2, CallIsAny DEF ReadVcs, Legal
  <2>3. CASE RevokeVc(c)
    BY <2>3, CallIsAny DEF RevokeVc, Legal
  <2>4. CASE RenewVc(c)
    BY <2>4, CallIsAny DEF RenewVc, Legal
  <2>5. CASE RegisterVc(c)
    BY <2>5, CallIsAny DEF RegisterVc, Legal
  <2>6. CASE CheckVcStatus(c)
    BY <2>6, CallIsAny DEF CheckVcStatus, Legal
  <2> QED
    BY <1>2, <2>1, <2>2, <2>3, <2>4, <2>5, <2>6 DEF VcMethods
<1>3. CASE ServiceMethods(c)
  <2>1. CASE CreateService(c)
    BY <2>1, CallIsAny DEF CreateService, Legal
  <2>2. CASE IssueServiceDelegationGrant(c)
    BY <2>2, CallIsAny DEF IssueServiceDelegationGrant, Ask, Legal
  <2>3. CASE GetAgentScopes(c)
    BY <2>3, CallIsAny DEF GetAgentScopes, Legal
  <2>4. CASE StatusLists(c)
    BY <2>4, CallIsAny DEF StatusLists, Legal
  <2>5. CASE GetAuditLog(c)
    BY <2>5, CallIsAny DEF GetAuditLog, Legal
  <2>6. CASE RecordConsentGrantedAudit(c)
    BY <2>6, CallIsAny DEF RecordConsentGrantedAudit, Legal
  <2> QED
    BY <1>3, <2>1, <2>2, <2>3, <2>4, <2>5, <2>6 DEF ServiceMethods
<1>4. CASE AgentMethods(c)
  <2>1. CASE VerifyVp(c)
    BY <2>1, CallIsAny DEF VerifyVp, Legal
  <2>2. CASE FetchSessionPublicKey(c)
    BY <2>2, CallIsAny DEF FetchSessionPublicKey, Legal
  <2>3. CASE OnboardAgent(c)
    BY <2>3, CallIsAny DEF OnboardAgent, Legal
  <2>4. CASE SignVp(c)
    BY <2>4, CallIsAny DEF SignVp, Legal
  <2>5. CASE DelegateAuthority(c)
    BY <2>5, CallIsAny DEF DelegateAuthority, Ask, Legal
  <2>6. CASE RequestUserChallenge(c)
    BY <2>6, CallIsAny DEF RequestUserChallenge, Legal
  <2>7. CASE VerifyUserChallenge(c)
    BY <2>7, CallIsAny DEF VerifyUserChallenge, Legal
  <2> QED
    BY <1>4, <2>1, <2>2, <2>3, <2>4, <2>5, <2>6, <2>7 DEF AgentMethods
<1> QED
    BY <1>1, <1>2, <1>3, <1>4 DEF AnyMethod

\* What serving a request does to it, whichever operation it asks for.
LEMMA ServeEnds ==
    ASSUME NEW r, Serve(r) PROVE (\E body : Done(r, body)) \/ (\E code : Refused(r, code))
<1>1. CASE ServeOnce(r)
    BY <1>1 DEF ServeOnce
<1>2. CASE ServeRemove(r)
    BY <1>2 DEF ServeRemove
<1>3. CASE ServeDeactivate(r)
    BY <1>3 DEF ServeDeactivate
<1>4. CASE ServeResolve(r)
    BY <1>4 DEF ServeResolve
<1>5. CASE ServeStore(r)
    BY <1>5 DEF ServeStore
<1>6. CASE ServeRenew(r)
    BY <1>6 DEF ServeRenew
<1>7. CASE ServeRevoke(r)
    BY <1>7 DEF ServeRevoke
<1>8. CASE ServeGrant(r)
    BY <1>8 DEF ServeGrant
<1>9. CASE ServeSign(r)
    BY <1>9 DEF ServeSign
<1>10. CASE ServeVerify(r)
    BY <1>10 DEF ServeVerify
<1>11. CASE ServeStatus(r)
    BY <1>11 DEF ServeStatus
<1>12. CASE ServeOther(r)
    BY <1>12 DEF ServeOther
<1> QED
    BY <1>1, <1>2, <1>3, <1>4, <1>5, <1>6, <1>7, <1>8, <1>9, <1>10, <1>11, <1>12 DEF Serve

-----------------------------------------------------------------------------
(* The steps preserve the invariant. *)

LEMMA InitHonest == Init => HonestInv
    BY DEF Init, HttpInit, HonestInv, NumbersInv, Known, OutcomeHonest

LEMMA CallHonest == ASSUME HonestInv, NEW c, AnyCall(c) PROVE HonestInv'
<1>1. PICK op, arg, history :
        Call(c, op, arg, history) /\ (op = "record_consent" => ~SdkOnly(c))
    BY DEF AnyCall, Legal
<1> DEFINE r == [n |-> sent + 1, by |-> c, op |-> op, arg |-> arg,
                 cred |-> Credential(c, op), custodial |-> Custodial(c),
                 history |-> history]
           o == Raised(r, Raise("SDK_ONLY_MODE_NO_API"))
<1>2. sent \in Nat /\ sent' = sent + 1 /\ UNCHANGED <<reply, done>>
    BY <1>1 DEF Call, HonestInv, NumbersInv
<1>3. r.n = sent + 1 /\ r.op = op /\ o.req = r /\ ~o.ok
    BY DEF Raised
<1>4. Known' \subseteq Known \cup {r}
  <2>1. CASE SdkOnly(c)
    <3>1. waiting' = waiting /\ pending' = pending /\ ended' = ended \cup {o}
        BY <1>1, <2>1 DEF Call
    <3> QED
        BY <1>2, <1>3, <3>1 DEF Known
  <2>2. CASE ~SdkOnly(c)
    <3>1. waiting' = waiting \cup {r} /\ pending' = pending \cup {r} /\ ended' = ended
        BY <1>1, <2>2 DEF Call
    <3> HIDE DEF r
    <3> QED
        BY <1>2, <3>1 DEF Known
  <2> QED
    BY <2>1, <2>2
<1>5. pending' \subseteq pending \cup {r} /\ pending \subseteq pending'
    BY <1>1 DEF Call
<1>6. NumbersInv'
    BY <1>2, <1>3, <1>4, <1>5 DEF HonestInv, NumbersInv
<1>7. r \notin Known /\ \A q \in Known : q.n # r.n
    BY <1>2, <1>3 DEF HonestInv, NumbersInv
<1>8. \A a \in reply' : Truthful(a)'
    BY <1>2, <1>5, <1>7 DEF HonestInv, Truthful, Known
<1>9. CASE SdkOnly(c)
  <2>1. pending' = pending /\ ended' = ended \cup {o} /\ r.n \notin done /\ op # "record_consent"
    BY <1>1, <1>2, <1>3, <1>9 DEF Call, HonestInv, NumbersInv
  <2>2. o.req \notin pending'
    BY <1>3, <1>7, <2>1 DEF Known
  <2> HIDE DEF r, o
  <2>3. OutcomeHonest'
    BY <1>2, <1>3, <2>1, <2>2 DEF HonestInv, OutcomeHonest
  <2> QED
    BY <1>6, <1>8, <2>3 DEF HonestInv
<1>10. CASE ~SdkOnly(c)
  <2>1. ended' = ended
    BY <1>1, <1>10 DEF Call
  <2> HIDE DEF r, o
  <2>2. \A e \in ended : e.req # r
    BY <1>7 DEF Known
  <2>3. OutcomeHonest'
    BY <1>2, <1>5, <2>1, <2>2 DEF HonestInv, OutcomeHonest
  <2> QED
    BY <1>6, <1>8, <2>3 DEF HonestInv
<1> QED
    BY <1>9, <1>10

LEMMA DeliverTo ==
    ASSUME NEW r, NEW status, NEW code, NEW body, Deliver(r, status, code, body)
    PROVE  \A a \in reply' : \/ a \in reply /\ a.to # r
                             \/ a.to = r /\ a.status = status /\ a.code = code
    BY DEF Deliver

\* The answer of the API is delivered, or nobody waits for it any more.
LEMMA AnswerTo ==
    ASSUME HonestInv, NEW r \in pending, NEW status, NEW code, NEW body,
           Answer(r, status, code, body)
    PROVE  /\ pending' = pending \ {r}
           /\ UNCHANGED <<waiting, ended, sent>>
           /\ \A a \in reply' : \/ a \in reply
                                \/ a.to = r /\ a.status = status /\ a.code = code
           /\ Known' \subseteq Known
<1>1. pending' = pending \ {r} /\ UNCHANGED <<waiting, ended, sent>>
    BY DEF Answer
<1>2. \A a \in reply' : a \in reply \/ (a.to = r /\ a.status = status /\ a.code = code)
    BY DeliverTo DEF Answer
<1>3. Known' \subseteq Known
    BY <1>1, <1>2 DEF Known
<1> QED
    BY <1>1, <1>2, <1>3

LEMMA DoneHonest ==
    ASSUME HonestInv, NEW r \in pending, NEW body, Done(r, body) PROVE HonestInv'
<1>1. PICK status, code, b : status \in {200, 204} /\ Answer(r, status, code, b)
    BY DEF Done
<1>2. ~ (status >= 400)
    BY <1>1
<1>3. done' = done \cup {r.n}
    BY DEF Done
<1>4. /\ pending' = pending \ {r} /\ UNCHANGED <<waiting, ended, sent>>
      /\ \A a \in reply' : a \in reply \/ (a.to = r /\ a.status = status /\ a.code = code)
      /\ Known' \subseteq Known
    BY <1>1, AnswerTo
<1>5. r \in Known /\ \A q \in Known : q # r => q.n # r.n
    BY DEF HonestInv, NumbersInv, Known
<1>6. NumbersInv'
  <2>1. /\ sent' \in Nat
        /\ \A q \in Known' : q.n \in 1..sent'
        /\ \A q, p \in Known' : q.n = p.n => q = p
    BY <1>4 DEF HonestInv, NumbersInv
  <2>2. done' \subseteq 1..sent'
    BY <1>3, <1>4, <1>5 DEF HonestInv, NumbersInv
  <2>3. pending \subseteq Known
    BY DEF Known
  <2>4. \A q \in pending' : q.n \notin done'
    BY <1>3, <1>4, <1>5, <2>3 DEF HonestInv, NumbersInv
  <2> QED
    BY <2>1, <2>2, <2>4 DEF NumbersInv
<1>7. \A a \in reply' : Truthful(a)'
  <2> SUFFICES ASSUME NEW a \in reply' PROVE Truthful(a)'
    OBVIOUS
  <2>1. CASE a \in reply
    <3>1. Truthful(a) /\ a.to \in Known
        BY <2>1 DEF HonestInv, Known
    <3>2. a.to = r \/ a.to.n # r.n
        BY <1>5, <3>1
    <3> QED
        BY <1>3, <1>4, <3>1, <3>2 DEF Truthful
  <2>2. CASE a.to = r /\ a.status = status
    BY <1>2, <1>3, <2>2 DEF Truthful
  <2> QED
    BY <1>4, <2>1, <2>2
<1>8. \A o \in ended : o.req = r \/ o.req.n # r.n
    BY <1>5 DEF Known
<1>9. OutcomeHonest'
    BY <1>3, <1>4, <1>8 DEF HonestInv, OutcomeHonest
<1> QED
    BY <1>6, <1>7, <1>9 DEF HonestInv

LEMMA RefusedHonest ==
    ASSUME HonestInv, NEW r \in pending, NEW code, Refused(r, code) PROVE HonestInv'
<1> DEFINE status == IF code \in DOMAIN ClassStatus THEN ClassStatus[code] ELSE 400
<1>1. status >= 400
    BY ClassesFail DEF Failing
<1>2. Answer(r, status, code, None) /\ done' = done
    BY DEF Refused
<1> HIDE DEF status
<1>3. /\ pending' = pending \ {r} /\ UNCHANGED <<waiting, ended, sent>>
      /\ \A a \in reply' : a \in reply \/ (a.to = r /\ a.status = status /\ a.code = code)
      /\ Known' \subseteq Known
    BY <1>2, AnswerTo
<1>4. NumbersInv' /\ r.n \notin done
    BY <1>2, <1>3 DEF HonestInv, NumbersInv
<1>5. \A a \in reply' : Truthful(a)'
    BY <1>1, <1>2, <1>3, <1>4 DEF HonestInv, Truthful
<1>6. OutcomeHonest'
    BY <1>2, <1>3 DEF HonestInv, OutcomeHonest
<1> QED
    BY <1>4, <1>5, <1>6 DEF HonestInv

LEMMA GatewayHonest == ASSUME HonestInv, NEW c, GatewayFails(c) PROVE HonestInv'
<1>1. PICK r \in waiting : Deliver(r, 502, None, None)
    BY DEF GatewayFails
<1>2. UNCHANGED <<waiting, pending, ended, sent, done>>
    BY DEF GatewayFails
<1>3. \A a \in reply' : a \in reply \/ (a.to = r /\ a.status = 502 /\ a.code = None)
    BY <1>1, DeliverTo
<1>4. Known' \subseteq Known
    BY <1>2, <1>3 DEF Known
<1>5. NumbersInv'
    BY <1>2, <1>4 DEF HonestInv, NumbersInv
<1>6. \A a \in reply' : Truthful(a)'
    BY <1>2, <1>3 DEF HonestInv, Truthful
<1>7. OutcomeHonest'
    BY <1>2 DEF HonestInv, OutcomeHonest
<1> QED
    BY <1>5, <1>6, <1>7 DEF HonestInv

-----------------------------------------------------------------------------
(* A call ends. *)

\* What OutcomeHonest says of one outcome.
Honest(o) ==
    /\ o.ok => o.req.n \in done
    /\ ~o.ok /\ o.error.code \notin {None, "INTERNAL_ERROR"} =>
         o.req.n \notin done /\ o.req \notin pending

LEMMA InterpretHonest ==
    ASSUME NEW a, Truthful(a), NEW subscripts
    PROVE  /\ Interpret(a.to, a, subscripts).req = a.to
           /\ Honest(Interpret(a.to, a, subscripts))
<1> DEFINE e == MapApiError(a.code, a.status, None)
<1>1. a.code = None => e.code = "INTERNAL_ERROR"
    BY DEF MapApiError, Raise
<1>2. CASE a.status >= 400
  <2>1. Interpret(a.to, a, subscripts) = Raised(a.to, e)
    BY <1>2 DEF Interpret
  <2> HIDE DEF e
  <2>2. Raised(a.to, e).req = a.to /\ ~Raised(a.to, e).ok /\ Raised(a.to, e).error = e
    BY DEF Raised
  <2> QED
    BY <1>1, <1>2, <2>1, <2>2 DEF Truthful, Honest
<1>3. CASE ~(a.status >= 400)
  <2>1. Foreign("KeyError").code = None
    BY DEF Foreign
  <2>2. CASE a.body = None /\ a.to.op \in subscripts
    <3>1. Interpret(a.to, a, subscripts) = Raised(a.to, Foreign("KeyError"))
        BY <1>3, <2>2 DEF Interpret
    <3> QED
        BY <2>1, <3>1 DEF Raised, Honest
  <2>3. CASE ~(a.body = None /\ a.to.op \in subscripts)
    <3>1. Interpret(a.to, a, subscripts) = Returned(a.to, a.body)
        BY <1>3, <2>3 DEF Interpret
    <3> QED
        BY <1>3, <3>1 DEF Returned, Honest, Truthful
  <2> QED
    BY <2>2, <2>3
<1> QED
    BY <1>2, <1>3

LEMMA EndHonest ==
    ASSUME HonestInv, NEW o, Honest(o), o.req \in Known, End(o.req, o) PROVE HonestInv'
<1>1. /\ waiting' = waiting \ {o.req} /\ reply' \subseteq reply
      /\ ended' = ended \cup {Surface(o)} /\ UNCHANGED <<pending, sent, done>>
    BY DEF End
<1>2. /\ Surface(o).req = o.req
      /\ IF o.req.op = "record_consent" THEN Surface(o).ok ELSE Surface(o) = o
    BY DEF Surface, Returned
<1>3. Known' \subseteq Known
    BY <1>1, <1>2 DEF Known
<1>4. NumbersInv'
    BY <1>1, <1>3 DEF HonestInv, NumbersInv
<1>5. \A a \in reply' : Truthful(a)'
    BY <1>1 DEF HonestInv, Truthful
<1>6. OutcomeHonest'
    BY <1>1, <1>2 DEF HonestInv, OutcomeHonest, Honest
<1> QED
    BY <1>4, <1>5, <1>6 DEF HonestInv

LEMMA ReceiveHonest ==
    ASSUME HonestInv, NEW c, NEW subscripts, Receive(c, subscripts) PROVE HonestInv'
<1>1. PICK a \in reply : End(a.to, Interpret(a.to, a, subscripts))
    BY DEF Receive
<1>2. Truthful(a) /\ a.to \in Known
    BY DEF HonestInv, Known
<1> QED
    BY <1>1, <1>2, InterpretHonest, EndHonest

LEMMA TimeoutHonest == ASSUME HonestInv, NEW c, Timeout(c) PROVE HonestInv'
<1>1. PICK r \in waiting : End(r, Raised(r, Foreign("Timeout")))
    BY DEF Timeout
<1>2. Raised(r, Foreign("Timeout")).req = r /\ Honest(Raised(r, Foreign("Timeout")))
    BY DEF Raised, Foreign, Honest
<1>3. r \in Known
    BY DEF Known
<1> QED
    BY <1>1, <1>2, <1>3, EndHonest

LEMMA NextHonest == HonestInv /\ [Next]_vars => HonestInv'
<1> SUFFICES ASSUME HonestInv, [Next]_vars PROVE HonestInv'
    OBVIOUS
<1>1. ASSUME NEW c \in Callers, AnyMethod(c) PROVE HonestInv'
    BY <1>1, MethodCalls, CallHonest
<1>2. ASSUME NEW c \in Callers, Network(c) PROVE HonestInv'
    BY <1>2, ReceiveHonest, TimeoutHonest, GatewayHonest DEF Network
<1>3. ASSUME NEW r \in pending, Serve(r) PROVE HonestInv'
    BY <1>3, ServeEnds, DoneHonest, RefusedHonest
<1>4. CASE UNCHANGED vars
    BY <1>4 DEF vars, httpVars, HonestInv, NumbersInv, Known, Truthful, OutcomeHonest
<1> QED
    BY <1>1, <1>2, <1>3, <1>4 DEF Next

LEMMA AlwaysHonest == Spec => []HonestInv
    BY InitHonest, NextHonest, PTL DEF Spec

-----------------------------------------------------------------------------
\* A call that returned had its effect, and one that raised an error of the API
\* had none and never will: for every client, whatever is lost or comes late
\* (http_adapter.py:66-81, errors.py:616-641).
THEOREM ClientOutcomeHonest == Spec => []OutcomeHonest
<1>1. HonestInv => OutcomeHonest
    BY DEF HonestInv
<1> QED
    BY <1>1, AlwaysHonest, PTL
=============================================================================
