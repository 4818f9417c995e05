----------------------------- MODULE ClientApiProofs -----------------------------
(***************************************************************************)
(* Theorems about Client that need to know what requests ask for and what  *)
(* the API keeps: credentials sent, keys taken, revocations seen.          *)
(***************************************************************************)
EXTENDS ClientProofs, SequenceTheorems

-----------------------------------------------------------------------------
(* Sequences of credentials. *)

IsSeq(s) == \E S : s \in Seq(S)

\* What a sequence has, it keeps when something is appended.
Extends(s, t) == DOMAIN s \subseteq DOMAIN t /\ \A i \in DOMAIN s : t[i] = s[i]

LEMMA AppendExtends ==
    ASSUME NEW s, IsSeq(s), NEW x
    PROVE  /\ IsSeq(Append(s, x))
           /\ DOMAIN s = 1..Len(s) /\ Len(s) \in Nat
           /\ DOMAIN Append(s, x) = 1..(Len(s) + 1)
           /\ Len(Append(s, x)) = Len(s) + 1
           /\ Append(s, x)[Len(s) + 1] = x
           /\ Extends(s, Append(s, x))
<1>1. PICK S : s \in Seq(S)
    BY DEF IsSeq
<1>2. s \in Seq(S \cup {x}) /\ x \in S \cup {x}
    BY <1>1
<1>3. Append(s, x) \in Seq(S \cup {x})
    BY <1>2
<1>4. IsSeq(Append(s, x))
    BY <1>3 DEF IsSeq
<1>5. DOMAIN s = 1..Len(s) /\ Len(s) \in Nat
    BY <1>1
<1>6. /\ DOMAIN Append(s, x) = 1..(Len(s) + 1)
      /\ Len(Append(s, x)) = Len(s) + 1
      /\ Append(s, x)[Len(s) + 1] = x
      /\ \A i \in 1..Len(s) : Append(s, x)[i] = s[i]
    BY <1>1, <1>2
<1>7. Extends(s, Append(s, x))
    BY <1>5, <1>6 DEF Extends
<1> QED
    BY <1>4, <1>5, <1>6, <1>7

-----------------------------------------------------------------------------
(* The inductive invariant. *)

\* A request has its client's credential, a key of its own, credentials that
\* exist, and no more in its history than has happened.
WellMade(q) ==
    /\ q.cred = Credential(q.by, q.op) /\ q.custodial = Custodial(q.by)
    /\ q.op = "create_did" => q.arg = q.n
    /\ q.op \in {"revoke_vc", "renew_vc", "check_vc_status"} => q.arg \in DOMAIN vcs
    /\ q.op = "verify_vp" => q.arg \subseteq DOMAIN vcs
    /\ q.op = "resolve_did" => q.arg.live = q.arg.asked
    /\ q.op \in {"delegate", "issue_grant"} => q.arg.revokeExisting = q.arg.asked
    /\ \A i : <<"revoke_vc", i>> \in q.history => i \in revoked
    /\ \A d : <<"deactivate_did", d>> \in q.history => d \in gone

\* What has been done to the data stays done; a delegation stays exact until
\* another request changes a credential.
Effective(q) ==
    /\ q.op = "revoke_vc" => q.arg \in revoked
    /\ q.op = "deactivate_did" => q.arg \in gone
    /\ q.op = "verify_vp" =>
         \A i \in q.arg : /\ <<"revoke_vc", i>> \notin q.history
                          /\ <<"revoke_vc", vcs[i].parent>> \notin q.history
    /\ q.op \in {"delegate", "issue_grant"} /\ q.n = changed /\ q.arg.asked =>
         \A i \in Given(q) : vcs[i].scopes = q.arg.scopes

\* An answer says nothing that was known to be over when the call was made.
BodyTrue(q, body) ==
    body # None =>
      /\ q.op = "check_vc_status" /\ body = "active" => <<"revoke_vc", q.arg>> \notin q.history
      /\ q.op = "resolve_did" /\ q.arg.asked /\ ~body.deactivated =>
           <<"deactivate_did", q.arg.did>> \notin q.history
      /\ q.op = "sign_vp" => body \subseteq DOMAIN vcs

\* A code by which a request may be refused.
Plausible(q, code) ==
    /\ q.op = "create_did" => code # "DID_ALREADY_EXISTS"
    /\ code = "ADMIN_AUTH_REQUIRED" => ~Admitted(q)

DataInv ==
    /\ IsSeq(vcs)
    /\ revoked \subseteq DOMAIN vcs
    /\ \A k : <<"create_did", k>> \in taken => k \in done

ApiInv ==
    /\ HonestInv
    /\ DataInv
    /\ \A q \in Known : WellMade(q) /\ (q.n \in done => Effective(q))
    /\ \A a \in reply : Plausible(a.to, a.code) /\ BodyTrue(a.to, a.body)
    /\ \A o \in ended : IF o.ok THEN BodyTrue(o.req, o.body) ELSE Plausible(o.req, o.error.code)

\* What no step undoes.
Grows ==
    /\ IsSeq(vcs') /\ Extends(vcs, vcs')
    /\ revoked \subseteq revoked' /\ revoked' \subseteq DOMAIN vcs'
    /\ gone \subseteq gone'

-----------------------------------------------------------------------------
(* The API serves a request. *)

\* A request is served, or refused and nothing changes.
Served(r) ==
    \/ /\ \E code : Refused(r, code) /\ Plausible(r, code)
       /\ UNCHANGED apiVars
    \/ /\ \E body : Done(r, body) /\ BodyTrue(r, body)'
       /\ Effective(r)'
       /\ Grows
       /\ taken' \subseteq taken \cup {<<r.op, r.arg>>}
       /\ UNCHANGED <<vcs, revoked, changed>> \/ changed' = r.n

\* When the data of the API is as it was.
LEMMA SameGrows == ASSUME DataInv, UNCHANGED <<vcs, revoked, gone>> PROVE Grows
    BY DEF DataInv, Grows, Extends

\* When the API has stored a credential.
LEMMA AppendGrows ==
    ASSUME DataInv, NEW x, vcs' = Append(vcs, x), revoked \subseteq revoked',
           revoked' \subseteq DOMAIN vcs, gone' = gone
    PROVE  Grows
<1>1. IsSeq(vcs') /\ Extends(vcs, vcs')
    BY AppendExtends DEF DataInv
<1>2. revoked' \subseteq DOMAIN vcs'
    BY <1>1 DEF Extends
<1> QED
    BY <1>1, <1>2 DEF Grows

LEMMA ServedOnce ==
    ASSUME DataInv, NEW r, WellMade(r), r.n \notin done, ServeOnce(r) PROVE Served(r)
<1>1. r.op \in {"create_did", "add_service_endpoint", "create_service", "onboard_agent",
                "verify_user_challenge"}
    BY DEF ServeOnce, AlreadyCode
<1>2. CASE <<r.op, r.arg>> \in taken
  <2>1. Refused(r, AlreadyCode[r.op]) /\ UNCHANGED apiVars
    BY <1>2 DEF ServeOnce, Same
  <2>2. r.op # "create_did"
    BY <1>2 DEF DataInv, WellMade
  <2>3. AlreadyCode[r.op] # "ADMIN_AUTH_REQUIRED"
    BY <1>1 DEF AlreadyCode
  <2> QED
    BY <2>1, <2>2, <2>3 DEF Served, Plausible
<1>3. CASE <<r.op, r.arg>> \notin taken
  <2> DEFINE body == IF r.op = "onboard_agent" THEN Len(vcs) + 1 ELSE r.arg
  <2>1. /\ Done(r, body) /\ taken' = taken \cup {<<r.op, r.arg>>} /\ UNCHANGED <<gone, revoked>>
        /\ IF r.op = "onboard_agent" THEN vcs' = Append(vcs, Own(r.arg)) /\ changed' = r.n
           ELSE UNCHANGED <<vcs, changed>>
    BY <1>3 DEF ServeOnce
  <2> HIDE DEF body
  <2>2. (\A b : BodyTrue(r, b)') /\ Effective(r)'
    BY <1>1 DEF BodyTrue, Effective
  <2>3. Grows
    <3>1. CASE r.op = "onboard_agent"
        BY <2>1, <3>1, AppendGrows DEF DataInv
    <3>2. CASE r.op # "onboard_agent"
        BY <2>1, <3>2, SameGrows
    <3> QED
        BY <3>1, <3>2
  <2>4. UNCHANGED <<vcs, revoked, changed>> \/ changed' = r.n
    BY <2>1
  <2> QED
    BY <2>1, <2>2, <2>3, <2>4 DEF Served
<1> QED
    BY <1>2, <1>3

LEMMA ServedRemove ==
    ASSUME DataInv, NEW r, ServeRemove(r) PROVE Served(r)
<1>1. r.op = "remove_service_endpoint"
    BY DEF ServeRemove
<1>2. Plausible(r, "SERVICE_ENDPOINT_NOT_FOUND") /\ BodyTrue(r, r.arg)' /\ Effective(r)'
    BY <1>1 DEF Plausible, BodyTrue, Effective
<1>3. CASE Refused(r, "SERVICE_ENDPOINT_NOT_FOUND") /\ Same
    BY <1>2, <1>3 DEF Served, Same
<1>4. CASE /\ Done(r, r.arg) /\ taken' \subseteq taken
           /\ UNCHANGED <<gone, vcs, revoked, changed>>
    BY <1>2, <1>4, SameGrows DEF Served
<1> QED
    BY <1>3, <1>4 DEF ServeRemove

LEMMA ServedDeactivate ==
    ASSUME DataInv, NEW r, ServeDeactivate(r) PROVE Served(r)
<1>1. r.op = "deactivate_did"
    BY DEF ServeDeactivate
<1>2. Plausible(r, "DID_DEACTIVATED") /\ BodyTrue(r, None)'
    BY <1>1 DEF Plausible, BodyTrue
<1>3. CASE Refused(r, "DID_DEACTIVATED") /\ Same
    BY <1>2, <1>3 DEF Served, Same
<1>4. CASE /\ Done(r, None) /\ gone' = gone \cup {r.arg}
           /\ UNCHANGED <<taken, vcs, revoked, changed>>
  <2>1. Effective(r)' /\ Grows
    BY <1>1, <1>4 DEF Effective, Grows, DataInv, Extends
  <2> QED
    BY <1>2, <1>4, <2>1 DEF Served
<1> QED
    BY <1>3, <1>4 DEF ServeDeactivate

LEMMA ServedResolve ==
    ASSUME DataInv, NEW r, WellMade(r), ServeResolve(r) PROVE Served(r)
<1>1. r.op = "resolve_did" /\ UNCHANGED apiVars
    BY DEF ServeResolve, Same
<1>2. PICK deactivated \in {r.arg.did \in gone} \cup (IF r.arg.live THEN {} ELSE {FALSE}) :
        Done(r, [deactivated |-> deactivated])
    BY DEF ServeResolve
<1>3. r.arg.asked /\ ~deactivated => r.arg.did \notin gone
    BY <1>1, <1>2 DEF WellMade
<1>4. r.arg.asked /\ ~deactivated => <<"deactivate_did", r.arg.did>> \notin r.history
    BY <1>3 DEF WellMade
<1>5. BodyTrue(r, [deactivated |-> deactivated])' /\ Effective(r)'
    BY <1>1, <1>4 DEF BodyTrue, Effective
<1> QED
    BY <1>1, <1>2, <1>5, SameGrows DEF Served, apiVars

LEMMA ServedStore ==
    ASSUME DataInv, NEW r, ServeStore(r) PROVE Served(r)
<1>1. /\ r.op \in {"issue_vc", "register_vc"} /\ changed' = r.n
      /\ taken' \subseteq taken \cup {<<r.op, r.arg>>} /\ UNCHANGED <<gone, revoked>>
    BY DEF ServeStore
<1>2. PICK body : Done(r, body)
    BY DEF ServeStore
<1>3. BodyTrue(r, body)' /\ Effective(r)'
    BY <1>1 DEF BodyTrue, Effective
<1>4. Grows
  <2>1. CASE vcs' = vcs
    BY <1>1, <2>1, SameGrows
  <2>2. CASE \E x : vcs' = Append(vcs, x)
    BY <1>1, <2>2, AppendGrows DEF DataInv
  <2> QED
    BY <2>1, <2>2 DEF ServeStore
<1> QED
    BY <1>1, <1>2, <1>3, <1>4 DEF Served

LEMMA ServedRenew ==
    ASSUME DataInv, NEW r, WellMade(r), ServeRenew(r) PROVE Served(r)
<1>1. r.op = "renew_vc" /\ r.arg \in DOMAIN vcs
    BY DEF ServeRenew, WellMade
<1>2. CASE Refused(r, "VC_REVOKED") /\ Same
    BY <1>1, <1>2 DEF Served, Same, Plausible
<1>3. CASE /\ Done(r, Len(vcs) + 1) /\ vcs' = Append(vcs, vcs[r.arg])
           /\ revoked' \in {revoked, revoked \cup {r.arg}}
           /\ changed' = r.n /\ UNCHANGED <<taken, gone>>
  <2>1. (\A b : BodyTrue(r, b)') /\ Effective(r)'
    BY <1>1 DEF BodyTrue, Effective
  <2>2. revoked \subseteq revoked' /\ revoked' \subseteq DOMAIN vcs
    BY <1>1, <1>3 DEF DataInv
  <2>3. Grows
    BY <1>3, <2>2, AppendGrows
  <2> QED
    BY <1>3, <2>1, <2>3 DEF Served
<1> QED
    BY <1>2, <1>3 DEF ServeRenew

LEMMA ServedRevoke ==
    ASSUME DataInv, NEW r, WellMade(r), ServeRevoke(r) PROVE Served(r)
<1>1. r.op = "revoke_vc" /\ r.arg \in DOMAIN vcs
    BY DEF ServeRevoke, WellMade
<1>2. CASE Refused(r, "VC_ALREADY_REVOKED") /\ Same
    BY <1>1, <1>2 DEF Served, Same, Plausible
<1>3. CASE /\ Done(r, None) /\ revoked' = revoked \cup {r.arg}
           /\ changed' = r.n /\ UNCHANGED <<taken, gone, vcs>>
  <2>1. BodyTrue(r, None)' /\ Effective(r)'
    BY <1>1, <1>3 DEF BodyTrue, Effective
  <2>2. Grows
    BY <1>1, <1>3 DEF Grows, DataInv, Extends
  <2> QED
    BY <1>3, <2>1, <2>2 DEF Served
<1> QED
    BY <1>2, <1>3 DEF ServeRevoke

LEMMA ServedSign ==
    ASSUME DataInv, NEW r, ServeSign(r) PROVE Served(r)
<1>1. r.op = "sign_vp" /\ UNCHANGED apiVars
    BY DEF ServeSign, Same
<1>2. CASE Refused(r, "VP_NO_ACTIVE_VC")
    BY <1>1, <1>2 DEF Served, Plausible
<1>3. CASE Done(r, HeldBy(r.arg))
  <2>1. PICK body : body = HeldBy(r.arg)
    OBVIOUS
  <2>2. body \subseteq DOMAIN vcs
    BY <2>1 DEF HeldBy, Active
  <2>3. BodyTrue(r, body)' /\ Effective(r)'
    BY <1>1, <2>2 DEF BodyTrue, Effective, apiVars
  <2> QED
    BY <1>1, <1>3, <2>1, <2>3, SameGrows DEF Served, apiVars
<1> QED
    BY <1>2, <1>3 DEF ServeSign

LEMMA ServedVerify ==
    ASSUME DataInv, NEW r, WellMade(r), ServeVerify(r) PROVE Served(r)
<1>1. r.op = "verify_vp" /\ UNCHANGED apiVars
    BY DEF ServeVerify, Same
<1>2. CASE Refused(r, "VC_REVOKED")
    BY <1>1, <1>2 DEF Served, Plausible
<1>3. CASE /\ \A i \in r.arg : {i, vcs[i].parent} \subseteq Active \cup {0}
           /\ Done(r, UNION {vcs[i].scopes : i \in r.arg})
  <2>1. \A i \in r.arg : i \notin revoked /\ vcs[i].parent \notin revoked
    <3>1. 0 \notin DOMAIN vcs
        BY AppendExtends DEF DataInv
    <3> QED
        BY <1>3, <3>1 DEF Active, DataInv
  <2>2. Effective(r)'
    BY <1>1, <2>1 DEF Effective, WellMade, apiVars
  <2>3. PICK body : Done(r, body)
    BY <1>3
  <2>4. BodyTrue(r, body)'
    BY <1>1 DEF BodyTrue
  <2>5. Grows
    BY <1>1, SameGrows DEF apiVars
  <2> QED
    BY <1>1, <2>2, <2>3, <2>4, <2>5 DEF Served, apiVars
<1> QED
    BY <1>2, <1>3 DEF ServeVerify

LEMMA ServedStatus ==
    ASSUME DataInv, NEW r, WellMade(r), ServeStatus(r) PROVE Served(r)
<1>1. r.op = "check_vc_status" /\ UNCHANGED apiVars
    BY DEF ServeStatus, Same
<1>2. PICK body : body = IF r.arg \in revoked THEN "revoked" ELSE "active"
    OBVIOUS
<1>3. BodyTrue(r, body)' /\ Effective(r)'
    BY <1>1, <1>2 DEF BodyTrue, Effective, WellMade
<1> QED
    BY <1>1, <1>2, <1>3, SameGrows DEF Served, ServeStatus, apiVars

LEMMA ServedOther ==
    ASSUME DataInv, NEW r, ServeOther(r) PROVE Served(r)
<1>1. /\ r.op \in {"read_vcs", "get_agent_scopes", "get_status_list", "create_status_list",
                   "get_audit_log", "record_consent", "fetch_session_public_key",
                   "request_user_challenge"}
      /\ Done(r, "data") /\ UNCHANGED apiVars
    BY DEF ServeOther, Same
<1>2. BodyTrue(r, "data")' /\ Effective(r)'
    BY <1>1 DEF BodyTrue, Effective
<1> QED
    BY <1>1, <1>2, SameGrows DEF Served, apiVars

\* The scopes given again refresh an earlier delegation; of the others none is
\* left when they were to be revoked.
LEMMA ServedGrant ==
    ASSUME DataInv, NEW r, WellMade(r), ServeGrant(r) PROVE Served(r)
<1>1. r.op \in {"delegate", "issue_grant"}
    BY DEF ServeGrant
<1>2. CASE \E code \in Refusals : Refused(r, code) /\ Same
    BY <1>1, <1>2, RefusalsAssumption DEF Served, Same, Plausible
<1>3. ASSUME NEW parent \in Parents(r),
             LET v == Vc(r.arg.to, r.arg.from, r.arg.scopes, parent)
                 again == {i \in Given(r) : vcs[i].scopes = v.scopes}
             IN /\ vcs' = IF again = {} THEN Append(vcs, v) ELSE vcs
                /\ revoked' = IF r.arg.revokeExisting
                              THEN revoked \cup (Given(r) \ again) ELSE revoked
                /\ changed' = r.n
                /\ Done(r, IF again = {} THEN Len(vcs') ELSE CHOOSE i \in again : TRUE)
                /\ UNCHANGED <<taken, gone>>
      PROVE  Served(r)
  <2> DEFINE v == Vc(r.arg.to, r.arg.from, r.arg.scopes, parent)
             again == {i \in Given(r) : vcs[i].scopes = v.scopes}
  <2>1. v.to = r.arg.to /\ v.from = r.arg.from /\ v.scopes = r.arg.scopes
    BY DEF Vc
  <2>2. again \subseteq Given(r) /\ Given(r) \subseteq DOMAIN vcs
    BY DEF Given, Active
  <2>3. \A i \in again : vcs[i].scopes = r.arg.scopes
    BY <2>1
  <2>4. PICK body : Done(r, body)
    BY <1>3
  <2>5. /\ vcs' = IF again = {} THEN Append(vcs, v) ELSE vcs
        /\ revoked' = IF r.arg.revokeExisting THEN revoked \cup (Given(r) \ again) ELSE revoked
        /\ changed' = r.n /\ UNCHANGED <<taken, gone>>
    BY <1>3
  <2> HIDE DEF v, again
  <2>6. Grows
    <3>1. revoked \subseteq revoked' /\ revoked' \subseteq DOMAIN vcs
        BY <2>2, <2>5 DEF DataInv
    <3>2. CASE again = {}
        BY <2>5, <3>1, <3>2, AppendGrows
    <3>3. CASE again # {}
        BY <2>5, <3>1, <3>3 DEF DataInv, Grows, Extends
    <3> QED
        BY <3>2, <3>3
  <2>7. ASSUME r.arg.asked, NEW i \in Given(r)' PROVE vcs'[i].scopes = r.arg.scopes
    <3>1. revoked' = revoked \cup (Given(r) \ again)
        BY <1>1, <2>5, <2>7 DEF WellMade
    <3>2. i \in DOMAIN vcs' /\ i \notin revoked' /\ vcs'[i].to = r.arg.to /\ vcs'[i].from = r.arg.from
        BY <2>7 DEF Given, Active
    <3>3. CASE i \in DOMAIN vcs
      <4>1. vcs'[i] = vcs[i]
        BY <2>6, <3>3 DEF Grows, Extends
      <4>2. i \in Given(r)
        BY <3>1, <3>2, <3>3, <4>1 DEF Given, Active
      <4> QED
        BY <2>3, <3>1, <3>2, <4>1, <4>2
    <3>4. CASE i \notin DOMAIN vcs
      <4>1. vcs' = Append(vcs, v)
        BY <2>5, <3>2, <3>4
      <4>2. i = Len(vcs) + 1 /\ vcs'[i] = v
        BY <3>2, <3>4, <4>1, AppendExtends DEF DataInv
      <4> QED
        BY <2>1, <4>2
    <3> QED
        BY <3>3, <3>4
  <2>8. BodyTrue(r, body)' /\ Effective(r)'
    BY <1>1, <2>7 DEF BodyTrue, Effective
  <2> QED
    BY <2>4, <2>5, <2>6, <2>8 DEF Served
<1> QED
    BY <1>2, <1>3 DEF ServeGrant

LEMMA ServeServed ==
    ASSUME DataInv, NEW r, WellMade(r), r.n \notin done, Serve(r) PROVE Served(r)
<1>1. CASE ~Admitted(r) /\ Refused(r, "ADMIN_AUTH_REQUIRED") /\ Same
    BY <1>1 DEF Served, Plausible, Same
<1> QED
    BY <1>1, ServedOnce, ServedRemove, ServedDeactivate, ServedResolve, ServedStore, ServedRenew,
       ServedRevoke, ServedGrant, ServedSign, ServedVerify, ServedStatus, ServedOther DEF Serve

-----------------------------------------------------------------------------
(* What was true of requests and answers stays true. *)

LEMMA WellMadeKept == ASSUME Grows, NEW q, WellMade(q) PROVE WellMade(q)'
    BY DEF Grows, Extends, WellMade

LEMMA EffectiveKept ==
    ASSUME Grows, NEW q, WellMade(q), Effective(q),
           UNCHANGED <<vcs, revoked, changed>> \/ q.n # changed'
    PROVE  Effective(q)'
<1>1. q.op = "revoke_vc" => q.arg \in revoked'
    BY DEF Grows, Effective
<1>2. q.op = "deactivate_did" => q.arg \in gone'
    BY DEF Grows, Effective
<1>3. q.op = "verify_vp" =>
        \A i \in q.arg : /\ <<"revoke_vc", i>> \notin q.history
                         /\ <<"revoke_vc", vcs'[i].parent>> \notin q.history
  <2> SUFFICES ASSUME q.op = "verify_vp", NEW i \in q.arg
               PROVE  /\ <<"revoke_vc", i>> \notin q.history
                      /\ <<"revoke_vc", vcs'[i].parent>> \notin q.history
    OBVIOUS
  <2>1. vcs'[i] = vcs[i]
    BY DEF Grows, Extends, WellMade
  <2> QED
    BY <2>1 DEF Effective
<1>4. q.op \in {"delegate", "issue_grant"} /\ q.n = changed' /\ q.arg.asked =>
        \A i \in Given(q)' : vcs'[i].scopes = q.arg.scopes
    BY DEF Effective, Given, Active
<1> QED
    BY <1>1, <1>2, <1>3, <1>4 DEF Effective

LEMMA BodyTrueKept == ASSUME Grows, NEW q, NEW body, BodyTrue(q, body) PROVE BodyTrue(q, body)'
    BY DEF Grows, Extends, BodyTrue

LEMMA InitApi == ASSUME Init PROVE ApiInv
<1>1. HonestInv
    BY InitHonest
<1>2. Known = {} /\ reply = {} /\ ended = {}
    BY DEF Init, HttpInit, Known
<1>3. DataInv
  <2>1. Enrolled \in Seq(Tokens) /\ vcs = [i \in DOMAIN Enrolled |-> Own(Enrolled[i])]
    BY EnrolledAssumption DEF Init
  <2> DEFINE S == {Own(t) : t \in Tokens}
  <2>2. Len(Enrolled) \in Nat /\ DOMAIN Enrolled = 1..Len(Enrolled)
    BY <2>1
  <2>3. \A i \in DOMAIN Enrolled : Own(Enrolled[i]) \in S
    BY <2>1
  <2>4. vcs \in [1..Len(Enrolled) -> S]
    <3> HIDE DEF S
    <3> QED
        BY <2>1, <2>2, <2>3
  <2>5. vcs \in Seq(S)
    <3> HIDE DEF S
    <3> QED
        BY <2>2, <2>4, SeqDef
  <2>6. \A k : <<"create_did", k>> \notin taken
    BY DEF Init
  <2> QED
    BY <2>5, <2>6 DEF DataInv, IsSeq, Init
<1> QED
    BY <1>1, <1>2, <1>3 DEF ApiInv

LEMMA NoneIsNoCode == None \notin {"DID_ALREADY_EXISTS", "ADMIN_AUTH_REQUIRED", "active"}
<1>1. DidStatus \in Groups /\ GeneralStatus \in Groups
    BY DEF Groups
<1>2. "DID_ALREADY_EXISTS" \in DOMAIN DidStatus /\ "ADMIN_AUTH_REQUIRED" \in DOMAIN GeneralStatus
    BY DEF DidStatus, GeneralStatus
<1>3. {"DID_ALREADY_EXISTS", "ADMIN_AUTH_REQUIRED"} \subseteq Codes
    BY <1>1, <1>2 DEF Codes, ClassStatus
<1> QED
    BY <1>3, NoneAssumption

\* Of what the callers have been told, everything has happened.
LEMMA ToldHappened ==
    ASSUME ApiInv
    PROVE  /\ \A i : <<"revoke_vc", i>> \in Told => i \in revoked
           /\ \A d : <<"deactivate_did", d>> \in Told => d \in gone
<1>1. ASSUME NEW x \in Told
      PROVE  \E q \in Known : Effective(q) /\ x = <<q.op, q.arg>>
  <2>1. PICK o \in ended : /\ o.ok /\ o.req.op \in {"revoke_vc", "deactivate_did"}
                           /\ x = <<o.req.op, o.req.arg>>
    BY <1>1 DEF Told
  <2>2. o.req \in Known /\ o.req.n \in done
    BY <2>1 DEF Known, ApiInv, HonestInv, OutcomeHonest
  <2> QED
    BY <2>1, <2>2 DEF ApiInv
<1> QED
    BY <1>1 DEF Effective

LEMMA CallApi == ASSUME ApiInv, NEW c, AnyCall(c), Same PROVE ApiInv'
<1>1. PICK op, arg, history : Call(c, op, arg, history) /\ Legal(c, op, arg, history)
    BY DEF AnyCall
<1> DEFINE r == [n |-> sent + 1, by |-> c, op |-> op, arg |-> arg,
                 cred |-> Credential(c, op), custodial |-> Custodial(c),
                 history |-> history]
           o == Raised(r, Raise("SDK_ONLY_MODE_NO_API"))
<1>2. HonestInv'
    BY CallHonest DEF ApiInv
<1>3. Grows /\ UNCHANGED <<vcs, revoked, changed, gone, taken, reply, done>>
    BY <1>1, SameGrows DEF Same, apiVars, ApiInv, Call
<1>4. r.n = sent + 1 /\ r.by = c /\ r.op = op /\ r.arg = arg /\ r.history = history
      /\ r.cred = Credential(c, op) /\ r.custodial = Custodial(c)
    OBVIOUS
<1>5. o.req = r /\ ~o.ok /\ o.error.code = "SDK_ONLY_MODE_NO_API"
    BY DEF Raised, Raise
<1>6. /\ Known' \subseteq Known \cup {r}
      /\ ended' \subseteq ended \cup {o}
  <2>1. CASE SdkOnly(c)
    <3>1. waiting' = waiting /\ pending' = pending /\ ended' = ended \cup {o}
        BY <1>1, <2>1 DEF Call
    <3> QED
        BY <1>3, <1>5, <3>1 DEF Known
  <2>2. CASE ~SdkOnly(c)
    <3>1. waiting' = waiting \cup {r} /\ pending' = pending \cup {r} /\ ended' = ended
        BY <1>1, <2>2 DEF Call
    <3> HIDE DEF r
    <3> QED
        BY <1>3, <3>1 DEF Known
  <2> QED
    BY <2>1, <2>2
<1>7. r.n \notin done
    BY <1>4 DEF ApiInv, HonestInv, NumbersInv
<1> HIDE DEF r, o
<1>8. WellMade(r)
  <2>1. op = "verify_vp" => arg \subseteq DOMAIN vcs
    <3> SUFFICES ASSUME op = "verify_vp" PROVE arg \subseteq DOMAIN vcs
        OBVIOUS
    <3>1. PICK e \in ended : e.ok /\ e.req.op = "sign_vp" /\ e.body # None /\ arg = e.body
        BY <1>1 DEF Legal
    <3> QED
        BY <3>1 DEF ApiInv, BodyTrue
  <2>2. history \subseteq Told
    BY <1>1 DEF Legal
  <2>3. /\ op = "create_did" => arg = sent + 1
        /\ op \in {"revoke_vc", "renew_vc", "check_vc_status"} => arg \in DOMAIN vcs
        /\ op = "resolve_did" => arg.live = arg.asked
        /\ op \in {"delegate", "issue_grant"} => arg.revokeExisting = arg.asked
    BY <1>1 DEF Legal
  <2> QED
    BY <1>4, <2>1, <2>2, <2>3, ToldHappened DEF WellMade
<1>9. DataInv'
    BY <1>3 DEF ApiInv, DataInv
<1>10. \A q \in Known' : WellMade(q)' /\ (q.n \in done' => Effective(q)')
  <2> SUFFICES ASSUME NEW q \in Known' PROVE WellMade(q)' /\ (q.n \in done' => Effective(q)')
    OBVIOUS
  <2>1. CASE q \in Known
    BY <1>3, <2>1, WellMadeKept, EffectiveKept DEF ApiInv
  <2>2. CASE q = r
    BY <1>3, <1>7, <1>8, <2>2, WellMadeKept
  <2> QED
    BY <1>6, <2>1, <2>2
<1>11. \A a \in reply' : Plausible(a.to, a.code) /\ BodyTrue(a.to, a.body)'
    BY <1>3, BodyTrueKept DEF ApiInv
<1>12. \A e \in ended' :
         IF e.ok THEN BodyTrue(e.req, e.body)' ELSE Plausible(e.req, e.error.code)
  <2>1. Plausible(r, "SDK_ONLY_MODE_NO_API")
    BY DEF Plausible
  <2> QED
    BY <1>3, <1>5, <1>6, <2>1, BodyTrueKept DEF ApiInv
<1> QED
    BY <1>2, <1>9, <1>10, <1>11, <1>12 DEF ApiInv

\* The answer to r, beside those that were on their way.
LEMMA AnswerSays ==
    ASSUME NEW r, NEW status, NEW code, NEW body, Answer(r, status, code, body)
    PROVE  \A a \in reply' : a \in reply \/ (a.to = r /\ a.code = code /\ a.body = body)
    BY DEF Answer, Deliver

LEMMA NothingSaid == ASSUME NEW q PROVE Plausible(q, None) /\ BodyTrue(q, None)
    BY NoneIsNoCode DEF Plausible, BodyTrue

LEMMA DoneSays ==
    ASSUME NEW r, NEW body, Done(r, body), BodyTrue(r, body)'
    PROVE  \A a \in reply' : \/ a \in reply
                             \/ a.to = r /\ Plausible(r, a.code) /\ BodyTrue(r, a.body)'
<1>1. CASE Answer(r, 200, None, body)
    BY <1>1, AnswerSays, NothingSaid
<1>2. CASE Answer(r, 204, None, None)
  <2>1. BodyTrue(r, None)'
    BY DEF BodyTrue
  <2> QED
    BY <1>2, <2>1, AnswerSays, NothingSaid
<1> QED
    BY <1>1, <1>2 DEF Done

LEMMA ServeApi == ASSUME ApiInv, NEW r \in pending, Serve(r) PROVE ApiInv'
<1>1. WellMade(r) /\ r.n \notin done /\ r \in Known
    BY DEF ApiInv, HonestInv, NumbersInv, Known
<1>2. DataInv /\ HonestInv
    BY DEF ApiInv
<1>3. Served(r)
    BY <1>1, <1>2, ServeServed
<1>4. HonestInv'
    BY <1>2, ServeEnds, DoneHonest, RefusedHonest
<1>5. \A q \in Known : q # r => q.n # r.n
    BY <1>1, <1>2 DEF HonestInv, NumbersInv
<1>6. CASE (\E code : Refused(r, code) /\ Plausible(r, code)) /\ UNCHANGED apiVars
  <2>1. PICK code : Refused(r, code) /\ Plausible(r, code)
    BY <1>6
  <2>2. PICK status : Answer(r, status, code, None) /\ done' = done
    BY <2>1 DEF Refused
  <2>3. Known' \subseteq Known /\ ended' = ended
    BY <1>2, <2>2, AnswerTo
  <2>4. \A a \in reply' : a \in reply \/ (a.to = r /\ a.code = code /\ a.body = None)
    BY <2>2, AnswerSays
  <2>5. Grows /\ DataInv' /\ UNCHANGED <<vcs, revoked, changed>>
    BY <1>2, <1>6, <2>2, SameGrows DEF apiVars, DataInv
  <2>6. \A q \in Known' : WellMade(q)' /\ (q.n \in done' => Effective(q)')
    BY <2>2, <2>3, <2>5, WellMadeKept, EffectiveKept DEF ApiInv
  <2>7. \A a \in reply' : Plausible(a.to, a.code) /\ BodyTrue(a.to, a.body)'
    <3>1. BodyTrue(r, None)'
        BY DEF BodyTrue
    <3> QED
        BY <2>1, <2>4, <2>5, <3>1, BodyTrueKept DEF ApiInv
  <2>8. \A o \in ended' :
          IF o.ok THEN BodyTrue(o.req, o.body)' ELSE Plausible(o.req, o.error.code)
    BY <2>3, <2>5, BodyTrueKept DEF ApiInv
  <2> QED
    BY <1>4, <2>5, <2>6, <2>7, <2>8 DEF ApiInv
<1>7. CASE /\ \E body : Done(r, body) /\ BodyTrue(r, body)'
           /\ Effective(r)' /\ Grows /\ taken' \subseteq taken \cup {<<r.op, r.arg>>}
           /\ UNCHANGED <<vcs, revoked, changed>> \/ changed' = r.n
  <2>1. PICK body : Done(r, body) /\ BodyTrue(r, body)'
    BY <1>7
  <2>2. PICK status, code, b : Answer(r, status, code, b)
    BY <2>1 DEF Done
  <2>3. done' = done \cup {r.n}
    BY <2>1 DEF Done
  <2>4. Known' \subseteq Known /\ ended' = ended
    BY <1>2, <2>2, AnswerTo
  <2>5. DataInv'
    <3>1. \A k : <<"create_did", k>> \in taken' => k \in done'
        BY <1>1, <1>2, <1>7, <2>3 DEF DataInv, WellMade
    <3> QED
        BY <1>7, <3>1 DEF DataInv, Grows
  <2>6. \A q \in Known' : WellMade(q)' /\ (q.n \in done' => Effective(q)')
    <3> SUFFICES ASSUME NEW q \in Known' PROVE WellMade(q)' /\ (q.n \in done' => Effective(q)')
        OBVIOUS
    <3>1. WellMade(q) /\ (q.n \in done => Effective(q)) /\ q \in Known
        BY <2>4 DEF ApiInv
    <3>2. WellMade(q)'
        BY <1>7, <3>1, WellMadeKept
    <3>3. CASE q = r
        BY <1>7, <3>2, <3>3
    <3>4. CASE q # r
      <4>1. q.n # r.n
        BY <1>5, <3>1, <3>4
      <4>2. q.n \in done' => Effective(q)
        BY <2>3, <3>1, <4>1
      <4>3. UNCHANGED <<vcs, revoked, changed>> \/ q.n # changed'
        BY <1>7, <4>1
      <4> QED
        BY <1>7, <3>1, <3>2, <4>2, <4>3, EffectiveKept
    <3> QED
        BY <3>3, <3>4
  <2>7. \A a \in reply' : Plausible(a.to, a.code) /\ BodyTrue(a.to, a.body)'
    <3>1. \A a \in reply' : \/ a \in reply
                            \/ a.to = r /\ Plausible(r, a.code) /\ BodyTrue(r, a.body)'
        BY <2>1, DoneSays
    <3> QED
        BY <1>7, <3>1, BodyTrueKept DEF ApiInv
  <2>8. \A o \in ended' :
          IF o.ok THEN BodyTrue(o.req, o.body)' ELSE Plausible(o.req, o.error.code)
    BY <1>7, <2>4, BodyTrueKept DEF ApiInv
  <2> QED
    BY <1>4, <2>5, <2>6, <2>7, <2>8 DEF ApiInv
<1> QED
    BY <1>3, <1>6, <1>7 DEF Served

-----------------------------------------------------------------------------
(* A call ends. *)

\* map_api_error changes no code into one of the two, nor one of them.
LEMMA MapPlausible ==
    ASSUME NEW q, NEW code, NEW status, Plausible(q, code)
    PROVE  Plausible(q, MapApiError(code, status, None).code)
<1> DEFINE e == MapApiError(code, status, None)
<1>1. e.code \in {"INTERNAL_ERROR", "MAX_DELEGATION_DEPTH_EXCEEDED",
                  "SCOPE_ESCALATION_DENIED", code}
    BY DEF MapApiError, Raise, CodeToError, Alias
<1> QED
    BY <1>1 DEF Plausible

\* What ApiInv says of one outcome.
Sound(o) == IF o.ok THEN BodyTrue(o.req, o.body) ELSE Plausible(o.req, o.error.code)

LEMMA InterpretSound ==
    ASSUME NEW a, Plausible(a.to, a.code), BodyTrue(a.to, a.body), NEW subscripts
    PROVE  Sound(Interpret(a.to, a, subscripts))
<1> DEFINE e == MapApiError(a.code, a.status, None)
<1>1. Plausible(a.to, e.code)
    BY MapPlausible
<1> HIDE DEF e
<1>2. CASE a.status >= 400
  <2>1. Interpret(a.to, a, subscripts) = Raised(a.to, e)
    BY <1>2 DEF Interpret, e
  <2>2. Raised(a.to, e).req = a.to /\ ~Raised(a.to, e).ok /\ Raised(a.to, e).error = e
    BY DEF Raised
  <2> QED
    BY <1>1, <2>1, <2>2 DEF Sound
<1>3. CASE ~(a.status >= 400) /\ a.body = None /\ a.to.op \in subscripts
  <2>1. Interpret(a.to, a, subscripts) = Raised(a.to, Foreign("KeyError"))
    BY <1>3 DEF Interpret
  <2> QED
    BY <2>1, NothingSaid DEF Raised, Foreign, Sound
<1>4. CASE ~(a.status >= 400) /\ ~(a.body = None /\ a.to.op \in subscripts)
  <2>1. Interpret(a.to, a, subscripts) = Returned(a.to, a.body)
    BY <1>4 DEF Interpret
  <2> QED
    BY <2>1 DEF Returned, Sound
<1> QED
    BY <1>2, <1>3, <1>4

LEMMA EndApi ==
    ASSUME ApiInv, NEW o, Sound(o), o.req \in Known, End(o.req, o), Same, HonestInv'
    PROVE  ApiInv'
<1>1. /\ waiting' = waiting \ {o.req} /\ reply' \subseteq reply
      /\ ended' = ended \cup {Surface(o)} /\ UNCHANGED <<pending, sent, done>>
    BY DEF End
<1>2. Surface(o).req = o.req /\ Sound(Surface(o))
  <2>1. CASE o.req.op = "record_consent"
    BY <2>1, NothingSaid DEF Surface, Returned, Sound
  <2>2. CASE o.req.op # "record_consent"
    BY <2>2 DEF Surface
  <2> QED
    BY <2>1, <2>2
<1>3. Known' \subseteq Known
    BY <1>1, <1>2 DEF Known
<1>4. UNCHANGED <<vcs, revoked, changed, gone, taken>>
    BY DEF Same, apiVars
<1>5. Grows /\ DataInv'
    BY <1>1, <1>4, SameGrows DEF ApiInv, DataInv
<1>6. \A q \in Known' : WellMade(q)' /\ (q.n \in done' => Effective(q)')
    BY <1>1, <1>3, <1>4, <1>5, WellMadeKept, EffectiveKept DEF ApiInv
<1>7. \A a \in reply' : Plausible(a.to, a.code) /\ BodyTrue(a.to, a.body)'
    BY <1>1, <1>5, BodyTrueKept DEF ApiInv
<1>8. \A e \in ended' :
        IF e.ok THEN BodyTrue(e.req, e.body)' ELSE Plausible(e.req, e.error.code)
  <2>1. \A e \in ended' : Sound(e)
    BY <1>1, <1>2 DEF ApiInv, Sound
  <2> QED
    BY <1>5, <2>1, BodyTrueKept DEF Sound
<1> QED
    BY <1>5, <1>6, <1>7, <1>8 DEF ApiInv

LEMMA NetworkApi == ASSUME ApiInv, NEW c, Network(c) PROVE ApiInv'
<1>1. HonestInv' /\ Same
    BY ReceiveHonest, TimeoutHonest, GatewayHonest DEF Network, ApiInv
<1>2. CASE Receive(c, Subscripts)
  <2>1. PICK a \in reply : End(a.to, Interpret(a.to, a, Subscripts))
    BY <1>2 DEF Receive
  <2>2. /\ Truthful(a) /\ a.to \in Known
        /\ Plausible(a.to, a.code) /\ BodyTrue(a.to, a.body)
    BY DEF ApiInv, HonestInv, Known
  <2> QED
    BY <1>1, <2>1, <2>2, InterpretHonest, InterpretSound, EndApi
<1>3. CASE Timeout(c)
  <2>1. PICK r \in waiting : End(r, Raised(r, Foreign("Timeout")))
    BY <1>3 DEF Timeout
  <2>2. Raised(r, Foreign("Timeout")).req = r /\ Sound(Raised(r, Foreign("Timeout")))
    BY NothingSaid DEF Raised, Foreign, Sound
  <2>3. r \in Known
    BY DEF Known
  <2> QED
    BY <1>1, <2>1, <2>2, <2>3, EndApi
<1>4. CASE GatewayFails(c)
  <2>1. PICK r \in waiting : Deliver(r, 502, None, None)
    BY <1>4 DEF GatewayFails
  <2>2. UNCHANGED <<waiting, pending, ended, sent, done>>
    BY <1>4 DEF GatewayFails
  <2>3. \A a \in reply' : a \in reply \/ (a.to = r /\ a.code = None /\ a.body = None)
    BY <2>1 DEF Deliver
  <2>4. Known' \subseteq Known
    BY <2>2, <2>3 DEF Known
  <2>5. UNCHANGED <<vcs, revoked, changed, gone, taken>>
    BY <1>1 DEF Same, apiVars
  <2>6. Grows /\ DataInv'
    BY <2>2, <2>5, SameGrows DEF ApiInv, DataInv
  <2>7. \A q \in Known' : WellMade(q)' /\ (q.n \in done' => Effective(q)')
    BY <2>2, <2>4, <2>5, <2>6, WellMadeKept, EffectiveKept DEF ApiInv
  <2>8. \A a \in reply' : Plausible(a.to, a.code) /\ BodyTrue(a.to, a.body)'
    <3>1. BodyTrue(r, None)'
        BY DEF BodyTrue
    <3> QED
        BY <2>3, <2>6, <3>1, NothingSaid, BodyTrueKept DEF ApiInv
  <2>9. \A o \in ended' :
          IF o.ok THEN BodyTrue(o.req, o.body)' ELSE Plausible(o.req, o.error.code)
    BY <2>2, <2>6, BodyTrueKept DEF ApiInv
  <2> QED
    BY <1>1, <2>6, <2>7, <2>8, <2>9 DEF ApiInv
<1> QED
    BY <1>2, <1>3, <1>4 DEF Network

LEMMA NextApi == ApiInv /\ [Next]_vars => ApiInv'
<1> SUFFICES ASSUME ApiInv, [Next]_vars PROVE ApiInv'
    OBVIOUS
<1>1. ASSUME NEW c \in Callers, AnyMethod(c), Same PROVE ApiInv'
    BY <1>1, MethodCalls, CallApi
<1>2. ASSUME NEW c \in Callers, Network(c) PROVE ApiInv'
    BY <1>2, NetworkApi
<1>3. ASSUME NEW r \in pending, Serve(r) PROVE ApiInv'
    BY <1>3, ServeApi
<1>4. CASE UNCHANGED vars
  <2>1. UNCHANGED <<waiting, pending, reply, ended, sent, done, vcs, revoked, changed, gone, taken>>
    BY <1>4 DEF vars, httpVars, apiVars
  <2>2. HonestInv'
    BY <1>4, NextHonest DEF ApiInv
  <2>3. Grows /\ DataInv' /\ Known' = Known
    BY <2>1, SameGrows DEF ApiInv, DataInv, Known
  <2>4. \A q \in Known' : WellMade(q)' /\ (q.n \in done' => Effective(q)')
    BY <2>1, <2>3, WellMadeKept, EffectiveKept DEF ApiInv
  <2>5. \A a \in reply' : Plausible(a.to, a.code) /\ BodyTrue(a.to, a.body)'
    BY <2>1, <2>3, BodyTrueKept DEF ApiInv
  <2>6. \A o \in ended' :
          IF o.ok THEN BodyTrue(o.req, o.body)' ELSE Plausible(o.req, o.error.code)
    BY <2>1, <2>3, BodyTrueKept DEF ApiInv
  <2> QED
    BY <2>2, <2>3, <2>4, <2>5, <2>6 DEF ApiInv
<1> QED
    BY <1>1, <1>2, <1>3, <1>4 DEF Next

LEMMA AlwaysApi == Spec => []ApiInv
<1>1. Init => ApiInv
    BY InitApi
<1> QED
    BY <1>1, NextApi, PTL DEF Spec

-----------------------------------------------------------------------------
(* The theorems. *)

\* A client with a credential is never refused for want of it: _request sends
\* the one it has on every route (http_adapter.py:57-65).
THEOREM ClientNeverUnauthorised == Spec => []NeverUnauthorised
<1>1. ASSUME ApiInv, NEW o \in ended, ~o.ok, o.error.code = "ADMIN_AUTH_REQUIRED"
      PROVE  ~ClientOf[o.req.by].api /\ ~ClientOf[o.req.by].admin
  <2>1. ~Admitted(o.req)
    BY <1>1 DEF ApiInv, Plausible
  <2>2. o.req \in Known
    BY DEF Known
  <2>3. /\ o.req.cred = Credential(o.req.by, o.req.op)
        /\ o.req.custodial = ClientOf[o.req.by].api
    BY <1>1, <2>2 DEF ApiInv, WellMade, Custodial
  <2> QED
    BY <2>1, <2>3 DEF Admitted, Credential
<1>2. ApiInv => NeverUnauthorised
    BY <1>1 DEF NeverUnauthorised
<1> QED
    BY <1>2, AlwaysApi, PTL

\* create_did can be called again after any failure: the API never finds its
\* key taken (client.py:85-91, errors.py:119).
THEOREM ClientFreshKeyNeverTaken == Spec => []FreshKeyNeverTaken
<1>1. ApiInv => FreshKeyNeverTaken
    BY DEF ApiInv, Plausible, FreshKeyNeverTaken
<1> QED
    BY <1>1, AlwaysApi, PTL

\* Once a caller has been told of a revocation or a deactivation, no live check
\* that it makes finds the opposite: verify.py:24-30 and client.py:101-107 ask
\* the API each time.
THEOREM ClientRevocationSeen == Spec => []RevocationSeen
<1>1. ASSUME ApiInv, NEW o \in ended, o.ok
      PROVE  /\ o.req.op = "verify_vp" =>
                  \A i \in o.req.arg : {<<"revoke_vc", i>>, <<"revoke_vc", vcs[i].parent>>}
                                         \cap o.req.history = {}
             /\ o.req.op = "check_vc_status" /\ o.body = "active" =>
                  <<"revoke_vc", o.req.arg>> \notin o.req.history
             /\ o.req.op = "resolve_did" /\ o.body # None =>
                  (o.req.arg.asked /\ ~o.body.deactivated =>
                     <<"deactivate_did", o.req.arg.did>> \notin o.req.history)
  <2>1. BodyTrue(o.req, o.body) /\ o.req \in Known
    BY <1>1 DEF ApiInv, Known
  <2>2. o.req.op = "verify_vp" => Effective(o.req)
    BY <1>1, <2>1 DEF ApiInv, HonestInv, OutcomeHonest
  <2> QED
    BY <2>1, <2>2, NoneIsNoCode DEF BodyTrue, Effective
<1>2. ApiInv => RevocationSeen
    BY <1>1 DEF RevocationSeen
<1> QED
    BY <1>2, AlwaysApi, PTL

\* When the call of a delegation or grant that was to replace the others has
\* returned, every active credential between the two has the scopes asked for
\* (client.py:225-226, 375-376: the flag is in the body).
THEOREM ClientRevokeExistingExact == Spec => []RevokeExistingExact
<1>1. ASSUME ApiInv, NEW o \in ended, o.ok, o.req.op \in {"delegate", "issue_grant"},
             o.req.n = changed, o.req.arg.asked
      PROVE  \A i \in Given(o.req) : vcs[i].scopes = o.req.arg.scopes
  <2>1. o.req \in Known /\ o.req.n \in done
    BY <1>1 DEF ApiInv, HonestInv, OutcomeHonest, Known
  <2> QED
    BY <1>1, <2>1 DEF ApiInv, Effective
<1>2. ApiInv => RevokeExistingExact
    BY <1>1 DEF RevokeExistingExact
<1> QED
    BY <1>2, AlwaysApi, PTL

-----------------------------------------------------------------------------
(* Who waits for what. *)

WaitInv ==
    /\ sent <= MaxCalls
    /\ \A r, q \in waiting : r.by = q.by => r = q
    /\ \A a \in reply : a.to \in waiting
    /\ \A o \in ended : o.req \notin waiting

LEMMA CallWait == ASSUME ApiInv, WaitInv, NEW c, AnyCall(c) PROVE WaitInv'
<1>1. PICK op, arg, history : Call(c, op, arg, history)
    BY DEF AnyCall
<1> DEFINE r == [n |-> sent + 1, by |-> c, op |-> op, arg |-> arg,
                 cred |-> Credential(c, op), custodial |-> Custodial(c),
                 history |-> history]
<1>2. sent \in Nat /\ \A q \in Known : q.n \in 1..sent
    BY DEF ApiInv, HonestInv, NumbersInv
<1>3. r.n = sent + 1 /\ r.by = c /\ r \notin Known
    BY <1>2
<1>4. sent' <= MaxCalls /\ reply' = reply
    BY <1>1, <1>2, MaxCallsAssumption DEF Call
<1>5. CASE SdkOnly(c)
  <2>1. waiting' = waiting /\ ended' = ended \cup {Raised(r, Raise("SDK_ONLY_MODE_NO_API"))}
    BY <1>1, <1>5 DEF Call
  <2>2. Raised(r, Raise("SDK_ONLY_MODE_NO_API")).req = r
    BY DEF Raised
  <2> HIDE DEF r
  <2> QED
    BY <1>3, <1>4, <2>1, <2>2 DEF WaitInv, Known
<1>6. CASE ~SdkOnly(c)
  <2>1. waiting' = waiting \cup {r} /\ ended' = ended /\ ~Busy(c)
    BY <1>1, <1>6 DEF Call
  <2> HIDE DEF r
  <2>2. \A q \in waiting : q.by # c
    BY <2>1 DEF Busy
  <2>3. \A o \in ended : o.req # r
    BY <1>3 DEF Known
  <2> QED
    BY <1>3, <1>4, <2>1, <2>2, <2>3 DEF WaitInv
<1> QED
    BY <1>5, <1>6

\* An answer goes to who waits for it.
LEMMA DeliverWait ==
    ASSUME WaitInv, NEW r \in waiting, NEW status, NEW code, NEW body,
           Deliver(r, status, code, body), UNCHANGED <<waiting, ended, sent>>
    PROVE  WaitInv'
    BY DeliverTo DEF WaitInv

LEMMA ServeWait == ASSUME WaitInv, NEW r, Serve(r) PROVE WaitInv'
<1>1. PICK status, code, body : Answer(r, status, code, body)
    BY ServeEnds DEF Done, Refused
<1>2. UNCHANGED <<waiting, ended, sent>>
    BY <1>1 DEF Answer
<1>3. CASE r \in waiting
    BY <1>1, <1>2, <1>3, DeliverWait DEF Answer
<1>4. CASE r \notin waiting
    BY <1>1, <1>2, <1>4 DEF Answer, WaitInv
<1> QED
    BY <1>3, <1>4

LEMMA EndWait == ASSUME WaitInv, NEW o, End(o.req, o) PROVE WaitInv'
<1>1. /\ waiting' = waiting \ {o.req} /\ reply' = {a \in reply : a.to # o.req}
      /\ ended' = ended \cup {Surface(o)} /\ sent' = sent
    BY DEF End
<1>2. Surface(o).req = o.req
    BY DEF Surface, Returned
<1> QED
    BY <1>1, <1>2 DEF WaitInv

LEMMA NetworkWait == ASSUME ApiInv, WaitInv, NEW c, Network(c) PROVE WaitInv'
<1>1. CASE Receive(c, Subscripts)
  <2>1. PICK a \in reply : End(a.to, Interpret(a.to, a, Subscripts))
    BY <1>1 DEF Receive
  <2>2. Interpret(a.to, a, Subscripts).req = a.to
    BY InterpretHonest DEF ApiInv, HonestInv
  <2> QED
    BY <2>1, <2>2, EndWait
<1>2. CASE Timeout(c)
  <2>1. PICK r \in waiting : End(r, Raised(r, Foreign("Timeout")))
    BY <1>2 DEF Timeout
  <2>2. Raised(r, Foreign("Timeout")).req = r
    BY DEF Raised
  <2> QED
    BY <2>1, <2>2, EndWait
<1>3. CASE GatewayFails(c)
    BY <1>3, DeliverWait DEF GatewayFails
<1> QED
    BY <1>1, <1>2, <1>3 DEF Network

\* Requests, answers and outcomes belong to the callers and calls they name,
\* and what is revoked is a credential (client.py:54-78, http_adapter.py:34-81).
THEOREM ClientTypeOK == Spec => []TypeOK
<1>1. Init => WaitInv
    BY MaxCallsAssumption DEF Init, HttpInit, WaitInv
<1>2. ApiInv /\ WaitInv /\ [Next]_vars => WaitInv'
  <2> SUFFICES ASSUME ApiInv, WaitInv, [Next]_vars PROVE WaitInv'
    OBVIOUS
  <2>1. ASSUME NEW c \in Callers, AnyMethod(c) PROVE WaitInv'
    BY <2>1, MethodCalls, CallWait
  <2>2. ASSUME NEW c \in Callers, Network(c) PROVE WaitInv'
    BY <2>2, NetworkWait
  <2>3. ASSUME NEW r \in pending, Serve(r) PROVE WaitInv'
    BY <2>3, ServeWait
  <2>4. CASE UNCHANGED vars
    BY <2>4 DEF vars, httpVars, WaitInv
  <2> QED
    BY <2>1, <2>2, <2>3, <2>4 DEF Next
<1>3. ApiInv /\ WaitInv => TypeOK
  <2> SUFFICES ASSUME ApiInv, WaitInv PROVE TypeOK
    OBVIOUS
  <2>1. sent \in 0..MaxCalls /\ done \subseteq 1..sent
    BY MaxCallsAssumption DEF ApiInv, HonestInv, NumbersInv, WaitInv
  <2>2. \A r \in pending : r.n \in (1..sent) \ done
    BY DEF ApiInv, HonestInv, NumbersInv, Known
  <2> QED
    BY <2>1, <2>2 DEF TypeOK, ApiInv, DataInv, WaitInv
<1> QED
    BY <1>1, <1>2, <1>3, AlwaysApi, PTL DEF Spec
=============================================================================
