--------------------------- MODULE PresentationProofs ---------------------------
(* Theorems about Presentation. *)
EXTENDS Presentation, TLAPS

\* Where the middleware looks is where AccessControl says the VP is.
LEMMA FoundIsPresented ==
    ASSUME NEW m \in Slot, NEW h \in Slot
    PROVE  /\ Found(m, h) \notin {None, Empty} =>
                Found(m, h) = Presented(m, h) /\ Found(m, h) \in Vp
           /\ Found(m, h) \in {None, Empty} => Presented(m, h) = None
    BY SlotAssumption DEF Slot, Found, Decoded, Presented

LEMMA PresentedType ==
    ASSUME NEW m, NEW h
    PROVE  Presented(m, h) \in Vp \cup {None}
    BY DEF Presented

LEMMA ScopesType ==
    ASSUME NEW p \in Vp
    PROVE  EffectiveScopes(p) \in SUBSET Scopes
<1>1. p.consent \subseteq Scopes
    BY PresentationAssumption DEF Vp
<1> QED
    BY <1>1 DEF EffectiveScopes

LEMMA VpFields ==
    ASSUME NEW p \in Vp
    PROVE  p.creds \in SUBSET Vcs /\ p.target \in Services
    BY DEF Vp

LEMMA CallType == ASSUME TypeOK, NEW c \in Calls, call[c] # None PROVE call[c] \in Call
    BY DEF TypeOK

\* A step that gives one call a new record, and changes nothing else.
LEMMA BecomesType ==
    ASSUME TypeOK, NEW c \in Calls, NEW r \in Call, Becomes(c, r)
    PROVE  TypeOK'
    BY DEF TypeOK, Becomes

LEMMA RaisesType ==
    ASSUME TypeOK, NEW c \in Calls, call[c] # None, Raises(c, "API")
              \/ Raises(c, "VP_MISSING") \/ Raises(c, "VP_INVALID_STRUCTURE")
              \/ Raises(c, "VP_VERIFICATION_FAILED") \/ Raises(c, "INSUFFICIENT_SCOPE")
    PROVE  TypeOK'
<1>1. call[c] \in Call
    BY CallType
<1>2. PICK code \in {"VP_MISSING", "VP_INVALID_STRUCTURE", "API",
                     "VP_VERIFICATION_FAILED", "INSUFFICIENT_SCOPE"} :
        Becomes(c, [call[c] EXCEPT !.stage = "raised", !.code = code])
    BY DEF Raises
<1>3. [call[c] EXCEPT !.stage = "raised", !.code = code] \in Call
    BY <1>1 DEF Call
<1> QED
    BY <1>2, <1>3, BecomesType

-----------------------------------------------------------------------------
(* The invariant: what is verified is what the call presents, and what the API  *)
(* accepted had no credential that was revoked when the call arrived.          *)
CallInv(r, gone) ==
    /\ r.before \subseteq gone
    /\ r.stage \in {"verifying", "judged", "ran"} =>
         r.vp \in Vp /\ r.vp = Presented(r.meta, r.header)
    /\ r.stage \in {"arrived", "verifying"} => r.valid = FALSE
    /\ r.stage = "ran" \/ (r.stage = "judged" /\ r.valid = TRUE) =>
         r.vp.creds \cap r.before = {}

Inv == /\ TypeOK
       /\ active \cap revoked = {}
       /\ \A c \in Calls : call[c] # None => CallInv(call[c], revoked)

LEMMA InitTypeOK == Init => TypeOK
    BY DEF Init, TypeOK

LEMMA NextTypeOK == Inv /\ [Next]_vars => TypeOK'
<1> SUFFICES ASSUME Inv, [Next]_vars PROVE TypeOK'
    OBVIOUS
<1>0. TypeOK
    BY DEF Inv
<1>1. ASSUME NEW v \in Vcs, Issue(v) PROVE TypeOK'
    BY <1>0, <1>1 DEF Issue, TypeOK
<1>2. ASSUME NEW v \in Vcs, Revoke(v) PROVE TypeOK'
    BY <1>0, <1>2 DEF Revoke, TypeOK
<1>3. CASE Filter
    BY <1>0, <1>3 DEF Filter, TypeOK
<1>4. CASE SignVp
    <2>1. PICK s \in Services, consent \in Consents :
            LET p == [creds |-> active \ SelfSigned, target |-> s, consent |-> consent]
            IN /\ vps' = vps \cup {p}
               /\ fresh' = IF stale \/ consent # Scopes THEN fresh ELSE fresh \cup {p}
        BY <1>4 DEF SignVp
    <2>2. [creds |-> active \ SelfSigned, target |-> s, consent |-> consent] \in Vp
        BY <1>0 DEF TypeOK, Vp
    <2> QED
        BY <1>4, <2>1, <2>2, <1>0 DEF SignVp, TypeOK
<1>5. CASE BuildVp
    <2>1. PICK s \in Services, creds \in Built :
            vps' = vps \cup {[creds |-> creds, target |-> s, consent |-> Scopes]}
        BY <1>5 DEF BuildVp
    <2>2. [creds |-> creds, target |-> s, consent |-> Scopes] \in Vp
        BY PresentationAssumption DEF Vp
    <2> QED
        BY <1>5, <2>1, <2>2, <1>0 DEF BuildVp, TypeOK
<1>6. ASSUME NEW c \in Calls, CallTool(c) PROVE TypeOK'
    <2>1. PICK t \in Tools, meta \in vps \cup {None, Junk, Empty},
                header \in vps \cup {None, Junk, Empty} :
            call' = [call EXCEPT ![c] =
                    [tool |-> t, meta |-> meta, header |-> header, stage |-> "arrived",
                     vp |-> None, valid |-> FALSE, scopes |-> {}, code |-> None,
                     before |-> revoked,
                     trusted |-> t \in offered /\ Presented(meta, header) \in fresh]]
        BY <1>6 DEF CallTool
    <2>2. meta \in Slot /\ header \in Slot /\ revoked \in SUBSET Vcs
        BY <1>0 DEF TypeOK, Slot
    <2>3. [tool |-> t, meta |-> meta, header |-> header, stage |-> "arrived",
           vp |-> None, valid |-> FALSE, scopes |-> {}, code |-> None,
           before |-> revoked,
           trusted |-> t \in offered /\ Presented(meta, header) \in fresh] \in Call
        BY <2>2 DEF Call
    <2> QED
        BY <1>6, <2>1, <2>3, <1>0 DEF CallTool, TypeOK
<1>7. ASSUME NEW c \in Calls, ReadVp(c) PROVE TypeOK'
    <2>1. call[c] \in Call /\ call[c] # None
        BY <1>7, <1>0, CallType DEF ReadVp, At
    <2>2. CASE Found(call[c].meta, call[c].header) \notin {None, Empty}
        <3> DEFINE r == [call[c] EXCEPT !.stage = "verifying",
                                        !.vp = Found(call[c].meta, call[c].header)]
        <3>1. call[c].meta \in Slot /\ call[c].header \in Slot
            BY <2>1 DEF Call
        <3>2. Found(call[c].meta, call[c].header) \in Vp
            BY <3>1, <2>2, FoundIsPresented
        <3>3. r \in Call
            BY <2>1, <3>2 DEF Call
        <3>4. Becomes(c, r)
            BY <1>7, <2>2 DEF ReadVp
        <3> QED
            BY <3>3, <3>4, <1>0, BecomesType
    <2>3. CASE Found(call[c].meta, call[c].header) \in {None, Empty}
        BY <1>7, <2>1, <2>3, <1>0, RaisesType DEF ReadVp
    <2> QED
        BY <2>2, <2>3
<1>8. ASSUME NEW c \in Calls, VerifyVp(c) PROVE TypeOK'
    <2> DEFINE p == call[c].vp
               r == [call[c] EXCEPT !.stage = "judged",
                        !.valid = p.creds \subseteq active /\ Asked(call[c].tool, p),
                        !.scopes = EffectiveScopes(p)]
    <2>1. call[c] \in Call
        BY <1>8, <1>0, CallType DEF VerifyVp, At
    <2>5. p \in Vp
        BY <1>8 DEF Inv, CallInv, VerifyVp, At
    <2>2. (p.creds \subseteq active /\ Asked(call[c].tool, p)) \in BOOLEAN
        BY DEF Asked
    <2>3. r \in Call
        BY <2>1, <2>2, <2>5, ScopesType DEF Call
    <2>4. Becomes(c, r)
        BY <1>8 DEF VerifyVp
    <2> QED
        BY <2>3, <2>4, <1>0, BecomesType
<1>12. ASSUME NEW c \in Calls, VerifyBlank(c) PROVE TypeOK'
    <2>1. call[c] \in Call
        BY <1>12, <1>0, CallType DEF VerifyBlank, At
    <2>2. [call[c] EXCEPT !.stage = "judged", !.valid = None] \in Call
        BY <2>1 DEF Call
    <2> QED
        BY <1>12, <2>2, <1>0, BecomesType DEF VerifyBlank
<1>9. ASSUME NEW c \in Calls, VerifyFails(c) PROVE TypeOK'
    BY <1>9, <1>0, RaisesType DEF VerifyFails, At
<1>10. ASSUME NEW c \in Calls, Conclude(c) PROVE TypeOK'
    <2>1. CASE Becomes(c, [call[c] EXCEPT !.stage = "ran"])
        <3>1. call[c] \in Call
            BY <1>10, <1>0, CallType DEF Conclude, At
        <3>2. [call[c] EXCEPT !.stage = "ran"] \in Call
            BY <3>1 DEF Call
        <3> QED
            BY <2>1, <3>2, <1>0, BecomesType
    <2> QED
        BY <1>10, <2>1, <1>0, RaisesType DEF Conclude, At
<1>11. CASE UNCHANGED vars
    BY <1>0, <1>11 DEF vars, TypeOK
<1> QED
    BY <1>1, <1>2, <1>3, <1>4, <1>5, <1>6, <1>7, <1>8, <1>9, <1>10, <1>11, <1>12 DEF Next

-----------------------------------------------------------------------------
\* A step that gives one call a record for which the invariant holds.
LEMMA BecomesInv ==
    ASSUME Inv, NEW c \in Calls, NEW r, CallInv(r, revoked), Becomes(c, r), TypeOK'
    PROVE  Inv'
<1>1. ASSUME NEW d \in Calls, call'[d] # None PROVE CallInv(call'[d], revoked)
    BY <1>1 DEF Inv, TypeOK, Becomes
<1> QED
    BY <1>1 DEF Inv, Becomes

\* Revocations are never undone.
LEMMA MoreRevoked ==
    ASSUME NEW r, NEW gone, NEW later, gone \subseteq later, CallInv(r, gone)
    PROVE  CallInv(r, later)
    BY DEF CallInv

LEMMA RaisesInv ==
    ASSUME Inv, NEW c \in Calls, call[c] # None, NEW code, Raises(c, code), TypeOK'
    PROVE  Inv'
<1> DEFINE r == [call[c] EXCEPT !.stage = "raised", !.code = code]
<1>1. call[c] \in Call /\ CallInv(call[c], revoked)
    BY CallType DEF Inv
<1>2. r.stage = "raised" /\ r.before = call[c].before
    BY <1>1 DEF Call
<1>3. CallInv(r, revoked)
    BY <1>1, <1>2 DEF CallInv
<1> QED
    BY <1>3, BecomesInv DEF Raises

LEMMA NextInv == Inv /\ [Next]_vars => Inv'
<1> SUFFICES ASSUME Inv, [Next]_vars PROVE Inv'
    OBVIOUS
<1>0. TypeOK /\ TypeOK'
    BY NextTypeOK DEF Inv
<1>1. ASSUME NEW v \in Vcs, Issue(v) PROVE Inv'
    BY <1>0, <1>1 DEF Issue, Inv
<1>2. ASSUME NEW v \in Vcs, Revoke(v) PROVE Inv'
    <2>1. revoked \subseteq revoked' /\ call' = call
        BY <1>2 DEF Revoke
    <2>2. \A c \in Calls : call[c] # None => CallInv(call[c], revoked')
        BY <2>1, MoreRevoked DEF Inv
    <2>3. active' \cap revoked' = {}
        BY <1>2 DEF Revoke, Inv
    <2> QED
        BY <1>0, <2>1, <2>2, <2>3 DEF Inv
<1>3. CASE Filter
    BY <1>0, <1>3 DEF Filter, Inv
<1>4. CASE SignVp
    BY <1>0, <1>4 DEF SignVp, Inv
<1>5. CASE BuildVp
    BY <1>0, <1>5 DEF BuildVp, Inv
<1>6. ASSUME NEW c \in Calls, CallTool(c) PROVE Inv'
    <2>1. PICK t \in Tools, meta \in vps \cup {None, Junk, Empty},
                header \in vps \cup {None, Junk, Empty} :
            call' = [call EXCEPT ![c] =
                    [tool |-> t, meta |-> meta, header |-> header, stage |-> "arrived",
                     vp |-> None, valid |-> FALSE, scopes |-> {}, code |-> None,
                     before |-> revoked,
                     trusted |-> t \in offered /\ Presented(meta, header) \in fresh]]
        BY <1>6 DEF CallTool
    <2> DEFINE r == [tool |-> t, meta |-> meta, header |-> header, stage |-> "arrived",
                     vp |-> None, valid |-> FALSE, scopes |-> {}, code |-> None,
                     before |-> revoked,
                     trusted |-> t \in offered /\ Presented(meta, header) \in fresh]
    <2>2. CallInv(r, revoked)
        BY DEF CallInv
    <2>3. Becomes(c, r)
        BY <1>6, <2>1 DEF CallTool, Becomes
    <2> QED
        BY <1>0, <2>2, <2>3, BecomesInv
<1>7. ASSUME NEW c \in Calls, ReadVp(c) PROVE Inv'
    <2>1. call[c] \in Call /\ call[c] # None /\ CallInv(call[c], revoked)
          /\ call[c].stage = "arrived"
        BY <1>0, <1>7, CallType DEF ReadVp, At, Inv
    <2>2. CASE Found(call[c].meta, call[c].header) \notin {None, Empty}
        <3> DEFINE r == [call[c] EXCEPT !.stage = "verifying",
                                        !.vp = Found(call[c].meta, call[c].header)]
        <3>1. call[c].meta \in Slot /\ call[c].header \in Slot
            BY <2>1 DEF Call
        <3>2. /\ r.stage = "verifying" /\ r.before = call[c].before
              /\ r.meta = call[c].meta /\ r.header = call[c].header
              /\ r.vp = Found(call[c].meta, call[c].header)
              /\ r.valid = call[c].valid
            BY <2>1 DEF Call
        <3>3. CallInv(r, revoked)
            BY <2>1, <2>2, <3>1, <3>2, FoundIsPresented DEF CallInv
        <3>4. Becomes(c, r)
            BY <1>7, <2>2 DEF ReadVp
        <3> QED
            BY <1>0, <3>3, <3>4, BecomesInv
    <2>3. CASE Found(call[c].meta, call[c].header) \in {None, Empty}
        BY <1>0, <1>7, <2>1, <2>3, RaisesInv DEF ReadVp
    <2> QED
        BY <2>2, <2>3
<1>8. ASSUME NEW c \in Calls, VerifyVp(c) PROVE Inv'
    <2> DEFINE p == call[c].vp
               r == [call[c] EXCEPT !.stage = "judged",
                        !.valid = p.creds \subseteq active /\ Asked(call[c].tool, p),
                        !.scopes = EffectiveScopes(p)]
    <2>1. call[c] \in Call /\ CallInv(call[c], revoked) /\ call[c].stage = "verifying"
        BY <1>0, <1>8, CallType DEF VerifyVp, At, Inv
    <2>2. /\ r.stage = "judged" /\ r.before = call[c].before /\ r.vp = p
          /\ r.meta = call[c].meta /\ r.header = call[c].header
          /\ r.valid = TRUE => p.creds \subseteq active
        BY <2>1 DEF Call
    <2>3. r.valid = TRUE => r.vp.creds \cap r.before = {}
        BY <2>1, <2>2 DEF Inv, CallInv
    <2>4. CallInv(r, revoked)
        BY <2>1, <2>2, <2>3 DEF CallInv
    <2>5. Becomes(c, r)
        BY <1>8 DEF VerifyVp
    <2> QED
        BY <1>0, <2>4, <2>5, BecomesInv
<1>12. ASSUME NEW c \in Calls, VerifyBlank(c) PROVE Inv'
    <2> DEFINE r == [call[c] EXCEPT !.stage = "judged", !.valid = None]
    <2>1. call[c] \in Call /\ CallInv(call[c], revoked) /\ call[c].stage = "verifying"
        BY <1>0, <1>12, CallType DEF VerifyBlank, At, Inv
    <2>2. /\ r.stage = "judged" /\ r.before = call[c].before /\ r.vp = call[c].vp
          /\ r.meta = call[c].meta /\ r.header = call[c].header /\ r.valid # TRUE
        BY <2>1, NoneAssumption DEF Call
    <2>3. CallInv(r, revoked)
        BY <2>1, <2>2 DEF CallInv
    <2> QED
        BY <1>0, <1>12, <2>3, BecomesInv DEF VerifyBlank
<1>9. ASSUME NEW c \in Calls, VerifyFails(c) PROVE Inv'
    BY <1>0, <1>9, RaisesInv DEF VerifyFails, At
<1>10. ASSUME NEW c \in Calls, Conclude(c) PROVE Inv'
    <2> DEFINE r == [call[c] EXCEPT !.stage = "ran"]
    <2>1. call[c] \in Call /\ CallInv(call[c], revoked) /\ call[c] # None
          /\ call[c].stage = "judged"
        BY <1>0, <1>10, CallType DEF Conclude, At, Inv
    <2>2. CASE call[c].valid = TRUE /\ Becomes(c, r)
        <3>1. /\ r.stage = "ran" /\ r.before = call[c].before /\ r.vp = call[c].vp
              /\ r.meta = call[c].meta /\ r.header = call[c].header
            BY <2>1 DEF Call
        <3>2. CallInv(r, revoked)
            BY <2>1, <2>2, <3>1 DEF CallInv
        <3> QED
            BY <1>0, <2>2, <3>2, BecomesInv
    <2> QED
        BY <1>0, <1>10, <2>1, <2>2, RaisesInv DEF Conclude
<1>11. CASE UNCHANGED vars
    BY <1>0, <1>11 DEF vars, Inv
<1> QED
    BY <1>1, <1>2, <1>3, <1>4, <1>5, <1>6, <1>7, <1>8, <1>9, <1>10, <1>11, <1>12 DEF Next

LEMMA AlwaysInv == Spec => []Inv
<1>1. Init => Inv
    BY InitTypeOK DEF Init, Inv
<1> QED
    BY <1>1, NextInv, PTL DEF Spec

\* Every variable of the presentation model has its type, for any tools, services,
\* credentials, consents and number of calls.
THEOREM PresentationTypeOK == Spec => []TypeOK
<1>1. Inv => TypeOK
    BY DEF Inv
<1> QED
    BY <1>1, AlwaysInv, PTL

\* However the steps of many calls, revocations and signatures interleave, no
\* handler of the middleware runs for a VP with a credential that had been
\* revoked when its call arrived.
THEOREM PresentationRevokedNeverRuns == Spec => []RevokedNeverRuns
<1>1. Inv => RevokedNeverRuns
    BY DEF Inv, CallInv, RevokedNeverRuns, At
<1> QED
    BY <1>1, AlwaysInv, PTL

-----------------------------------------------------------------------------
(* The refinement: each step is one of AccessControl's, or none of them.       *)

LEMMA SeenType ==
    ASSUME NEW r \in Call
    PROVE  Abstract(r) \in SeenCall /\ Abstract(r) # None
<1>1. r # None
    BY NoneAssumption
<1>2. Verdict(r) \in {"open", "allowed", "denied", "failed", "ran"}
    BY DEF Verdict, Call
<1>3. Abstract(r) \in SeenCall
    BY <1>1, <1>2, PresentedType DEF Abstract, SeenCall, Call
<1> QED
    BY <1>3, NoneAssumption

\* The same call, seen before and after: only its verdict may differ.
LEMMA SeenBecomes ==
    ASSUME NEW r \in Call, NEW s \in Call, s.tool = r.tool, s.before = r.before,
           s.meta = r.meta, s.header = r.header
    PROVE  Abstract(s) = [Abstract(r) EXCEPT !.verdict = Verdict(s)]
    BY NoneAssumption DEF Abstract

\* How a step of one call changes what AccessControl sees.
LEMMA SeenStep ==
    ASSUME TypeOK, NEW c \in Calls, NEW r, Becomes(c, r)
    PROVE  /\ Seen' = [Seen EXCEPT ![c] = Abstract(r)]
           /\ Seen[c] = Abstract(call[c])
           /\ UNCHANGED <<active, revoked>>
    BY DEF TypeOK, Becomes, Seen

\* A step after which the verdict is the same is no step of AccessControl's.
LEMMA SeenStutter ==
    ASSUME TypeOK, NEW c \in Calls, NEW r, Becomes(c, r), Abstract(r) = Abstract(call[c])
    PROVE  UNCHANGED AC!vars
<1>1. Seen' = Seen
    BY SeenStep DEF Seen
<1> QED
    BY <1>1, SeenStep DEF AC!vars

\* A step from one verdict to another is a Turn.
LEMMA SeenTurn ==
    ASSUME TypeOK, NEW c \in Calls, call[c] \in Call, NEW s \in Call, Becomes(c, s),
           s.tool = call[c].tool, s.before = call[c].before,
           s.meta = call[c].meta, s.header = call[c].header
    PROVE  AC!Turn(c, Verdict(call[c]), Verdict(s))
<1>1. Abstract(s) = [Abstract(call[c]) EXCEPT !.verdict = Verdict(s)]
    BY SeenBecomes
<1>2. call[c] # None /\ Abstract(call[c]) # None
    BY NoneAssumption, SeenType
<1>3. Abstract(call[c]).verdict = Verdict(call[c])
    BY <1>2 DEF Abstract
<1> QED
    BY <1>1, <1>2, <1>3, SeenStep DEF AC!Turn

\* What the API accepts is what AccessControl accepts.
LEMMA SameJudgement ==
    ASSUME NEW r \in Call, NEW p \in Vp, p = Presented(r.meta, r.header)
    PROVE  /\ Abstract(r).vp = p /\ Abstract(r).tool = r.tool
           /\ CredsOf[p] = p.creds
           /\ (<<r.tool, p>> \in Fits) <=>
                 (Asked(r.tool, p) /\ RequiredOf[r.tool] \subseteq EffectiveScopes(p))
<1>1. Abstract(r).vp = p /\ Abstract(r).tool = r.tool
    BY NoneAssumption DEF Abstract
<1>2. r.tool \in Tools
    BY DEF Call
<1>3. <<r.tool, p>> \in Fits <=> InOrder(r.tool, p)
    BY <1>2 DEF Fits
<1>4. InOrder(r.tool, p) <=>
        (Asked(r.tool, p) /\ RequiredOf[r.tool] \subseteq EffectiveScopes(p))
    BY DEF InOrder, Asked
<1> QED
    BY <1>1, <1>3, <1>4 DEF CredsOf

LEMMA StepImplements == Inv /\ [Next]_vars => [AC!Next]_AC!vars
<1> SUFFICES ASSUME Inv, [Next]_vars PROVE [AC!Next]_AC!vars
    OBVIOUS
<1>0. TypeOK
    BY DEF Inv
<1>1. ASSUME NEW v \in Vcs, Issue(v) PROVE AC!Next
    <2>1. Seen' = Seen
        BY <1>1 DEF Issue, Seen
    <2>2. AC!Issue(v)
        BY <1>1, <2>1 DEF Issue, AC!Issue
    <2> QED
        BY <2>2 DEF AC!Next
<1>2. ASSUME NEW v \in Vcs, Revoke(v) PROVE AC!Next
    <2>1. Seen' = Seen
        BY <1>2 DEF Revoke, Seen
    <2>2. AC!Revoke(v)
        BY <1>2, <2>1 DEF Revoke, AC!Revoke
    <2> QED
        BY <2>2 DEF AC!Next
<1>3. CASE Filter \/ SignVp \/ BuildVp \/ UNCHANGED vars
    <2>1. UNCHANGED <<active, revoked, call>>
        BY <1>3 DEF Filter, SignVp, BuildVp, vars
    <2> QED
        BY <2>1 DEF Seen, AC!vars
<1>4. ASSUME NEW c \in Calls, CallTool(c) PROVE AC!Next
    <2>1. PICK t \in Tools, meta \in vps \cup {None, Junk, Empty},
                header \in vps \cup {None, Junk, Empty} :
            call' = [call EXCEPT ![c] =
                    [tool |-> t, meta |-> meta, header |-> header, stage |-> "arrived",
                     vp |-> None, valid |-> FALSE, scopes |-> {}, code |-> None,
                     before |-> revoked,
                     trusted |-> t \in offered /\ Presented(meta, header) \in fresh]]
        BY <1>4 DEF CallTool
    <2> DEFINE r == [tool |-> t, meta |-> meta, header |-> header, stage |-> "arrived",
                     vp |-> None, valid |-> FALSE, scopes |-> {}, code |-> None,
                     before |-> revoked,
                     trusted |-> t \in offered /\ Presented(meta, header) \in fresh]
               p == Presented(meta, header)
    <2>2. meta \in Slot /\ header \in Slot /\ revoked \in SUBSET Vcs
        BY <1>0 DEF TypeOK, Slot
    <2>3. r \in Call
        BY <2>2 DEF Call
    <2>4. Becomes(c, r)
        BY <1>4, <2>1 DEF CallTool, Becomes
    <2>5. Abstract(r) = [tool |-> t, vp |-> p, verdict |-> "open", before |-> revoked]
        BY <2>3, NoneAssumption DEF Abstract, Verdict
    <2>6. Seen[c] = None
        BY <1>4 DEF CallTool, Seen, Abstract
    <2>7. Seen' = [Seen EXCEPT ![c] = Abstract(r)] /\ UNCHANGED <<active, revoked>>
        BY <1>0, <2>4, SeenStep
    <2>8. p \in Vp \cup {None}
        BY PresentedType
    <2>9. AC!Arrive(c)
        BY <2>5, <2>6, <2>7, <2>8 DEF AC!Arrive
    <2> QED
        BY <2>9 DEF AC!Next
<1>5. ASSUME NEW c \in Calls, ReadVp(c) PROVE [AC!Next]_AC!vars
    <2>1. call[c] \in Call /\ call[c] # None /\ call[c].stage = "arrived"
          /\ call[c].valid = FALSE
        BY <1>0, <1>5, CallType DEF ReadVp, At, Inv, CallInv
    <2> DEFINE m == call[c].meta
               h == call[c].header
    <2>2. m \in Slot /\ h \in Slot
        BY <2>1 DEF Call
    <2>3. CASE Found(m, h) \notin {None, Empty}
        <3> DEFINE s == [call[c] EXCEPT !.stage = "verifying", !.vp = Found(m, h)]
        <3>1. Found(m, h) \in Vp
            BY <2>2, <2>3, FoundIsPresented
        <3>2. s \in Call /\ s.stage = "verifying" /\ s.tool = call[c].tool
              /\ s.before = call[c].before /\ s.meta = m /\ s.header = h
            BY <2>1, <3>1 DEF Call
        <3>3. Verdict(s) = "open" /\ Verdict(call[c]) = "open"
            BY <2>1, <3>2 DEF Verdict
        <3>4. Abstract(s) = Abstract(call[c])
            BY <2>1, <3>2, <3>3, NoneAssumption DEF Abstract
        <3>5. Becomes(c, s)
            BY <1>5, <2>3 DEF ReadVp
        <3> QED
            BY <1>0, <3>4, <3>5, SeenStutter
    <2>4. CASE Found(m, h) \in {None, Empty}
        <3>1. PICK code \in {"VP_MISSING", "VP_INVALID_STRUCTURE"} : Raises(c, code)
            BY <1>5, <2>4 DEF ReadVp
        <3> DEFINE s == [call[c] EXCEPT !.stage = "raised", !.code = code]
        <3>2. s \in Call /\ s.stage = "raised" /\ s.code = code /\ s.tool = call[c].tool
              /\ s.before = call[c].before /\ s.meta = m /\ s.header = h
              /\ s.valid = FALSE
            BY <2>1 DEF Call
        <3>3. Verdict(s) = "denied" /\ Verdict(call[c]) = "open"
            BY <2>1, <3>2, NoneAssumption DEF Verdict
        <3>4. AC!Turn(c, "open", "denied")
            BY <1>0, <2>1, <3>1, <3>2, <3>3, SeenTurn DEF Raises
        <3>5. Abstract(call[c]).vp = None
            BY <2>1, <2>2, <2>4, FoundIsPresented DEF Abstract
        <3>6. ~AC!Acceptable(c)
            BY <3>5 DEF AC!Acceptable, Seen
        <3> QED
            BY <3>4, <3>6 DEF AC!Deny, AC!Next
    <2> QED
        BY <2>3, <2>4
<1>6. ASSUME NEW c \in Calls, VerifyVp(c) PROVE AC!Next
    <2> DEFINE p == call[c].vp
               s == [call[c] EXCEPT !.stage = "judged",
                        !.valid = p.creds \subseteq active /\ Asked(call[c].tool, p),
                        !.scopes = EffectiveScopes(p)]
               ok == /\ p.creds \subseteq active /\ Asked(call[c].tool, p)
                     /\ RequiredOf[call[c].tool] \subseteq EffectiveScopes(p)
    <2>1. call[c] \in Call /\ CallInv(call[c], revoked) /\ call[c].stage = "verifying"
        BY <1>0, <1>6, CallType DEF VerifyVp, At, Inv
    <2>2. p \in Vp /\ p = Presented(call[c].meta, call[c].header)
        BY <2>1 DEF CallInv
    <2>3. s \in Call /\ s.stage = "judged" /\ s.tool = call[c].tool
          /\ s.before = call[c].before /\ s.meta = call[c].meta
          /\ s.header = call[c].header /\ s.scopes = EffectiveScopes(p)
          /\ s.valid = (p.creds \subseteq active /\ Asked(call[c].tool, p))
        <3>1. (p.creds \subseteq active /\ Asked(call[c].tool, p)) \in BOOLEAN
            BY DEF Asked
        <3>2. EffectiveScopes(p) \in SUBSET Scopes
            BY <2>2, ScopesType
        <3> QED
            BY <2>1, <3>1, <3>2 DEF Call
    <2>4. Becomes(c, s)
        BY <1>6 DEF VerifyVp
    <2>5. Verdict(call[c]) = "open" /\ Verdict(s) = IF ok THEN "allowed" ELSE "denied"
        <3>1. s.valid # None
            BY <2>3, NoneAssumption DEF Asked
        <3> QED
            BY <2>1, <2>3, <3>1 DEF Verdict, Enough
    <2>6. AC!Turn(c, "open", Verdict(s))
        BY <1>0, <2>1, <2>3, <2>4, <2>5, SeenTurn
    <2>7. AC!Acceptable(c) <=> ok
        <3>1. /\ Seen[c].vp = p /\ Seen[c].tool = call[c].tool
              /\ CredsOf[p] = p.creds
              /\ (<<call[c].tool, p>> \in Fits) <=>
                   (Asked(call[c].tool, p) /\ RequiredOf[call[c].tool] \subseteq EffectiveScopes(p))
            BY <2>1, <2>2, SameJudgement DEF Seen
        <3>2. p # None
            BY <2>2, SlotAssumption
        <3> QED
            BY <3>1, <3>2 DEF AC!Acceptable
    <2>8. AC!Allow(c) \/ AC!Deny(c)
        BY <2>5, <2>6, <2>7 DEF AC!Allow, AC!Deny
    <2> QED
        BY <2>8 DEF AC!Next
<1>9. ASSUME NEW c \in Calls, VerifyBlank(c) PROVE AC!Next
    <2> DEFINE s == [call[c] EXCEPT !.stage = "judged", !.valid = None]
    <2>1. call[c] \in Call /\ call[c].stage = "verifying"
        BY <1>0, <1>9, CallType DEF VerifyBlank, At
    <2>2. s \in Call /\ s.stage = "judged" /\ s.valid = None /\ s.tool = call[c].tool
          /\ s.before = call[c].before /\ s.meta = call[c].meta
          /\ s.header = call[c].header
        BY <2>1 DEF Call
    <2>3. Verdict(s) = "failed" /\ Verdict(call[c]) = "open"
        BY <2>1, <2>2 DEF Verdict
    <2>4. AC!Turn(c, "open", "failed")
        BY <1>0, <1>9, <2>1, <2>2, <2>3, SeenTurn DEF VerifyBlank
    <2> QED
        BY <2>4 DEF AC!Fail, AC!Next
<1>7. ASSUME NEW c \in Calls, VerifyFails(c) PROVE AC!Next
    <2> DEFINE s == [call[c] EXCEPT !.stage = "raised", !.code = "API"]
    <2>1. call[c] \in Call /\ call[c].stage = "verifying"
        BY <1>0, <1>7, CallType DEF VerifyFails, At
    <2>2. s \in Call /\ s.stage = "raised" /\ s.code = "API" /\ s.tool = call[c].tool
          /\ s.before = call[c].before /\ s.meta = call[c].meta
          /\ s.header = call[c].header
        BY <2>1 DEF Call
    <2>3. Verdict(s) = "failed" /\ Verdict(call[c]) = "open"
        BY <2>1, <2>2 DEF Verdict
    <2>4. AC!Turn(c, "open", "failed")
        BY <1>0, <1>7, <2>1, <2>2, <2>3, SeenTurn DEF VerifyFails, Raises
    <2> QED
        BY <2>4 DEF AC!Fail, AC!Next
<1>8. ASSUME NEW c \in Calls, Conclude(c) PROVE [AC!Next]_AC!vars
    <2>1. call[c] \in Call /\ call[c].stage = "judged"
        BY <1>0, <1>8, CallType DEF Conclude, At
    <2>2. CASE call[c].valid = TRUE /\ Enough(call[c])
        <3> DEFINE s == [call[c] EXCEPT !.stage = "ran"]
        <3>1. s \in Call /\ s.stage = "ran" /\ s.tool = call[c].tool
              /\ s.before = call[c].before /\ s.meta = call[c].meta
              /\ s.header = call[c].header
            BY <2>1 DEF Call
        <3>2. Verdict(s) = "ran" /\ Verdict(call[c]) = "allowed"
            BY <2>1, <2>2, <3>1, NoneAssumption DEF Verdict
        <3>3. AC!Turn(c, "allowed", "ran")
            BY <1>0, <1>8, <2>1, <2>2, <3>1, <3>2, SeenTurn DEF Conclude
        <3> QED
            BY <3>3 DEF AC!Run, AC!Next
    <2>3. CASE ~(call[c].valid = TRUE /\ Enough(call[c]))
        <3>1. PICK code \in {"VP_VERIFICATION_FAILED", "INSUFFICIENT_SCOPE"} : Raises(c, code)
            BY <1>8, <2>3 DEF Conclude
        <3> DEFINE s == [call[c] EXCEPT !.stage = "raised", !.code = code]
        <3>2. s \in Call /\ s.stage = "raised" /\ s.code = code /\ s.tool = call[c].tool
              /\ s.before = call[c].before /\ s.meta = call[c].meta
              /\ s.header = call[c].header /\ s.valid = call[c].valid
            BY <2>1 DEF Call
        <3>3. Verdict(s) = Verdict(call[c])
            <4>1. CASE call[c].valid = None
                BY <2>1, <3>2, <4>1 DEF Verdict
            <4>2. CASE call[c].valid # None
                <5>1. ~(call[c].valid /\ Enough(call[c]))
                    BY <2>1, <2>3, <4>2 DEF Call
                <5> QED
                    BY <2>1, <3>2, <4>2, <5>1 DEF Verdict
            <4> QED
                BY <4>1, <4>2
        <3>4. Abstract(s) = Abstract(call[c])
            BY <2>1, <3>2, <3>3, NoneAssumption DEF Abstract
        <3> QED
            BY <1>0, <3>1, <3>4, SeenStutter DEF Raises
    <2> QED
        BY <2>2, <2>3
<1> QED
    BY <1>1, <1>2, <1>3, <1>4, <1>5, <1>6, <1>7, <1>8, <1>9 DEF Next

\* The middleware implements AccessControl: each call is decided at most once,
\* when the API answers, by the credentials as they are then and by the VP that
\* _meta, or else the header, presents; an answer that decides nothing fails the
\* call and never runs the tool; every other step is invisible.
THEOREM PresentationImplementsAccessControl == Spec => ImplementsAccessControl
<1>1. Init => AC!Init
    BY DEF Init, AC!Init, Seen, Abstract
<1> QED
    BY <1>1, StepImplements, AlwaysInv, PTL DEF Spec, AC!Spec, ImplementsAccessControl

-----------------------------------------------------------------------------
(* What the filter offers. *)

\* A VP that is enough for a tool.
Good(t, p) == Consistent(t) => RequiredOf[t] \subseteq EffectiveScopes(p)

TrustInv(r) ==
    /\ r.trusted => Good(r.tool, Presented(r.meta, r.header))
    /\ r.stage = "judged" /\ r.valid = TRUE => r.scopes = EffectiveScopes(r.vp)
    /\ r.stage = "raised" /\ r.code = "INSUFFICIENT_SCOPE" =>
         ~(r.trusted /\ Consistent(r.tool))

\* Until a credential changes, what is offered is what one of the active ones
\* allows, and all of these are in the VPs that the API signs.
OfferInv ==
    /\ ~stale => \E v \in active \ SelfSigned : \A t \in offered : Allowed(t, ScopesOf[v])
    /\ \A t \in offered, p \in fresh : Good(t, p)
    /\ \A c \in Calls : call[c] # None => TrustInv(call[c])

LEMMA AllowedGood ==
    ASSUME NEW t \in Tools, NEW p \in Vp, p.consent = Scopes, NEW v \in p.creds,
           Allowed(t, ScopesOf[v])
    PROVE  Good(t, p)
<1> SUFFICES ASSUME Consistent(t) PROVE RequiredOf[t] \subseteq EffectiveScopes(p)
    BY DEF Good
<1>1. v \in Vcs
    BY VpFields
<1>2. ScopesOf[v] \subseteq Scopes
    BY <1>1, PresentationAssumption
<1>3. MarkedWith[t] \in ScopesOf[v] /\ RequiredOf[t] = {MarkedWith[t]}
    BY <1>2 DEF Allowed, Consistent
<1> QED
    BY <1>2, <1>3 DEF EffectiveScopes

\* A step that gives one call a record for which the invariant holds.
LEMMA BecomesOffer ==
    ASSUME TypeOK, OfferInv, NEW c \in Calls, NEW r, TrustInv(r), Becomes(c, r)
    PROVE  OfferInv'
<1>1. UNCHANGED <<active, offered, stale, fresh>> /\ call' = [call EXCEPT ![c] = r]
    BY DEF Becomes
<1>2. \A d \in Calls : call'[d] # None => TrustInv(call'[d])
    BY <1>1 DEF TypeOK, OfferInv
<1> QED
    BY <1>1, <1>2 DEF OfferInv

LEMMA RaisesOffer ==
    ASSUME TypeOK, OfferInv, NEW c \in Calls, call[c] # None, NEW code, Raises(c, code),
           code = "INSUFFICIENT_SCOPE" => ~(call[c].trusted /\ Consistent(call[c].tool))
    PROVE  OfferInv'
<1> DEFINE r == [call[c] EXCEPT !.stage = "raised", !.code = code]
<1>1. call[c] \in Call /\ TrustInv(call[c])
    BY CallType DEF OfferInv
<1>2. /\ r.stage = "raised" /\ r.code = code /\ r.trusted = call[c].trusted
      /\ r.tool = call[c].tool /\ r.meta = call[c].meta /\ r.header = call[c].header
    BY <1>1 DEF Call
<1>3. TrustInv(r)
    BY <1>1, <1>2 DEF TrustInv
<1> QED
    BY <1>3, BecomesOffer DEF Raises

LEMMA NextOffer == Inv /\ OfferInv /\ [Next]_vars => OfferInv'
<1> SUFFICES ASSUME Inv, OfferInv, [Next]_vars PROVE OfferInv'
    OBVIOUS
<1>0. TypeOK
    BY DEF Inv
<1>1. ASSUME NEW v \in Vcs, Issue(v) \/ Revoke(v) PROVE OfferInv'
    BY <1>1 DEF Issue, Revoke, OfferInv
<1>2. CASE Filter
    <2>1. PICK v \in active \ SelfSigned : offered' = {t \in Tools : Allowed(t, ScopesOf[v])}
        BY <1>2 DEF Filter, AgentScopes
    <2> QED
        BY <1>2, <2>1 DEF Filter, OfferInv
<1>3. CASE SignVp
    <2>1. PICK s \in Services, consent \in Consents :
            LET p == [creds |-> active \ SelfSigned, target |-> s, consent |-> consent]
            IN fresh' = IF stale \/ consent # Scopes THEN fresh ELSE fresh \cup {p}
        BY <1>3 DEF SignVp
    <2> DEFINE p == [creds |-> active \ SelfSigned, target |-> s, consent |-> consent]
    <2>2. p \in Vp /\ p.creds = active \ SelfSigned /\ p.consent = consent
        BY <1>0 DEF TypeOK, Vp
    <2>3. UNCHANGED <<active, offered, stale, call>>
        BY <1>3 DEF SignVp
    <2>4. fresh' = IF stale \/ consent # Scopes THEN fresh ELSE fresh \cup {p}
        BY <2>1
    <2> HIDE DEF p
    <2>5. ASSUME ~stale, consent = Scopes, NEW t \in offered PROVE Good(t, p)
        <3>1. PICK v \in active \ SelfSigned : Allowed(t, ScopesOf[v])
            BY <2>5 DEF OfferInv
        <3> QED
            BY <1>0, <2>2, <2>5, <3>1, AllowedGood DEF TypeOK
    <2>6. \A t \in offered, q \in fresh' : Good(t, q)
        BY <2>4, <2>5 DEF OfferInv
    <2> QED
        BY <2>3, <2>6 DEF OfferInv
<1>4. CASE BuildVp
    BY <1>4 DEF BuildVp, OfferInv
<1>5. ASSUME NEW c \in Calls, CallTool(c) PROVE OfferInv'
    <2>1. PICK t \in Tools, meta \in vps \cup {None, Junk, Empty},
                header \in vps \cup {None, Junk, Empty} :
            call' = [call EXCEPT ![c] =
                    [tool |-> t, meta |-> meta, header |-> header, stage |-> "arrived",
                     vp |-> None, valid |-> FALSE, scopes |-> {}, code |-> None,
                     before |-> revoked,
                     trusted |-> t \in offered /\ Presented(meta, header) \in fresh]]
        BY <1>5 DEF CallTool
    <2> DEFINE r == [tool |-> t, meta |-> meta, header |-> header, stage |-> "arrived",
                     vp |-> None, valid |-> FALSE, scopes |-> {}, code |-> None,
                     before |-> revoked,
                     trusted |-> t \in offered /\ Presented(meta, header) \in fresh]
    <2>2. TrustInv(r)
        BY DEF TrustInv, OfferInv
    <2>3. Becomes(c, r)
        BY <1>5, <2>1 DEF CallTool, Becomes
    <2> QED
        BY <1>0, <2>2, <2>3, BecomesOffer
<1>6. ASSUME NEW c \in Calls, ReadVp(c) PROVE OfferInv'
    <2> DEFINE r == [call[c] EXCEPT !.stage = "verifying",
                                    !.vp = Found(call[c].meta, call[c].header)]
    <2>1. call[c] \in Call /\ call[c] # None /\ TrustInv(call[c])
        BY <1>0, <1>6, CallType DEF ReadVp, At, OfferInv
    <2>2. CASE Becomes(c, r)
        <3>1. /\ r.stage = "verifying" /\ r.trusted = call[c].trusted /\ r.tool = call[c].tool
              /\ r.meta = call[c].meta /\ r.header = call[c].header
            BY <2>1 DEF Call
        <3>2. TrustInv(r)
            BY <2>1, <3>1 DEF TrustInv
        <3> QED
            BY <1>0, <2>2, <3>2, BecomesOffer
    <2>3. CASE \E code \in {"VP_MISSING", "VP_INVALID_STRUCTURE"} : Raises(c, code)
        BY <1>0, <2>1, <2>3, RaisesOffer
    <2> QED
        BY <1>6, <2>2, <2>3 DEF ReadVp
<1>7. ASSUME NEW c \in Calls, VerifyVp(c) PROVE OfferInv'
    <2> DEFINE p == call[c].vp
               r == [call[c] EXCEPT !.stage = "judged",
                        !.valid = p.creds \subseteq active /\ Asked(call[c].tool, p),
                        !.scopes = EffectiveScopes(p)]
    <2>1. call[c] \in Call /\ TrustInv(call[c])
        BY <1>0, <1>7, CallType DEF VerifyVp, At, OfferInv
    <2>2. /\ r.stage = "judged" /\ r.trusted = call[c].trusted /\ r.tool = call[c].tool
          /\ r.meta = call[c].meta /\ r.header = call[c].header
          /\ r.vp = p /\ r.scopes = EffectiveScopes(p)
        BY <2>1 DEF Call
    <2>3. TrustInv(r)
        BY <2>1, <2>2 DEF TrustInv
    <2>4. Becomes(c, r)
        BY <1>7 DEF VerifyVp
    <2> QED
        BY <1>0, <2>3, <2>4, BecomesOffer
<1>11. ASSUME NEW c \in Calls, VerifyBlank(c) PROVE OfferInv'
    <2> DEFINE r == [call[c] EXCEPT !.stage = "judged", !.valid = None]
    <2>1. call[c] \in Call /\ TrustInv(call[c])
        BY <1>0, <1>11, CallType DEF VerifyBlank, At, OfferInv
    <2>2. /\ r.stage = "judged" /\ r.trusted = call[c].trusted /\ r.tool = call[c].tool
          /\ r.meta = call[c].meta /\ r.header = call[c].header /\ r.valid # TRUE
        BY <2>1, NoneAssumption DEF Call
    <2>3. TrustInv(r)
        BY <2>1, <2>2 DEF TrustInv
    <2> QED
        BY <1>0, <1>11, <2>3, BecomesOffer DEF VerifyBlank
<1>8. ASSUME NEW c \in Calls, VerifyFails(c) PROVE OfferInv'
    BY <1>0, <1>8, RaisesOffer DEF VerifyFails, At
<1>9. ASSUME NEW c \in Calls, Conclude(c) PROVE OfferInv'
    <2> DEFINE r == [call[c] EXCEPT !.stage = "ran"]
    <2>1. call[c] \in Call /\ call[c] # None /\ call[c].stage = "judged"
          /\ TrustInv(call[c]) /\ CallInv(call[c], revoked)
        BY <1>0, <1>9, CallType DEF Conclude, At, Inv, OfferInv
    <2>2. CASE Becomes(c, r)
        <3>1. /\ r.stage = "ran" /\ r.trusted = call[c].trusted /\ r.tool = call[c].tool
              /\ r.meta = call[c].meta /\ r.header = call[c].header
            BY <2>1 DEF Call
        <3>2. TrustInv(r)
            BY <2>1, <3>1 DEF TrustInv
        <3> QED
            BY <1>0, <2>2, <3>2, BecomesOffer
    <2>3. CASE Raises(c, "VP_VERIFICATION_FAILED")
        BY <1>0, <2>1, <2>3, RaisesOffer
    <2>4. CASE call[c].valid = TRUE /\ ~Enough(call[c]) /\ Raises(c, "INSUFFICIENT_SCOPE")
        <3>1. call[c].scopes = EffectiveScopes(Presented(call[c].meta, call[c].header))
            BY <2>1, <2>4 DEF TrustInv, CallInv
        <3>2. ~(call[c].trusted /\ Consistent(call[c].tool))
            BY <2>1, <2>4, <3>1 DEF Enough, TrustInv, Good
        <3> QED
            BY <1>0, <2>1, <2>4, <3>2, RaisesOffer
    <2> QED
        BY <1>9, <2>2, <2>3, <2>4 DEF Conclude
<1>10. CASE UNCHANGED vars
    BY <1>10 DEF vars, OfferInv
<1> QED
    BY <1>1, <1>2, <1>3, <1>4, <1>5, <1>6, <1>7, <1>8, <1>9, <1>10, <1>11 DEF Next

\* A tool that a scope filter offers is not refused for its scopes, as long as
\* no credential changes between the filter and the signature: the filter looks
\* at one credential (tool_vp.py:69), and a VP carries them all.
THEOREM PresentationOfferedNotDenied == Spec => []OfferedNotDenied
<1>1. Init => OfferInv
    BY DEF Init, OfferInv
<1>2. OfferInv => OfferedNotDenied
    BY DEF OfferInv, TrustInv, OfferedNotDenied, At
<1> QED
    BY <1>1, <1>2, NextOffer, AlwaysInv, PTL DEF Spec
=============================================================================
