----------------------------- MODULE SessionProofs ----------------------------
(***************************************************************************)
(* Theorems about Session, for every number of managers and tokens, every  *)
(* sequence of restarts and clock adjustments within MaxSkew, and every    *)
(* step in which time passes.                                              *)
(*                                                                         *)
(* Two facts are enough.  A token's exp lies less than a second, and the   *)
(* skew, before the end of the ttl it was issued with (TokenInv).  And a   *)
(* decision compares exp with the true time, within the skew, wherever and *)
(* whenever it was made (DecisionInv); the offset and the configuration    *)
(* that led to it may have changed since.                                  *)
(***************************************************************************)
EXTENDS Session, TLAPS

\* Between the end of the ttl and a token's exp.
TokenInv ==
    \A t \in tokens :
      /\ 1000 * t.exp <= t.signedAt + MaxSkew + 1000 * t.lasting
      /\ 1000 * t.exp > t.signedAt - MaxSkew + 1000 * t.lasting - 1000

\* Between a token's exp and the time of a decision on it.
DecisionInv ==
    \A d \in decisions :
      /\ d.token \in tokens
      /\ d.outcome = "accepted" => d.at - MaxSkew < 1000 * d.token.exp
      /\ d.outcome = "expired" => 1000 * d.token.exp <= d.at + MaxSkew

Inv == TypeOK /\ TokenInv /\ DecisionInv

-----------------------------------------------------------------------------
\* int(time.time()) is the clock cut to whole seconds.
LEMMA WholeSeconds ==
    ASSUME TypeOK, NEW m \in Managers
    PROVE  /\ Seconds(m) \in Int
           /\ 1000 * Seconds(m) <= now + MaxSkew
           /\ 1000 * Seconds(m) > now - MaxSkew - 1000
           /\ \A e \in Int : e <= Seconds(m) => 1000 * e <= now + MaxSkew
           /\ \A e \in Int : ~(e <= Seconds(m)) => now - MaxSkew < 1000 * e
<1>1. /\ now + offset[m] \in Int
      /\ offset[m] \in Int
      /\ -MaxSkew <= offset[m]
      /\ offset[m] <= MaxSkew
      /\ now \in Int /\ MaxSkew \in Int
    BY SessionAssumption DEF TypeOK
<1> DEFINE c == now + offset[m]
           q == c \div 1000
<1>2. q \in Int /\ 1000 * q <= c /\ c < 1000 * q + 1000
    BY <1>1
<1>3. Seconds(m) = q
    BY DEF Seconds
<1> HIDE DEF q
<1>4. \A e \in Int : e <= q => 1000 * e <= 1000 * q
    BY <1>2
<1>5. \A e \in Int : ~(e <= q) => 1000 * e >= 1000 * q + 1000
    BY <1>2
<1> QED
    BY <1>1, <1>2, <1>3, <1>4, <1>5

\* verify() has the outcomes it has, and tells an expired token by its exp.
LEMMA OutcomeFacts ==
    ASSUME NEW m \in Managers, NEW t \in tokens
    PROVE  /\ Outcome(m, t) \in {"accepted", "expired", "refused"}
           /\ Outcome(m, t) = "accepted" => ~(t.exp <= Seconds(m))
           /\ Outcome(m, t) = "expired" => t.exp <= Seconds(m)
    BY DEF Outcome

\* The invariant holds before any manager starts.
LEMMA InitInv == Init => Inv
    BY SessionAssumption DEF Init, Inv, TypeOK, TokenInv, DecisionInv

\* Restarts and clocks change no token and no decision; a new token has its
\* exp from the clock of that moment, and so has a decision.
LEMMA NextInv == Inv /\ [Next]_vars => Inv'
<1> SUFFICES ASSUME Inv, [Next]_vars PROVE Inv'
    OBVIOUS
<1>0. TypeOK /\ TokenInv /\ DecisionInv
    BY DEF Inv
<1>1. ASSUME NEW m \in Managers, Configure(m) PROVE Inv'
    <2>1. TypeOK'
        BY <1>0, <1>1, SessionAssumption DEF Configure, TypeOK
    <2> QED
        BY <1>0, <1>1, <2>1 DEF Inv, Configure, TokenInv, DecisionInv
<1>2. ASSUME NEW m \in Managers, Issue(m) PROVE Inv'
    <2> DEFINE T(c) == [claims |-> c, exp |-> Seconds(m) + ttl[m], key |-> secret[m],
                        signedAt |-> now, lasting |-> ttl[m]]
    <2>1. PICK c \in Claims : tokens' = tokens \cup {T(c)}
        BY <1>2 DEF Issue
    <2>2. /\ Seconds(m) \in Int /\ ttl[m] \in Int /\ now \in Int /\ MaxSkew \in Int
          /\ 1000 * Seconds(m) <= now + MaxSkew
          /\ 1000 * Seconds(m) > now - MaxSkew - 1000
        BY <1>0, WholeSeconds, SessionAssumption DEF TypeOK
    <2>3. /\ 1000 * (Seconds(m) + ttl[m]) <= now + MaxSkew + 1000 * ttl[m]
          /\ 1000 * (Seconds(m) + ttl[m]) > now - MaxSkew + 1000 * ttl[m] - 1000
        BY <2>2
    <2>4. T(c) \in Token
        BY <1>0, <1>2, <2>2 DEF Issue, Running, TypeOK, Token
    <2>5. TokenInv'
        BY <1>0, <2>1, <2>3 DEF TokenInv
    <2>6. TypeOK'
        BY <1>0, <1>2, <2>1, <2>4 DEF Issue, TypeOK
    <2>7. DecisionInv'
        BY <1>0, <1>2, <2>1 DEF Issue, DecisionInv
    <2> QED
        BY <2>5, <2>6, <2>7 DEF Inv
<1>3. ASSUME NEW m \in Managers, Verify(m) PROVE Inv'
    <2> DEFINE D(t) == [token |-> t, at |-> now, outcome |-> Outcome(m, t)]
    <2>1. PICK t \in tokens : decisions' = decisions \cup {D(t)}
        BY <1>3 DEF Verify
    <2>2. t \in Token /\ t.exp \in Int
        BY <1>0 DEF TypeOK, Token
    <2>3. /\ D(t).token = t /\ D(t).at = now
          /\ D(t).outcome \in {"accepted", "expired", "refused"}
          /\ D(t).outcome = "accepted" => now - MaxSkew < 1000 * t.exp
          /\ D(t).outcome = "expired" => 1000 * t.exp <= now + MaxSkew
        BY <1>0, <2>2, WholeSeconds, OutcomeFacts
    <2>4. D(t) \in Decision
        BY <1>0, <2>2, <2>3 DEF Decision, TypeOK
    <2>5. TypeOK'
        BY <1>0, <1>3, <2>1, <2>4 DEF Verify, TypeOK
    <2>6. tokens' = tokens
        BY <1>3 DEF Verify
    <2> HIDE DEF D
    <2>7. DecisionInv'
        BY <1>0, <2>1, <2>3, <2>6 DEF DecisionInv
    <2>8. TokenInv'
        BY <1>0, <2>6 DEF TokenInv
    <2> QED
        BY <2>5, <2>7, <2>8 DEF Inv
<1>4. ASSUME NEW m \in Managers, Adjust(m) PROVE Inv'
    <2>1. TypeOK'
        BY <1>0, <1>4, SessionAssumption DEF Adjust, TypeOK
    <2> QED
        BY <1>0, <1>4, <2>1 DEF Inv, Adjust, TokenInv, DecisionInv
<1>5. CASE Tick
    <2>1. TypeOK'
        BY <1>0, <1>5, SessionAssumption DEF Tick, TypeOK
    <2> QED
        BY <1>0, <1>5, <2>1 DEF Inv, Tick, TokenInv, DecisionInv
<1>6. CASE UNCHANGED vars
    BY <1>0, <1>6 DEF vars, Inv, TypeOK, TokenInv, DecisionInv
<1> QED
    BY <1>1, <1>2, <1>3, <1>4, <1>5, <1>6 DEF Next

\* The invariant is inductive.
LEMMA AlwaysInv == Spec => []Inv
    BY InitInv, NextInv, PTL DEF Spec

\* The numbers that the two invariants speak of are integers.
LEMMA Numbers ==
    ASSUME Inv, NEW d \in decisions
    PROVE  /\ d.at \in Int /\ MaxSkew \in Int
           /\ d.token \in tokens
           /\ d.token.exp \in Int /\ d.token.signedAt \in Int
           /\ d.token.lasting \in Int
    BY SessionAssumption DEF Inv, TypeOK, DecisionInv, Decision, Token

-----------------------------------------------------------------------------
\* The types are an invariant of every instance.
THEOREM SessionTypeOK == Spec => []TypeOK
<1>1. Inv => TypeOK
    BY DEF Inv
<1> QED
    BY AlwaysInv, <1>1, PTL

\* A session is accepted for less than the ttl it was issued with, plus twice
\* the skew of the clocks.
THEOREM SessionAcceptedNotStale == Spec => []AcceptedNotStale
<1>1. Inv => AcceptedNotStale
    <2> SUFFICES ASSUME Inv, NEW d \in decisions, d.outcome = "accepted"
                 PROVE  d.at < d.token.signedAt + 1000 * d.token.lasting + 2 * MaxSkew
        BY DEF AcceptedNotStale
    <2>1. d.at - MaxSkew < 1000 * d.token.exp
        BY DEF Inv, DecisionInv
    <2>2. 1000 * d.token.exp <= d.token.signedAt + MaxSkew + 1000 * d.token.lasting
        BY Numbers DEF Inv, TokenInv
    <2> QED
        BY <2>1, <2>2, Numbers
<1> QED
    BY AlwaysInv, <1>1, PTL

\* And is not called expired until that ttl, less a second and twice the skew.
THEOREM SessionExpiredNotEarly == Spec => []ExpiredNotEarly
<1>1. Inv => ExpiredNotEarly
    <2> SUFFICES ASSUME Inv, NEW d \in decisions, d.outcome = "expired"
                 PROVE  d.at > d.token.signedAt + 1000 * d.token.lasting - 1000
                               - 2 * MaxSkew
        BY DEF ExpiredNotEarly
    <2>1. 1000 * d.token.exp <= d.at + MaxSkew
        BY DEF Inv, DecisionInv
    <2>2. 1000 * d.token.exp > d.token.signedAt - MaxSkew + 1000 * d.token.lasting - 1000
        BY Numbers DEF Inv, TokenInv
    <2> QED
        BY <2>1, <2>2, Numbers
<1> QED
    BY AlwaysInv, <1>1, PTL

\* Managers agree on whether a token has expired, but for twice the skew.
THEOREM SessionRevivalBounded == Spec => []RevivalBounded
<1>1. Inv => RevivalBounded
    <2> SUFFICES ASSUME Inv, NEW d \in decisions, NEW e \in decisions,
                        d.token = e.token, d.outcome = "expired",
                        e.outcome = "accepted"
                 PROVE  e.at < d.at + 2 * MaxSkew
        BY DEF RevivalBounded
    <2>1. 1000 * d.token.exp <= d.at + MaxSkew /\ e.at - MaxSkew < 1000 * d.token.exp
        BY DEF Inv, DecisionInv
    <2> QED
        BY <2>1, Numbers
<1> QED
    BY AlwaysInv, <1>1, PTL
=============================================================================
