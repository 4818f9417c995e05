------------------------------- MODULE Session --------------------------------
(***************************************************************************)
(* SessionManager (src/src/helix_sdk/session_manager.py): a verifier signs *)
(* a session token after it has verified a VP, and accepts the token in    *)
(* place of further VPs until it expires.                                  *)
(*                                                                         *)
(* Managers run on hosts of their own and share a secret when a service    *)
(* has several of them.  Time is in milliseconds; a manager sees whole     *)
(* seconds, int(time.time()), of a clock that is wrong by at most MaxSkew  *)
(* and may be set back.  A restart takes the secret and the ttl from the   *)
(* configuration, which may have changed.                                  *)
(***************************************************************************)
EXTENDS Integers, FiniteSets

CONSTANTS
    Managers,
    Secrets,
    Strong,        \* secrets of at least 16 characters
    Ttls,          \* seconds, as configured
    Claims,        \* what is signed: agent, scopes and delegation chain
    Verifiable,    \* claims of the form that verify() asserts
    Offsets,       \* errors of the hosts' clocks
    MaxSkew,       \* the largest of them
    Ticks,         \* the steps in which time passes
    MaxTime,       \* bound: time passes no further
    MaxTokens,     \* bound: tokens issued
    MaxDecisions,  \* bound: verifications remembered
    None           \* the secret of a manager that is not running

ASSUME SessionAssumption ==
    /\ Strong \subseteq Secrets
    /\ None \notin Secrets
    /\ Ttls \subseteq Int
    /\ MaxSkew \in Nat
    /\ Offsets \subseteq (-MaxSkew)..MaxSkew
    /\ 0 \in Offsets
    /\ Ticks \subseteq Nat \ {0}
    /\ MaxTime \in Nat

VARIABLES
    now,        \* true time
    offset,     \* each host's clock minus the true time
    secret,     \* each manager's secret, or None
    ttl,        \* each manager's ttl
    tokens,     \* every token issued, wherever it is now
    decisions   \* history: what verify() said of which token, and when

vars == <<now, offset, secret, ttl, tokens, decisions>>

\* A token.  signedAt and lasting, the true time and the ttl when it was
\* issued, are history and not in the token.
Token == [claims: Claims, exp: Int, key: Strong, signedAt: Nat, lasting: Int]

Decision == [token: Token, at: Nat, outcome: {"accepted", "expired", "refused"}]

Init ==
    /\ now = 0
    /\ offset = [m \in Managers |-> 0]
    /\ secret = [m \in Managers |-> None]
    /\ ttl = [m \in Managers |-> 1]
    /\ tokens = {}
    /\ decisions = {}

\* int(time.time()) on the host of m.
Seconds(m) == (now + offset[m]) \div 1000

Running(m) == secret[m] # None

-----------------------------------------------------------------------------
\* Mutant: __post_init__ accepts every ttl.
Configure_AnyTtl(m) ==
    /\ \E s \in Strong, n \in Ttls :
         /\ secret' = [secret EXCEPT ![m] = s]
         /\ ttl' = [ttl EXCEPT ![m] = n]
    /\ UNCHANGED <<now, offset, tokens, decisions>>

\* The verifier starts, or restarts: __post_init__ raises for a short secret
\* or a ttl that is not positive, and then there is no new manager.
Configure(m) ==
    /\ \E s \in Strong, n \in Ttls :
         /\ n > 0
         /\ secret' = [secret EXCEPT ![m] = s]
         /\ ttl' = [ttl EXCEPT ![m] = n]
    /\ UNCHANGED <<now, offset, tokens, decisions>>

\* Mutant: expiry lies ttl seconds after the next whole second.
Issue_Late(m) ==
    /\ Running(m)
    /\ Cardinality(tokens) < MaxTokens
    /\ \E c \in Claims :
         tokens' = tokens \cup
           {[claims |-> c, exp |-> Seconds(m) + 1 + ttl[m], key |-> secret[m],
             signedAt |-> now, lasting |-> ttl[m]]}
    /\ UNCHANGED <<now, offset, secret, ttl, decisions>>

\* issue(): it checks that there is an agent and a list of scopes, and signs
\* whatever the scopes and the delegation chain hold.
Issue(m) ==
    /\ Running(m)
    /\ Cardinality(tokens) < MaxTokens
    /\ \E c \in Claims :
         tokens' = tokens \cup
           {[claims |-> c, exp |-> Seconds(m) + ttl[m], key |-> secret[m],
             signedAt |-> now, lasting |-> ttl[m]]}
    /\ UNCHANGED <<now, offset, secret, ttl, decisions>>

\* Mutants: the second of expiry rounded up; the ttl of the manager that
\* verifies, in place of the one that issued; no claims are asserted.
Outcome_Rounded(m, t) ==
    CASE t.key # secret[m]          -> "refused"
      [] t.claims \notin Verifiable -> "refused"
      [] t.exp <= Seconds(m) + 1    -> "expired"
      [] OTHER                      -> "accepted"
Outcome_OwnTtl(m, t) ==
    CASE t.key # secret[m]          -> "refused"
      [] t.claims \notin Verifiable -> "refused"
      [] t.exp - t.lasting + ttl[m] <= Seconds(m) -> "expired"
      [] OTHER                      -> "accepted"

\* verify(): the signature, then the claims, then the expiry.
Outcome(m, t) ==
    CASE t.key # secret[m]          -> "refused"
      [] t.claims \notin Verifiable -> "refused"
      [] t.exp <= Seconds(m)        -> "expired"
      [] OTHER                      -> "accepted"

\* A call arrives with a token that some manager has issued.
Verify(m) ==
    /\ Running(m)
    /\ Cardinality(decisions) < MaxDecisions
    /\ \E t \in tokens :
         decisions' = decisions \cup
           {[token |-> t, at |-> now, outcome |-> Outcome(m, t)]}
    /\ UNCHANGED <<now, offset, secret, ttl, tokens>>

\* The host's clock is set, forward or back.
Adjust(m) ==
    /\ \E o \in Offsets : offset' = [offset EXCEPT ![m] = o]
    /\ UNCHANGED <<now, secret, ttl, tokens, decisions>>

Tick ==
    /\ \E d \in Ticks : now' = now + d
    /\ now' <= MaxTime
    /\ UNCHANGED <<offset, secret, ttl, tokens, decisions>>

Next ==
    \/ \E m \in Managers : Configure(m) \/ Issue(m) \/ Verify(m) \/ Adjust(m)
    \/ Tick

Spec == Init /\ [][Next]_vars

-----------------------------------------------------------------------------
\* Every variable has its type; a running manager's ttl is positive.
TypeOK ==
    /\ now \in Nat
    /\ offset \in [Managers -> (-MaxSkew)..MaxSkew]
    /\ secret \in [Managers -> Strong \cup {None}]
    /\ ttl \in [Managers -> Nat \ {0}]
    /\ tokens \subseteq Token
    /\ decisions \subseteq Decision

\* A token stands in for a verified VP for less than the ttl it was issued
\* with, plus what the two clocks may differ by; neither a restart with a
\* longer ttl nor a clock that is set back extends it further.
AcceptedNotStale ==
    \A d \in decisions : d.outcome = "accepted" =>
      d.at < d.token.signedAt + 1000 * d.token.lasting + 2 * MaxSkew

\* And no token is expired more than a second, and the clocks' difference,
\* before that ttl has passed, though both ends of it are cut to whole seconds.
ExpiredNotEarly ==
    \A d \in decisions : d.outcome = "expired" =>
      d.at > d.token.signedAt + 1000 * d.token.lasting - 1000 - 2 * MaxSkew

\* A token that one manager has called expired may still be accepted by
\* another, or by the same one once its clock was set back, but only until the
\* clocks' difference has passed.
RevivalBounded ==
    \A d, e \in decisions :
      d.token = e.token /\ d.outcome = "expired" /\ e.outcome = "accepted" =>
        e.at < d.at + 2 * MaxSkew

\* session_manager.py:12-14: "SessionManager lets a verifier mint its own
\* short-lived tokens after a successful /v1/vp/verify call, so subsequent
\* calls from the same agent can skip re-verification until the token expires":
\* a manager with the secret refuses no token that it, or another, has issued.
UsableUntilExpiry ==
    \A d \in decisions : d.outcome = "refused" =>
      \E m \in Managers : d.token.key # secret[m]
=============================================================================
