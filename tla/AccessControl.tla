----------------------------- MODULE AccessControl -----------------------------
(***************************************************************************)
(* What the verification of tool calls promises, whatever it is made of: a *)
(* call is decided at one instant between its arrival and the start of the *)
(* tool, by the credentials that are active then; it runs only if that     *)
(* decision was for it. The middleware (Presentation) implements this.     *)
(***************************************************************************)
CONSTANTS
    Calls, Tools, Vcs,
    Vps,        \* presentations
    CredsOf,    \* the credentials in each
    Fits,       \* <<tool, presentation>>: right but for the credentials' state
    None

VARIABLES
    active,     \* credentials that are active
    revoked,    \* credentials that were revoked
    call        \* each call: its tool, what it presents, and what became of it

vars == <<active, revoked, call>>

Init ==
    /\ active = {}
    /\ revoked = {}
    /\ call = [c \in Calls |-> None]

Issue(v) ==
    /\ v \notin active \cup revoked
    /\ active' = active \cup {v}
    /\ UNCHANGED <<revoked, call>>

Revoke(v) ==
    /\ v \in active
    /\ active' = active \ {v}
    /\ revoked' = revoked \cup {v}
    /\ UNCHANGED call

\* `before' is what was revoked when the call arrived.
Arrive(c) ==
    /\ call[c] = None
    /\ \E t \in Tools, p \in Vps \cup {None} :
         call' = [call EXCEPT ![c] =
                    [tool |-> t, vp |-> p, verdict |-> "open", before |-> revoked]]
    /\ UNCHANGED <<active, revoked>>

Acceptable(c) ==
    /\ call[c].vp # None
    /\ CredsOf[call[c].vp] \subseteq active
    /\ <<call[c].tool, call[c].vp>> \in Fits

\* The call goes from one verdict to the next.
Turn(c, from, to) ==
    /\ call[c] # None
    /\ call[c].verdict = from
    /\ call' = [call EXCEPT ![c] = [call[c] EXCEPT !.verdict = to]]
    /\ UNCHANGED <<active, revoked>>

Allow(c) == Turn(c, "open", "allowed") /\ Acceptable(c)
Deny(c)  == Turn(c, "open", "denied") /\ ~Acceptable(c)

\* No decision: nobody answered, or the answer did not say. The tool never runs.
Fail(c)  == Turn(c, "open", "failed")

Run(c)   == Turn(c, "allowed", "ran")

Next ==
    \/ \E v \in Vcs : Issue(v) \/ Revoke(v)
    \/ \E c \in Calls : Arrive(c) \/ Allow(c) \/ Deny(c) \/ Fail(c) \/ Run(c)

Spec == Init /\ [][Next]_vars

=============================================================================
