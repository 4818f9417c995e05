---------------------------------- MODULE Demos ----------------------------------
(***************************************************************************)
(* The two example programs, src/examples/verify_vp_demo.py and            *)
(* src/examples/agent_delegation_demo.py, against the API of Client while  *)
(* another caller uses it too.                                             *)
(*                                                                         *)
(* A demo is a list of steps, each of them one call of the client, but for *)
(* the enrollment tokens: those it mints by urllib, without the client and *)
(* without a timeout. It stops at the first exception that it does not     *)
(* catch. Its last call must be refused.                                   *)
(***************************************************************************)
EXTENDS Client

CONSTANTS
    Demo,       \* the demos that an instance runs, each a caller
    Others,     \* the other callers
    MaxOthers   \* bound: the calls of each of them

VARIABLES
    at,         \* each demo's step
    call,       \* the number of the call it waits for, 0 before the call
    exit        \* how it ended: "done" (0), "surprised" (1), "traceback";
                \* "absent" for a demo that nobody runs (one of them is run)

demoVars == <<at, call, exit>>
allVars == <<vars, demoVars>>

Script ==
    [verify     |-> <<"mint", "onboard", "sign", "verify", "revoke", "check">>,
     delegation |-> <<"mint", "onboard", "mint", "onboardSub", "delegate", "sign",
                      "verify", "again">>]

ASSUME DemoAssumption ==
    /\ Demo \subseteq DOMAIN Script
    /\ Demo \cap Others = {}
    /\ None \notin {"absent", "done", "surprised", "traceback"}

\* agent_delegation_demo.py:77-82: it does not run without an admin key.
ASSUME ClientAssumption ==
    "delegation" \in Demo =>
      ClientOf["delegation"].url /\ ClientOf["delegation"].admin /\ ~ClientOf["delegation"].api

\* The verification demo mints its agent without "write", and nobody gives it that.
ASSUME ScopesAssumption ==
    /\ "write" \notin ScopesOf["v"]
    /\ \A g \in Grants \cup Delegations : g.to = "v" => "write" \notin g.scopes

\* The sub-agent is an agent, without a delegation depth; None is nothing else.
ASSUME SubAgentAssumption ==
    /\ "s" \notin Delegators \cup Things
    /\ \A g \in Grants : g.from # "s"
    /\ None # "s" /\ None \notin Nat

\* agent_delegation_demo.py:136: the two codes, or as older servers spell them.
ASSUME RefusalCodes ==
    Refusals \subseteq {"MAX_DELEGATION_DEPTH_EXCEEDED", "SCOPE_ESCALATION_DENIED",
                        "DELEGATION_DEPTH_EXCEEDED", "DELEGATION_SCOPE_ESCALATION"}

DemoInit ==
    /\ Init
    /\ at = [d \in Demo |-> 1]
    /\ call = [d \in Demo |-> 0]
    /\ exit \in {e \in [Demo -> {None, "absent"}] : Cardinality({d \in Demo : e[d] = None}) = 1}

Step(d)   == Script[d][at[d]]
IsLast(d) == at[d] = Len(Script[d])

\* The token that the demo mints for the agent which it makes, and the agent
\* that its presentation is of. delegation makes another for the delegator.
Agent(d) == IF d = "verify" THEN "v" ELSE "s"

\* What an earlier step of the demo returned.
Result(d, op) ==
    LET past == {o \in ended : o.req.by = d /\ o.req.op = op /\ o.ok}
    IN (CHOOSE o \in past : \A p \in past : p.req.n <= o.req.n).body

\* The delegation that each step of the delegation demo asks for.
Asks(step) ==
    LET first == step = "delegate"
    IN Ask([from |-> IF first THEN "g" ELSE "s", to |-> IF first THEN "s" ELSE "placeholder",
            scopes |-> {"read"}], FALSE, FALSE)

CallOf(d) ==
    CASE Step(d) = "onboard" ->
           Call(d, "onboard_agent", IF d = "verify" THEN "v" ELSE "g", {})
      [] Step(d) = "onboardSub" -> Call(d, "onboard_agent", "s", {})
      [] Step(d) = "sign" -> Call(d, "sign_vp", Agent(d), {})
      [] Step(d) \in {"verify", "check"} -> Call(d, "verify_vp", Result(d, "sign_vp"), Told)
      [] Step(d) = "revoke" -> Call(d, "revoke_vc", Result(d, "onboard_agent"), {})
      [] Step(d) \in {"delegate", "again"} -> Call(d, "delegate", Asks(Step(d)), {})

MakeCall(d) ==
    /\ exit[d] = None /\ Step(d) # "mint" /\ call[d] = 0
    /\ CallOf(d)
    /\ call' = [call EXCEPT ![d] = sent + 1]
    /\ UNCHANGED <<at, exit>>
    /\ Same

\* Mutant: any error will do for the last step of the delegation demo.
Expected_Any(d, error) == error.class # "Timeout"

\* The errors that the last step catches and takes for the refusal it expects.
Expected(d, error) ==
    IF d = "verify" THEN error.class \notin {"Timeout", "KeyError"}
    ELSE error.code \in {"MAX_DELEGATION_DEPTH_EXCEEDED", "SCOPE_ESCALATION_DENIED"}

\* What the demo takes from an answer beside what the client does: the agent's
\* DID, the field `valid', and the scopes, of which "write" must not be one.
Usable(d, o) == o.body # None \/ Step(d) = "revoke" \/ (d = "delegation" /\ Step(d) = "verify")
Overscoped(d, o) == d = "verify" /\ Step(d) = "verify" /\ "write" \in o.body

Exit(d, how) == exit' = [exit EXCEPT ![d] = how] /\ UNCHANGED <<at, call>>
Advance(d) ==
    /\ at' = [at EXCEPT ![d] = @ + 1]
    /\ call' = [call EXCEPT ![d] = 0]
    /\ UNCHANGED exit

Continue(d) ==
    /\ exit[d] = None
    /\ UNCHANGED vars
    /\ \E o \in ended :
         /\ o.req.n = call[d]
         /\ CASE ~o.ok -> Exit(d, IF IsLast(d) /\ Expected(d, o.error) THEN "done" ELSE "traceback")
              [] o.ok /\ IsLast(d) -> Exit(d, "surprised")
              [] o.ok /\ ~IsLast(d) /\ ~Usable(d, o) -> Exit(d, "traceback")
              [] o.ok /\ ~IsLast(d) /\ Usable(d, o) ->
                   IF Overscoped(d, o) THEN Exit(d, "surprised") ELSE Advance(d)

\* create_enrollment_token: urlopen answers, or raises; nothing bounds its time.
Mint(d) ==
    /\ exit[d] = None /\ Step(d) = "mint"
    /\ Advance(d) \/ Exit(d, "traceback")
    /\ UNCHANGED vars

DemoNext ==
    \/ \E d \in Demo : MakeCall(d) \/ Continue(d) \/ Mint(d)
    \/ /\ \/ \E c \in Others : /\ Cardinality({o \in ended : o.req.by = c}) < MaxOthers
                               /\ AnyMethod(c) /\ Same
          \/ \E c \in Callers : Network(c)
          \/ \E r \in pending : Serve(r)
       /\ UNCHANGED demoVars

\* A program goes on once it can; a call ends by its timeout if not before.
DemoSpec ==
    /\ DemoInit /\ [][DemoNext]_allVars
    /\ \A d \in Demo :
         WF_allVars(MakeCall(d)) /\ WF_allVars(Continue(d))
         /\ WF_allVars(Timeout(d) /\ Same /\ UNCHANGED demoVars)

-----------------------------------------------------------------------------
\* The last call of a demo was refused, by an error of the API itself.
Refusal(d) ==
    {o \in ended : /\ IsLast(d) /\ o.req.n = call[d] /\ ~o.ok
                   /\ o.error.status # None /\ o.error.code # "INTERNAL_ERROR"}

\* Neither demo ever ends with "unexpected success": what it says that the API
\* must refuse is refused, and the scope that its agent lacks is missing,
\* whatever answers are lost and whatever the other caller revokes or renews.
NeverSurprised == \A d \in Demo : exit[d] # "surprised"

\* Where the verification demo says that verification failed as expected, the
\* credential is revoked; where the delegation demo says "delegation blocked as
\* designed", the API did refuse it and the sub-agent has delegated nothing.
DoneIsTrue ==
    \A d \in Demo : exit[d] = "done" =>
      IF d = "verify" THEN Result(d, "onboard_agent") \in revoked
      ELSE Refusal(d) # {} /\ \A i \in Active : vcs[i].from # "s"

\* errors.py:220-222: "the wire codes DELEGATION_DEPTH_EXCEEDED /
\* DELEGATION_SCOPE_ESCALATION stay in codes.py because the SDK still maps them
\* from API responses". By whichever of the four codes the API refuses the
\* further delegation, the demo takes it for the refusal it expects.
RefusalRecognised ==
    \A d \in Demo : exit[d] = "traceback" => Refusal(d) = {}

\* A demo ends, unless it waits for an enrollment token for ever: urlopen has no
\* timeout (verify_vp_demo.py:54). No call of the client can hang it.
HangsOnlyOnToken ==
    \A d \in Demo : <>(exit[d] # None) \/ <>[](Step(d) = "mint")
=============================================================================
