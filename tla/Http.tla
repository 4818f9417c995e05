---------------------------------- MODULE Http ----------------------------------
(***************************************************************************)
(* One call of the API: src/src/helix_sdk/http_adapter.py, and the part of *)
(* HelixClient that every method shares.                                   *)
(*                                                                         *)
(* A call is synchronous: one request, no retry, and a timeout. Callers    *)
(* run in threads or processes of their own. A request whose caller has    *)
(* given up may still reach the API; one that is lost is one that the API  *)
(* never serves, an answer that is lost is one that the caller timed out   *)
(* on. What the API does is left to the module that extends this one.      *)
(***************************************************************************)
EXTENDS Errors

CONSTANTS
    Callers,
    Methods,    \* those that the callers of an instance use
    ClientOf,   \* each caller's HelixClient: which arguments it was made with
    MaxCalls,   \* bound: requests sent
    None        \* no body, no error code

VARIABLES
    waiting,    \* requests whose callers wait: the calls in progress
    pending,    \* requests which the API has not served
    reply,      \* the answers on their way
    ended,      \* how every call ended: history, and what the callers know
    sent,       \* number of calls so far
    done        \* history: requests that had their effect, by number

httpVars == <<waiting, pending, reply, ended, sent, done>>

HttpInit ==
    /\ waiting = {}
    /\ pending = {}
    /\ reply = {}
    /\ ended = {}
    /\ sent = 0
    /\ done = {}

-----------------------------------------------------------------------------
\* HelixClient(): no base_url, and no api_key that would bring the default one.
SdkOnly(c) == ~ClientOf[c].url /\ ~ClientOf[c].api

\* The custodial routes of the hosted API in place of those of core.
Custodial(c) == ClientOf[c].api

\* Mutant: only the custodial routes get the bearer token.
Credential_CustodialOnly(c, op) ==
    IF ClientOf[c].api /\ op \in {"sign_vp", "delegate"} THEN "bearer"
    ELSE IF ClientOf[c].admin /\ ~ClientOf[c].api THEN "admin" ELSE None

\* One credential per client, whatever the route.
Credential(c, op) ==
    IF ClientOf[c].api THEN "bearer" ELSE IF ClientOf[c].admin THEN "admin" ELSE None

Busy(c) == \E r \in waiting : r.by = c

Returned(r, body) == [req |-> r, ok |-> TRUE, body |-> body]
Raised(r, error)  == [req |-> r, ok |-> FALSE, error |-> error]

\* An exception that is none of the SDK's.
Foreign(class) == [class |-> class, code |-> None, status |-> None]

\* A method is called: it raises at once, or its request is on its way.
\* `history' is what the properties have to know of the moment of the call.
Call(c, op, arg, history) ==
    /\ op \in Methods
    /\ ~Busy(c)
    /\ sent < MaxCalls
    /\ LET r == [n |-> sent + 1, by |-> c, op |-> op, arg |-> arg,
                 cred |-> Credential(c, op), custodial |-> Custodial(c),
                 history |-> history]
       IN IF SdkOnly(c)
          THEN /\ ended' = ended \cup {Raised(r, Raise("SDK_ONLY_MODE_NO_API"))}
               /\ UNCHANGED <<waiting, pending>>
          ELSE /\ waiting' = waiting \cup {r}
               /\ pending' = pending \cup {r}
               /\ UNCHANGED ended
    /\ sent' = sent + 1
    /\ UNCHANGED <<reply, done>>

\* An answer to a caller, in place of any other.
Deliver(r, status, code, body) ==
    reply' = {a \in reply : a.to # r} \cup
             {[to |-> r, status |-> status, code |-> code, body |-> body]}

\* The API has served r: its answer goes to the caller, if that still waits.
Answer(r, status, code, body) ==
    /\ pending' = pending \ {r}
    /\ IF r \in waiting THEN Deliver(r, status, code, body) ELSE UNCHANGED reply
    /\ UNCHANGED <<waiting, ended, sent>>

\* Served, with an effect. The answer may come without a JSON body (204).
Done(r, body) ==
    /\ \/ Answer(r, 200, None, body)
       \/ Answer(r, 204, None, None)
    /\ done' = done \cup {r.n}

\* Refused, without one.
Refused(r, code) ==
    /\ Answer(r, IF code \in DOMAIN ClassStatus THEN ClassStatus[code] ELSE 400, code, None)
    /\ UNCHANGED done

\* A proxy answers in the API's place, which may or may not get the request.
GatewayFails(c) ==
    /\ \E r \in waiting : r.by = c /\ Deliver(r, 502, None, None)
    /\ UNCHANGED <<waiting, pending, ended, sent, done>>

\* Mutant: the result of _request is used without a look at the status.
Interpret_NoRaise(r, a, subscripts) ==
    IF a.body = None /\ r.op \in subscripts
    THEN Raised(r, Foreign("KeyError"))
    ELSE Returned(r, a.body)

\* _request: {} for an answer without JSON, an exception for one that is not
\* ok; then the method takes its field from the result, which is a KeyError
\* when it is not there.
Interpret(r, a, subscripts) ==
    IF a.status >= 400 THEN Raised(r, MapApiError(a.code, a.status, None))
    ELSE IF a.body = None /\ r.op \in subscripts
    THEN Raised(r, Foreign("KeyError"))
    ELSE Returned(r, a.body)

\* record_consent_granted_audit catches every exception; nothing else does.
Surface(o) == IF o.req.op = "record_consent" THEN Returned(o.req, None) ELSE o

End(r, o) ==
    /\ waiting' = waiting \ {r}
    /\ reply' = {a \in reply : a.to # r}
    /\ ended' = ended \cup {Surface(o)}
    /\ UNCHANGED <<pending, sent, done>>

Receive(c, subscripts) ==
    \E a \in reply : a.to.by = c /\ End(a.to, Interpret(a.to, a, subscripts))

\* Mutant: the adapter sends a request again when no answer comes.
Timeout_Retries(c) ==
    /\ \E r \in waiting :
         /\ r.by = c
         /\ pending' = pending \cup {r}
         /\ reply' = {a \in reply : a.to # r}
    /\ UNCHANGED <<waiting, ended, sent, done>>

\* requests.request raises an exception of the library, which passes through.
Timeout(c) ==
    \E r \in waiting : r.by = c /\ End(r, Raised(r, Foreign("Timeout")))
=============================================================================
