# helix-sdk-py in TLA+

Models, model-checking runs and machine-checked proofs for the Python SDK of
HelixID in `src/`. The code is the reference: each definition that models code
is mapped to its lines in `PROJECT.json`.

## 1. The system

The SDK has four packages. `helix_sdk` has the client of the API, the wallet,
the presentation builder and the tokens; `helix_langchain`, `helix_crewai` and
`helix_mcp_middleware` use it inside agent frameworks.

| component | state | operations | what is hard | what makes it correct |
|---|---|---|---|---|
| **AgentWallet** `wallet.py` | key pair, DID, passphrase, path, credentials; an encrypted JSON file | constructor, `load`, `save`, `add_credential`, `select_grant` | a file written in place; autosave after the append; threads and processes that share a wallet or a file; I/O errors; crashes | only own credentials, none twice, nothing lost that the writer had, memory and file agree, what it reports to the audit log is stored |
| **Tool VP** `tool_vp.py`, `helix_langchain/middleware.py`, `helix_crewai/middleware.py` | a `ContextVar` with the VP of the tool call in progress | wrapped `_run`, `helix_vp_context`, `current_helix_vp_headers` | nesting, exceptions, pooled workers, tasks that copy the context | a request carries its own call's VP, and nothing stays behind |
| **SessionManager** `session_manager.py` | secret, ttl; tokens are held by the agents | `issue`, `verify` | whole seconds, skewed clocks, restarts with another configuration | how long a token stands in for a verified VP |
| **VP transport, MCP middleware** `vp_transport.py`, `verify.py`, `scope.py`, `helix_mcp_middleware/` | none | `attach_helix_vp`, the middleware | which of two places a VP is read from, and what is no VP; revocation between verification and use | no handler runs without a VP that was in order when the API looked at it |
| **Scope filters** `scope_filter.py` of both adapters | the filtered list | `filter_tools_by_scope` | the list goes stale | a tool that was offered is not refused for its scopes while nothing changed |
| **HelixClient** `client.py` | mode, credentials of the caller | 25 methods that call the API | a call whose answer is lost may have acted, or may act later | what a caller may conclude from how a call ended |
| **HttpAdapter, errors** `http_adapter.py`, `errors.py`, `codes.py` | none | `_request`, `map_api_error` | timeouts, answers without JSON, gateways, aliases of codes | each answer becomes one result or one exception, which says the truth |
| **VPBuilder, proofs** `vp_builder.py`, `proof.py`, `vp_crypto.py` | the credentials to present, shared with the caller | `__post_init__`, `sign`, `verify_ed25519_proof` | the list is checked earlier than it is signed, and sent later | a proof verifies what was signed, and nothing else |
| **Keys, DIDs** `keys.py`, `did.py` | none | key formats, base58, multibase, DID documents | carries, leading zeroes, the multibase letter | the verifier gets the signer's key |
| **Example programs** `examples/` | local variables | `main` of two scripts | other callers and failures between their steps | what they report is true, and they end |
| **JWT, session bridge** `jwt.py`, `client.py` | the API's public key, fetched once | `verify_jwt`, `fetch_session_public_key` | key rotation | see section 6 |

They interact in three ways. Agent side: a wrapped tool asks `HelixClient.sign_vp`
for a VP, `tool_vp` keeps it for the call, and the request takes it to a service
(HTTP header or MCP `_meta`). Service side: the middleware asks
`HelixClient.verify_vp` and checks scopes; a verifier may then give out a
session token. The wallet calls the client for one thing, the `CONSENT_GRANTED`
event after it has stored a grant. Everything that reaches the API goes through
`HttpAdapter`, one synchronous request at a time, from callers in threads and
processes that know nothing of each other.

`PROJECT.json` lists the hazards, each at its line, with the properties that
cover it or the reason why none does.

## 2. Modules

| module | models | proofs |
|---|---|---|
| `Wallet` | `AgentWallet`, several processes and threads, files, faults | `WalletProofs` |
| `ToolVP` | the tool call's VP over tasks and contexts | `ToolVPProofs` |
| `Session` | `SessionManager` over hosts, clocks and restarts | `SessionProofs` |
| `AccessControl` | abstract: what verifying a tool call promises | |
| `Presentation` | a tool call through the MCP middleware, scope filters, API; implements `AccessControl` | `PresentationProofs` |
| `Errors` | the exception classes and `map_api_error` | `ClientProofs` |
| `Http` (extends `Errors`) | one call: request, answer, timeout, what the caller gets | `ClientProofs` |
| `Client` (extends `Http`) | the methods of `HelixClient`, and the API behind them | `ClientProofs`, `ClientApiProofs` |
| `Demos` (extends `Client`) | the example programs on top of it | `DemosProofs` |
| `Base58` | base58 and multibase | `VPBuilderProofs` |
| `VPBuilder` (extends `Base58`) | the builder, proofs and DID documents | `VPBuilderProofs` |
| `MCWallet`, `MCToolVP`, ... | values for TLC | |

A definition named `X_Something` in a component's module is a mutant of `X`: the
way a plausible bug would change it. No specification uses one; each property
is tested against at least one of them.

### 2.1 Wallet

*State.* `live` and `wallet` are the processes and the `AgentWallet` that each
holds; `disk` says of each file whether it is absent, whole, emptied by
`open(path, "w")` or garbled, and `content` what it last held whole. `pc`, `arg`,
`target` and `out` are a thread's place inside `add_credential` or `save`, its
credential, the file and the payload. `posted` is what each process has reported to the API since
it took its present wallet. `seen`, `failed` and `hurt` are history for the properties.

*Actions.* Where another thread, another process, a crash or an error can come
between two effects of a method, the method is cut:

    add_credential = AddCheck (240-248), AddAppend (249-251), save, Audit (252-272), AuditReturns (261-274)
    save           = SaveRefused | SaveSnapshot (186-206), SaveOpen | SaveOpenFails,
                     SaveWrite | SaveOverlaps | SaveWriteFails (207), SaveFinish (208-210)

`New` and `Load` are the constructor and `load`, `SaveCall` a `save` by the
application, `Crash` the end of a process at any point, `Tick` the clock. A call
that raises before it changed anything is no step. `Audit` only sends the event and
`AuditReturns` is the end of its request, with an answer or without: when the API records the
event, after the caller's timeout or the process's end perhaps, the wallet does not
learn, and `Http` models it.

*Abstractions.* The cipher is reduced to the passphrase a file was written with:
`load` succeeds with that one only. A credential is its id and `added_at`; its
subject, type and issuer are functions of the id. `updated_at` is never used by
the program and is left out. `load` reads the file in one step: the window in
which it could read a text being written is that in which `disk` is `empty` or
`garbled`, where it raises. A text written over by another one is either whole
or garbled. Attributes that an application assigns by hand are not modelled.

### 2.2 ToolVP

*State.* `header` is the `ContextVar` in each task's context. A task is a thread, a
pool worker or an asyncio task. `calls` is the stack of wrapped calls that it is
in, each with its VP and the token that `reset` restores; `signing` is set while
`sign_vp` is under way. `entry`, the value of the variable when the task started,
and `sent`, the requests, are history.

*Actions.* `CallTool`, then `EnterTool` or `SignFails`, are the first lines of
`_run` in both adapters; `Send` is a request with `current_helix_vp_headers()`;
`LeaveTool` is the end of the `with` block, by a return or an exception. `StartThread`,
`StartCopy` and `End` are Python's: an empty context, a copy, the end.

*Assumption.* The API never signs the same VP twice (`vp_builder` and the server
use a random id and nonce).

### 2.3 Session

*State.* The true time in milliseconds, the error of each host's clock, each
manager's secret and ttl, the tokens and what `verify` said of them. The scopes
and the chain are one value, of a form that `verify` asserts (`Verifiable`) or not.

*Actions.* `Configure` is a start or restart with `__post_init__`'s checks, `Issue` and
`Verify` are the methods, `Adjust` sets a clock forward or back, `Tick` lets time
pass. `jti` is never looked at and is left out. Tokens that no manager issued are
not modelled.

### 2.4 Presentation and AccessControl

*State.* `active` and `revoked` credentials, the presentations signed so far (`vps`), the
tool that is called with what stands in `_meta` and in the header, and where in the
middleware the call is (`call`); the list that a scope filter left (`offered`). A place
holds a presentation, nothing, what cannot be decoded (`Junk`) or the empty object
(`Empty`), which the decoder accepts and `or` and `not vp` take for nothing.

*Actions.* `Filter` is `filter_tools_by_scope` on `get_agent_scopes`, `SignVp` and
`BuildVp` make presentations, `CallTool` attaches them, again and again if it likes.
The middleware is `ReadVp` (29-31), `VerifyVp` or `VerifyFails` (33-38, the call of the API),
`Conclude` (40-47): other actions come between, because the API call takes time.
`VerifyBlank` is the successful answer without JSON, of which the adapter makes `{}`
(`http_adapter.py:71-77`): it leaves `valid` unset, and `Conclude` raises
`VP_VERIFICATION_FAILED` for it, whatever the VP is. `Issue` and `Revoke` are the API's.

*Refinement.* `AccessControl` knows a call only by its tool, the presentation that counts
and its verdict. It says: a call is decided at one instant after its arrival, by the
credentials that are active then, and runs only if it was allowed. The mapping `Seen`
takes the presentation in `_meta`, or else that in the header, and reads the verdict off
the stage: the API's answer is the instant. A call that is not decided fails: its request
raised, or the answer was blank. So `denied` does mean that the VP was not in order, but the
caller cannot tell: a blank answer ends in the very error of an invalid VP. The refinement
breaks when the code looks in the wrong place first, takes a blank answer for a good one, or
lets a handler run for anything else than that answer.

*Abstractions.* The API's answer is the credentials' state, the target service, the
self-signed ones and the scopes; signature, expiry and delegation chain are its business.
An exception of the API for an invalid presentation ends like `valid: false`.

### 2.5 Errors, Http and Client

*Errors* has every exception class as a code with its status, the codes that the table of
`map_api_error` lacks, and the aliases of older servers.

*Http.* A request is a record with the number of its call, its caller, method and
argument. `waiting` has those whose callers wait, `pending` those that the API has not served,
`reply` the answers on their way; `ended` is how every call ended, and `done` which requests had
their effect. These two are history for the properties, and what callers know.
A request that is never served is lost; one that is served after its caller timed
out is late; an answer may be without JSON, or be replaced by a gateway's 502. The adapter
sends nothing twice. `Call` is `_http_required`, `Interpret` the end of `_request` with the
caller's subscript, `Surface` the `except` of the audit method.

*Client.* One action per method, with the arguments that matter. The API is external: it
is modelled from what the methods' docstrings and the callers rely on (single use of
tokens, idempotent registration, one delegation per scope set, `revoke_existing`, live
status), and nondeterministic where they say nothing (a cached DID document may be old, a
renewal may revoke its original or not).

### 2.6 Demos

Each example program is the list of its calls (`Script`), composed with `Client`: `MakeCall`,
`Continue` with the answer, `Mint` for the enrollment token, which it gets without the
client. A demo ends `done` (exit 0), `surprised` (exit 1) or with a `traceback`. An operator
(`Others`) makes any call of his own in between: revoking or renewing the demo's credential,
granting it another one. The delegation demo's exit without an admin key comes before its
first call and is left out. The assumptions of the module say what the programs fix: the delegation demo has an
admin key, the verification demo's agent is minted without `write` and nobody grants it that, the sub-agent has no
delegation depth, and a refused delegation has one of the four codes.

### 2.7 Base58 and VPBuilder

*Base58* computes what `keys.py` and `vp_crypto.py` compute. Each digit loop is a recursive function of
its round (`Spill`, `Carries`, `Digits`), so that TLC evaluates it and the prover can reason about it.

*VPBuilder.* `creds` is the list that the application gave to the builder and may still
change (`Edit`). `MakeBuilder` is `__post_init__`, with any `holder_did`; `Sign` is `sign` with any key in any of
its forms, and the holder is the builder's (`vp_builder.py:58,86`): nothing ties the two, and the model has two
holders with one key and one holder with two. `ed` has what Ed25519 signed: a signature is good for the message
and key it was made for. The properties verify every proof with each key, as a verifier extracts it from a DID
document that has it, over the list as it is now. Which document a verifier resolves is the verifier's business.

## 3. Runs

| run | instance | shows |
|---|---|---|
| `wallet_one` | 1 process, 2 files, 2 credentials, every kind of constructor argument, 2 instants | type invariant; own credentials only; no duplicates; the last writer of a file has all it held, and its creation time; memory and file agree when no call is under way; a file is unreadable only by an interrupted write; a grant that was reported is held, and stored if the wallet autosaves |
| `wallet_two` | 2 processes, 1 file, 2 credentials | the same, where the processes overwrite each other and overlap |
| `wallet_select` | 1 process, 2 grants, 2 instants | **violated**: `select_grant` returns the most recent grant |
| `wallet_overwrite` | 1 process, 1 file | **violated**: an existing file is not overwritten |
| `tool_copies` | 2 threads, 1 copying task, 3 VPs, nesting 2 | own VP in every request; variable restored; no VP shared but by copy |
| `tool_outlives` | 1 thread, 1 copying task | **violated**: empty outside a wrapped call |
| `session_skew` | 2 managers, 2 secrets, ttl 1 and 2 s, clocks off by 0.3 s, 2.4 s, 1 token, 2 decisions | the bounds on a session's life, and on how managers can disagree |
| `session_usable` | 1 manager, 1 secret | **violated**: a token is usable until it expires |
| `presentation` | 2 tools of 2 services, 3 credentials, 1 self-signed, 2 presentations, 1 call | refinement of `AccessControl`; nothing revoked before the call runs, with the API answering, failing or blank; what the filter offers is not refused while nothing changed |
| `client` | 1 client of the hosted API, 1 without an API, 12 methods, 3 calls | outcomes are honest; credentials are sent; revocations are seen; keys are fresh; after `revoke_existing` nothing active between the two has other scopes; every call ends |
| `demos` | either demo, 1 operator with 1 call of 18 methods | no unexpected success; what is reported is true; a refusal is recognised by each of four codes; only the token can hang a demo |
| `vp_builder` | lists of up to 2 of 4 kinds of credential, 2 holders, 2 keys, 2 services, 3 signatures, 2 presentations | proofs verify exactly what was signed, and are not interchangeable; what is checked is signed |

*Bounds.* `Wallet`: the sets are its only bounds, with `MaxClock`. Two files let
`save` move a wallet; two processes are enough for each of them to be the one
overwritten. A third key is what generation returns. `createdAt` and `added_at` are all
that depends on the clock, so that two instants show it.
`ToolVP`: depth 2 with 3 VPs gives an outer call, an inner one and one of another
task. `MaxDepth` and the finite set of VPs are the bounds; the states in which
all VPs are signed still have steps. `Session`: `MaxTime` covers the longest ttl
and both skews; one token and two decisions are what each property speaks of.
`MaxTokens`, `MaxDecisions` and `MaxTime` are the bounds.
`Presentation`: `MaxVps` is the bound; two presentations fill `_meta` and header with
different ones, and one call is enough since calls share nothing but the credentials. One tool's middleware
has the default options, which require no scope: nothing but `valid` keeps its handler from running. That
tool's name is a scope, by which the filter offers it too.
`Client`: `MaxCalls` is the bound; three calls of one caller are a first attempt, its retry and
a third that sees the outcome of both, with late requests in any order. `Methods` selects what an
instance calls: `client` and `demos` together call every method. `Demos`: `MaxOthers` is the bound for the
operator. `VPBuilder`: `MaxList` and `MaxVps`; two credentials are the least in which one can hide the
other from the check, and two presentations are what a proof could be passed between; signatures of two bytes are enough for each
irregularity of base58 (a leading zero byte, a text that begins with `z` or with `zz`, a carry).

*Symmetry.* `tool_copies` permutes the two threads and the VPs, `session_skew` managers; both
runs check invariants only.

*Deadlock* is checked in the runs of `Wallet`, `ToolVP` and `Session`, which never stop: a process,
a thread or a manager can always start anew. The others say `CHECK_DEADLOCK FALSE`: a
program ends, and the bounds on calls and presentations leave it with nothing to do.

*Fairness.* The SDK runs when its caller does, so most modules assume none. `Client`
assumes weak fairness of `Timeout`: `http_adapter.py:31,67-69` passes `timeout=30.0` to every request, and
nothing else bounds a call, since an API may never answer (with `requests` the timeout is for
the connection and each read; an API that sends byte after byte for ever is left out). `Demos` adds weak
fairness of each demo's own steps, as the programs run on once a call has ended. Neither
assumes that a request or an answer arrives. The enrollment token has no fairness:
`urlopen` is called without a timeout, which `HangsOnlyOnToken` names as the only way to hang.

## 4. What the violated runs say

- `select_grant` is documented to select the most recent grant (`wallet.py:277`).
  `added_at` has milliseconds and `max` keeps the first of equals, so of two grants
  added within one the older is returned.
- `WalletAlreadyExistsError` says that an existing file is to be loaded
  (`errors.py:262`), but nothing raises it: `save` of a new wallet replaces the file
  of another one, its private key included.
- `current_helix_vp_headers` is documented to be empty outside a wrapped call
  (`tool_vp.py:57-58`). In a task started by the tool with a copy of its context it
  still returns the VP after the call.
- `SessionManager` tokens are documented to be used until they expire
  (`session_manager.py:12-14`). `issue` signs what `verify` refuses, for one a chain of
  `asdict(DelegationLink(...))`, whose keys are in snake case.

## 5. Proofs

Each theorem holds for every value of the constants that the modules' assumptions allow. Where an
assumption is more than typing, the paragraph of its module says so.

**WalletProofs.** `WalletTypeOK`, `WalletTornOnlyByWriter` and
`WalletOwnCredentialsOnly` hold without restriction. The other four assume
`Exclusive`, that no two threads use the wallet of one process: without it two
threads both pass the duplicate check, and the code has no lock. The invariants
say what a call in progress has:

- `TypeInv` adds to `TypeOK` which of `arg`, `target` and `out` are set at each step.
- `OwnInv` adds that the payload and the credential under way belong to the wallet's DID.
- `NoDupInv` adds that a credential between its check and its append is not in the wallet.
- `LastInv` adds that the payload on its way to a file covers, and is covered by, the
  writer's wallet.
- `MirrorInv` relates memory, payload and file at every step of a call;
  `MemoryMirrorsFile` is what it says when the call is over.

`WalletReportedGrantsStored` is inductive beside `MirrorInv` and `LastInv`: the first gives what
memory and file hold when the event is sent, the second that a later write or load of the same
wallet's file keeps it (`Keeps`). It ends with the wallet: of an event that the API serves after the
process took another wallet or ended, it says only that the grant was stored when it was sent.

**ToolVPProofs.** `RestoredAfterCalls` and `SendsOwnVP` speak of the bottom and the
top of a stack, and leaving a call restores what its token says: the invariant
`StackInv` therefore says what every token is. `FreshInv`, that no two tasks' calls
have a VP in common, gives `NoSharedVP`. `EmptyOutsideCalls` is proved for the case
that no task copies a context, and `tool_outlives` shows that the case is needed.

**SessionProofs.** Assumed: clocks are wrong by at most `MaxSkew`. `TokenInv` bounds a token's `exp` by the end of its ttl and
`DecisionInv` the time of each decision by `exp`, both within the skew; the three
theorems add them up. The rounding is one lemma, `WholeSeconds`.

**PresentationProofs.** The invariant `CallInv` says of each stage of a call what is known there: what was
read is what counts, and what was judged valid was in order, invalid was not, and a blank answer is neither. A step then maps to one step of
`AccessControl`, by stage (`SeenTurn`), or to a stutter (`SeenStutter`), which gives the refinement
`PresentationImplementsAccessControl`; `RevokedNeverRuns` follows from the same invariant. `OfferedNotDenied` needs
`OfferInv`: until a credential changes, what is offered is what one active credential allows, and every
presentation that the API signs carries all of them; a call keeps what was so when it was made
(`TrustInv`). Assumed: the constants have their types, and `None`, `Junk` and `Empty` are not presentations.

**ClientProofs.** `OutcomeHonest` speaks of calls that are over, so the invariant `HonestInv` has to
say the same of answers on their way (`Truthful`), and that a number belongs to one request among all
that anybody still knows of (`NumbersInv`): otherwise serving one request could make another one done.
That the status of every exception class is a failure's (`ClassesFail`) is proved group by group. What the
API does with its data plays no part: `ServeEnds` says that each operation ends in `Done` or
`Refused`. No constant is assumed to be anything.

**ClientApiProofs.** The other invariants of `Client` follow the API's data. `ApiInv` adds to `HonestInv` what a
request asks for (`WellMade`: its client's credential, a key of its own, no more in its history than has
happened), what one that was served has left (`Effective`: a revocation stays, a delegation stays exact until
another request changes a credential), and what answers may say (`Plausible` codes, `BodyTrue`). Each
operation of the API has a lemma (`ServedOnce`, ..., `ServedGrant`) that it refuses and changes nothing, or is
done and only adds to the data (`Grows`); what is true of requests is kept by whatever grows (`WellMadeKept`,
`EffectiveKept`, `BodyTrueKept`). `WaitInv` completes the type invariant. Assumed: `None` is none of the codes and
answers, a delegation is not refused for want of a credential, and the agents of the beginning form a sequence.

**DemosProofs.** The three safety properties of the example programs, whoever else calls the API, how often, and
whatever becomes of the requests. The proofs reuse the inductive invariants of `Client` (`ApiInv`, `WaitInv`): each
step of a demo is a legal call (`DemoCall`), and the network's and the API's steps are those of `Client`. Four
invariants are added. `FactsInv` says what any request may ask for and any answer tell: no credential is the
sub-agent's gift (`Credible`), a further delegation of its is never done, an error of the API has a status and, for
such a delegation, one of the two codes that the demo knows (`Telling`, from the aliases of `map_api_error`).
`ControlInv` and `VerifyInv`, `DelegationInv` tie every request of a demo to the step that made it (`OfStep`) and
what it has got to the steps behind it (`Went`). `CoversInv` is what the verification demo needs that is easily
missed: its presentation has its credential in it, *or* somebody else had revoked that credential before, in which
case the demo's own revocation is never done. Without the second case the invariant is false; with it, the demo's
last call knows of a revocation that its presentation contains, and `RevocationSeen`'s argument refuses it.
`Apart` has what a step of anybody else leaves to a demo.

**VPBuilderProofs.** First the arithmetic of `Base58`. The library's induction theorems cannot be used with these
provers, so induction is argued from the least number of a set (`WFMin`), once for each recursive function.
Carrying keeps the value that the digits write (Horner's rule) and every digit below the base; a number has one
numeral without leading zeroes; the zeroes in front are kept apart and counted. Together: what `Convert` writes,
`Convert` back reads (`ConvertRoundTrip`), hence `Base58RoundTrip` for every byte string that is not all zeroes (the
code writes one more `1` for such a string, and the statement leaves it out; a multibase key begins with the
multicodec, so `MultibaseRoundTrip` has no exception). `BuilderInv` then says that each presentation carries the
text of a signature that was made with its signer's key for its payload, that no two signatures share their bytes,
and that a list which counts as checked is well formed; `VPBuilderInvariant` proves it inductive, and the three
properties follow. Assumed: a public key is bytes and determines its seed (`KeyAssumption`); a signature is bytes,
not all zero, and no signature's text is another's after a letter `z` (`SignatureAssumption`, for 64 bytes that
look random: `verify_ed25519_proof` tries a text with and without its `z`).

*Model-checked only.* Liveness (`CallsEnd`, `HangsOnlyOnToken`): the prover has neither fairness nor `ENABLED`.
`SelectGrant` is a pure function whose documented promise fails (`wallet_select`). Every safety invariant, action
property and refinement of a passing run is proved.

## 6. Not modelled

- `verify_jwt` and `verify_session_token`: no method of this SDK obtains a session token (`verify_vp` has no
  session option), so the protocol around the key is not in the code. `exp <= now` is the
  test that `Session` models.
- Wallet clocks that are set back: `added_at` orders grants for `select_grant` and `get_latest_credential`
  only, and `wallet_select` shows that the order fails without it.
- Two threads on one wallet: both can pass the duplicate check (`wallet.py:247`), and one can save a payload
  that lags behind the other's append (`wallet.py:195`). The actions have these steps, but no property
  claims anything of them, and the properties of section 3 are checked for one thread to a wallet.
- A list with one credential of both types and one of neither passes the check of
  `vp_builder.py:68`, as the first is counted twice. `SignedAsChecked` names this exception.
- Ed25519, SHA-256, AES-GCM, PBKDF2, JSON and base64 themselves (libraries); their use is modelled by
  what it does.
- Package exports, record types, logging, messages of exceptions, the print-out of the demos, and the
  LangChain callback handler, which attaches nothing.
- The API's own implementation: signatures, expiry, chains and the ledger are behind its answers.
