-------------------------------- MODULE Wallet --------------------------------
(***************************************************************************)
(* AgentWallet (src/src/helix_sdk/wallet.py): a key pair, a DID and a list *)
(* of credentials held in memory, mirrored into an encrypted JSON file.    *)
(*                                                                         *)
(* A process holds at most one AgentWallet; its threads share it.  Several *)
(* processes may load and save the same file.  add_credential and save are *)
(* split where another thread, another process, a crash or an I/O error    *)
(* can come between: the duplicate check, the append, the payload taken    *)
(* from memory, the truncation by open(path, "w"), the write, the fields   *)
(* set afterwards, the request that reports CONSENT_GRANTED, its end.      *)
(*                                                                         *)
(* A call that raises before it has changed anything is no step at all;    *)
(* one that raises half-way is an action of its own.                       *)
(***************************************************************************)
EXTENDS Naturals, Sequences

CONSTANTS
    Procs,          \* operating-system processes
    Threads,        \* threads that call the wallet
    ProcOf,         \* the process of each thread
    HasClient,      \* processes whose wallet has a client with the audit API
    Paths,          \* wallet files
    Dids, Keys, Passphrases,
    Vcs,            \* credential ids
    Grants,         \* those of type DelegationGrantCredential
    SubjectOf,      \* credentialSubject.id of each credential
    PartyOf,        \* the (issuer, user) pair a grant is looked up by
    Configs,        \* the constructor arguments in use
    MaxClock,       \* bound: milliseconds the clock advances
    None            \* Python's None

Arguments ==
    [did: Dids \cup {None}, key: Keys \cup {None},
     pass: Passphrases \cup {None}, path: Paths \cup {None}]

ASSUME WalletAssumption ==
    /\ ProcOf \in [Threads -> Procs]
    /\ HasClient \subseteq Procs
    /\ Grants \subseteq Vcs
    /\ SubjectOf \in [Vcs -> Dids]
    /\ Configs \subseteq Arguments
    /\ MaxClock \in Nat
    /\ None \notin Dids \cup Keys \cup Passphrases \cup Paths \cup Vcs \cup Nat

VARIABLES
    live,       \* processes that hold an AgentWallet
    wallet,     \* the AgentWallet of each process
    disk,       \* each file: absent, whole, or left unreadable by a write
    content,    \* what a whole file holds; else what it last held whole
    pc, arg, target, out,   \* each thread: step, credential, file, payload
    clock,      \* the wall clock, in milliseconds
    posted,     \* grants each process's present wallet has reported to the API
    seen,       \* history: files whose last whole content the process wrote or loaded
    failed,     \* history: credentials whose autosave raised, not written since
    hurt        \* history: files whose last write was interrupted or overlapped

store   == <<disk, content, seen, failed, hurt>>
threads == <<pc, arg, target, out>>
vars    == <<live, wallet, store, threads, clock, posted>>

-----------------------------------------------------------------------------
\* WalletCredential, reduced to its id and added_at; type, issuer and subject
\* are functions of the id.
Credential == [vc: Vcs, at: Nat]

Wallets  == [did: Dids \cup {None}, key: Keys \cup {None},
             pass: Passphrases \cup {None}, path: Paths \cup {None},
             created: Nat \cup {None}, creds: Seq(Credential)]
Contents == [did: Dids \cup {None}, key: Keys \cup {None},
             pass: Passphrases \cup {None}, created: Nat \cup {None},
             creds: Seq(Credential)]

Ids(creds) == {creds[i].vc : i \in 1..Len(creds)}

NoWallet  == [did |-> None, key |-> None, pass |-> None, path |-> None,
              created |-> None, creds |-> <<>>]
NoContent == [did |-> None, key |-> None, pass |-> None, created |-> None,
              creds |-> <<>>]

ThreadsOf(p) == {t \in Threads : ProcOf[t] = p}
Quiet(p)     == \A t \in ThreadsOf(p) : pc[t] = "idle"

\* What save insists on: did_value, the key pair and a passphrase.
Savable(w) == w.did # None /\ w.key # None /\ w.pass # None

\* add_credential saves only a wallet that knows its file and its passphrase.
Autosaves(w) == w.path # None /\ w.pass # None

\* Mutant: every save counts as the first.
Payload_NewTime(w) ==
    [did |-> w.did, key |-> w.key, pass |-> w.pass, creds |-> w.creds,
     created |-> clock]

\* The payload: the file is encrypted under the wallet's own passphrase and
\* keeps the creation time of the first save.
Payload(w) ==
    [did |-> w.did, key |-> w.key, pass |-> w.pass, creds |-> w.creds,
     created |-> IF w.created = None THEN clock ELSE w.created]

Init ==
    /\ live = {}
    /\ wallet = [p \in Procs |-> NoWallet]
    /\ disk = [x \in Paths |-> "absent"]
    /\ content = [x \in Paths |-> NoContent]
    /\ pc = [t \in Threads |-> "idle"]
    /\ arg = [t \in Threads |-> None]
    /\ target = [t \in Threads |-> None]
    /\ out = [t \in Threads |-> NoContent]
    /\ clock = 0
    /\ posted = [p \in Procs |-> {}]
    /\ seen = [p \in Procs |-> {}]
    /\ failed = [p \in Procs |-> {}]
    /\ hurt = {}

-----------------------------------------------------------------------------
\* Keys a generated pair can be: one nobody holds, stores or passes in.
FreshKeys == Keys \ (   {wallet[p].key : p \in Procs}
                     \cup {content[x].key : x \in Paths}
                     \cup {c.key : c \in Configs})

\* The process gets a new AgentWallet in place of the one it had.
Hold(p, w) ==
    /\ live' = live \cup {p}
    /\ wallet' = [wallet EXCEPT ![p] = w]
    /\ failed' = [failed EXCEPT ![p] = {}]
    /\ posted' = [posted EXCEPT ![p] = {}]
    /\ UNCHANGED <<disk, content, hurt, threads, clock>>

\* AgentWallet(...): with a client and no private key, a key pair is generated.
New(t) ==
    LET p == ProcOf[t] IN
    /\ Quiet(p)
    /\ \E c \in Configs :
         \E k \in IF c.key = None /\ p \in HasClient THEN FreshKeys ELSE {c.key} :
           Hold(p, [did |-> c.did, key |-> k, pass |-> c.pass, path |-> c.path,
                    created |-> None, creds |-> <<>>])
    /\ seen' = [seen EXCEPT ![p] = {}]

\* Mutant: the stored credentials are not read.
Load_Empty(t) ==
    LET p == ProcOf[t] IN
    /\ Quiet(p)
    /\ \E x \in Paths :
         LET f == content[x] IN
         /\ disk[x] = "whole"
         /\ Hold(p, [did |-> f.did, key |-> f.key, pass |-> f.pass, path |-> x,
                     created |-> f.created, creds |-> <<>>])
         /\ seen' = [seen EXCEPT ![p] = {x}]

\* AgentWallet.load: a file that is absent, torn or under another passphrase
\* raises.
Load(t) ==
    LET p == ProcOf[t] IN
    /\ Quiet(p)
    /\ \E x \in Paths, w \in Passphrases :
         LET f == content[x] IN
         /\ disk[x] = "whole"
         /\ f.pass = w
         /\ Hold(p, [did |-> f.did, key |-> f.key, pass |-> w, path |-> x,
                     created |-> f.created, creds |-> f.creds])
         /\ seen' = [seen EXCEPT ![p] = {x}]

-----------------------------------------------------------------------------
\* Mutants: without the duplicate check; without the subject check.
AddCheck_Again(t) ==
    LET w == wallet[ProcOf[t]] IN
    /\ ProcOf[t] \in live /\ pc[t] = "idle" /\ w.did # None
    /\ \E v \in Vcs : SubjectOf[v] = w.did /\ arg' = [arg EXCEPT ![t] = v]
    /\ pc' = [pc EXCEPT ![t] = "append"]
    /\ UNCHANGED <<live, wallet, store, target, out, clock, posted>>
AddCheck_Anyone(t) ==
    LET w == wallet[ProcOf[t]] IN
    /\ ProcOf[t] \in live /\ pc[t] = "idle" /\ w.did # None
    /\ \E v \in Vcs : v \notin Ids(w.creds) /\ arg' = [arg EXCEPT ![t] = v]
    /\ pc' = [pc EXCEPT ![t] = "append"]
    /\ UNCHANGED <<live, wallet, store, target, out, clock, posted>>

\* add_credential up to its last check: wrong subject and duplicates raise.
AddCheck(t) ==
    LET w == wallet[ProcOf[t]] IN
    /\ ProcOf[t] \in live
    /\ pc[t] = "idle"
    /\ w.did # None
    /\ \E v \in Vcs :
         /\ SubjectOf[v] = w.did
         /\ v \notin Ids(w.creds)
         /\ arg' = [arg EXCEPT ![t] = v]
    /\ pc' = [pc EXCEPT ![t] = "append"]
    /\ UNCHANGED <<live, wallet, store, target, out, clock, posted>>

\* WalletCredential.from_vc.
NewCredential_NoTime(v) == [vc |-> v, at |-> None]          \* mutant
NewCredential(v) == [vc |-> v, at |-> clock]

Added(w, c) == [w EXCEPT !.creds = Append(@, c)]

\* Mutant: the save after the append is forgotten.
AddAppend_NoSave(t) ==
    /\ pc[t] = "append"
    /\ wallet' = [wallet EXCEPT ![ProcOf[t]] = Added(@, NewCredential(arg[t]))]
    /\ pc' = [pc EXCEPT ![t] = "audit"]
    /\ UNCHANGED <<live, store, arg, target, out, clock, posted>>

\* Mutant: the event is sent before the autosave.
AddAppend_AuditFirst(t) ==
    LET p == ProcOf[t] IN
    /\ pc[t] = "append"
    /\ wallet' = [wallet EXCEPT ![p] = Added(@, NewCredential(arg[t]))]
    /\ posted' = IF p \in HasClient /\ arg[t] \in Grants
                   THEN [posted EXCEPT ![p] = @ \cup {arg[t]}] ELSE posted
    /\ IF Autosaves(wallet[p])
         THEN /\ pc' = [pc EXCEPT ![t] = "snapshot"]
              /\ target' = [target EXCEPT ![t] = wallet[p].path]
         ELSE /\ pc' = [pc EXCEPT ![t] = "wait"]
              /\ UNCHANGED target
    /\ UNCHANGED <<live, store, arg, out, clock>>

\* The append, and the choice whether to save.
AddAppend(t) ==
    LET p == ProcOf[t] IN
    /\ pc[t] = "append"
    /\ wallet' = [wallet EXCEPT ![p] = Added(@, NewCredential(arg[t]))]
    /\ IF Autosaves(wallet[p])
         THEN /\ pc' = [pc EXCEPT ![t] = "snapshot"]
              /\ target' = [target EXCEPT ![t] = wallet[p].path]
         ELSE /\ pc' = [pc EXCEPT ![t] = "audit"]
              /\ UNCHANGED target
    /\ UNCHANGED <<live, store, arg, out, clock, posted>>

\* _record_consent_grant: with a client and a grant, the event is sent.  The
\* API records it at once, at any later time, or never: neither the end of the
\* call nor that of the process takes the request back.
Audit(t) ==
    LET p == ProcOf[t] IN
    /\ pc[t] = "audit"
    /\ IF p \in HasClient /\ arg[t] \in Grants
         THEN /\ posted' = [posted EXCEPT ![p] = @ \cup {arg[t]}]
              /\ pc' = [pc EXCEPT ![t] = "wait"]
              /\ UNCHANGED arg
         ELSE /\ pc' = [pc EXCEPT ![t] = "idle"]
              /\ arg' = [arg EXCEPT ![t] = None]
              /\ UNCHANGED posted
    /\ UNCHANGED <<live, wallet, store, target, out, clock>>

\* add_credential returns, the same whether the request was answered, refused,
\* lost or given up.
AuditReturns(t) ==
    /\ pc[t] = "wait"
    /\ pc' = [pc EXCEPT ![t] = "idle"]
    /\ arg' = [arg EXCEPT ![t] = None]
    /\ UNCHANGED <<live, wallet, store, target, out, clock, posted>>

-----------------------------------------------------------------------------
\* save(file_path) called by the application.
SaveCall(t) ==
    /\ ProcOf[t] \in live
    /\ pc[t] = "idle"
    /\ \E x \in Paths : target' = [target EXCEPT ![t] = x]
    /\ pc' = [pc EXCEPT ![t] = "snapshot"]
    /\ UNCHANGED <<live, wallet, store, arg, out, clock, posted>>

\* save raises: an add_credential that called it has appended already.
Raise(t) ==
    /\ pc' = [pc EXCEPT ![t] = "idle"]
    /\ arg' = [arg EXCEPT ![t] = None]
    /\ target' = [target EXCEPT ![t] = None]
    /\ out' = [out EXCEPT ![t] = NoContent]
    /\ failed' = [failed EXCEPT ![ProcOf[t]] = @ \cup ({arg[t]} \ {None})]
    /\ UNCHANGED <<live, wallet, content, seen, clock, posted>>

\* Mutant: the file is opened before the wallet is checked.
SaveRefused_Late(t) ==
    /\ pc[t] = "snapshot"
    /\ ~Savable(wallet[ProcOf[t]])
    /\ disk' = [disk EXCEPT ![target[t]] = "empty"]
    /\ Raise(t)
    /\ UNCHANGED hurt

SaveRefused(t) ==
    /\ pc[t] = "snapshot"
    /\ ~Savable(wallet[ProcOf[t]])
    /\ Raise(t)
    /\ UNCHANGED <<disk, hurt>>

SaveSnapshot(t) ==
    /\ pc[t] = "snapshot"
    /\ Savable(wallet[ProcOf[t]])
    /\ out' = [out EXCEPT ![t] = Payload(wallet[ProcOf[t]])]
    /\ pc' = [pc EXCEPT ![t] = "open"]
    /\ UNCHANGED <<live, wallet, store, arg, target, clock, posted>>

\* write_text opens the file for writing, which empties it.
SaveOpen(t) ==
    /\ pc[t] = "open"
    /\ disk' = [disk EXCEPT ![target[t]] = "empty"]
    /\ pc' = [pc EXCEPT ![t] = "write"]
    /\ UNCHANGED <<live, wallet, content, seen, failed, hurt, arg, target, out,
                   clock, posted>>

\* Mutant: the payload is turned into JSON, and may raise, after the open.
SaveOpenFails_Late(t) ==
    /\ pc[t] = "open"
    /\ disk' = [disk EXCEPT ![target[t]] = "empty"]
    /\ Raise(t)
    /\ UNCHANGED hurt

\* Mutant: add_credential ignores that its save raised.
SaveOpenFails_Swallowed(t) ==
    /\ pc[t] = "open"
    /\ pc' = [pc EXCEPT ![t] = IF arg[t] = None THEN "idle" ELSE "audit"]
    /\ target' = [target EXCEPT ![t] = None]
    /\ out' = [out EXCEPT ![t] = NoContent]
    /\ failed' = [failed EXCEPT ![ProcOf[t]] = @ \cup ({arg[t]} \ {None})]
    /\ UNCHANGED <<live, wallet, disk, content, seen, hurt, arg, clock, posted>>

SaveOpenFails(t) ==
    /\ pc[t] = "open"
    /\ Raise(t)
    /\ UNCHANGED <<disk, hurt>>

SaveWrite(t) ==
    LET p == ProcOf[t]
        x == target[t]
    IN
    /\ pc[t] = "write"
    /\ disk' = [disk EXCEPT ![x] = "whole"]
    /\ content' = [content EXCEPT ![x] = out[t]]
    /\ pc' = [pc EXCEPT ![t] = "finish"]
    /\ seen' = [q \in Procs |-> IF q = p THEN seen[q] \cup {x} ELSE seen[q] \ {x}]
    /\ failed' = [failed EXCEPT ![p] = @ \ Ids(out[t].creds)]
    /\ hurt' = hurt \ {x}
    /\ UNCHANGED <<live, wallet, arg, target, out, clock, posted>>

\* Another writer got in after this one emptied the file: a shorter text laid
\* over a longer one is no JSON, and neither writer is told.
SaveOverlaps(t) ==
    LET x == target[t] IN
    /\ pc[t] = "write"
    /\ disk[x] # "empty"
    /\ disk' = [disk EXCEPT ![x] = "garbled"]
    /\ pc' = [pc EXCEPT ![t] = "finish"]
    /\ seen' = [seen EXCEPT ![ProcOf[t]] = @ \ {x}]
    /\ hurt' = hurt \cup {x}
    /\ UNCHANGED <<live, wallet, content, failed, arg, target, out, clock, posted>>

\* The write raises after none or some of the text.
SaveWriteFails(t) ==
    LET x == target[t] IN
    /\ pc[t] = "write"
    /\ \E left \in {disk[x], "garbled"} : disk' = [disk EXCEPT ![x] = left]
    /\ hurt' = hurt \cup {x}
    /\ Raise(t)

\* The wallet after its payload f was written to file x.
Saved(w, f, x) == [w EXCEPT !.created = f.created, !.path = x]

\* updated_at (never read back), created_at and wallet_path; then save returns.
SaveFinish(t) ==
    /\ pc[t] = "finish"
    /\ wallet' = [wallet EXCEPT ![ProcOf[t]] = Saved(@, out[t], target[t])]
    /\ pc' = [pc EXCEPT ![t] = IF arg[t] = None THEN "idle" ELSE "audit"]
    /\ target' = [target EXCEPT ![t] = None]
    /\ out' = [out EXCEPT ![t] = NoContent]
    /\ UNCHANGED <<live, store, arg, clock, posted>>

-----------------------------------------------------------------------------
\* The process ends, at any point.  (A crash inside the write that leaves part
\* of the text is SaveWriteFails followed by this.)
Crash(p) ==
    /\ p \in live
    /\ live' = live \ {p}
    /\ wallet' = [wallet EXCEPT ![p] = NoWallet]
    /\ pc' = [t \in Threads |-> IF ProcOf[t] = p THEN "idle" ELSE pc[t]]
    /\ arg' = [t \in Threads |-> IF ProcOf[t] = p THEN None ELSE arg[t]]
    /\ target' = [t \in Threads |-> IF ProcOf[t] = p THEN None ELSE target[t]]
    /\ out' = [t \in Threads |-> IF ProcOf[t] = p THEN NoContent ELSE out[t]]
    /\ seen' = [seen EXCEPT ![p] = {}]
    /\ failed' = [failed EXCEPT ![p] = {}]
    /\ hurt' = hurt \cup {target[t] : t \in {u \in ThreadsOf(p) : pc[u] = "write"}}
    /\ posted' = [posted EXCEPT ![p] = {}]
    /\ UNCHANGED <<disk, content, clock>>

Tick ==
    /\ clock < MaxClock
    /\ clock' = clock + 1
    /\ UNCHANGED <<live, wallet, store, threads, posted>>

Next ==
    \/ \E t \in Threads :
         \/ New(t) \/ Load(t)
         \/ AddCheck(t) \/ AddAppend(t) \/ Audit(t) \/ AuditReturns(t)
         \/ SaveCall(t) \/ SaveRefused(t) \/ SaveSnapshot(t)
         \/ SaveOpen(t) \/ SaveOpenFails(t)
         \/ SaveWrite(t) \/ SaveOverlaps(t) \/ SaveWriteFails(t)
         \/ SaveFinish(t)
    \/ \E p \in Procs : Crash(p)
    \/ Tick

Spec == Init /\ [][Next]_vars

-----------------------------------------------------------------------------
\* select_grant and get_latest_credential: max over added_at, and Python's max
\* keeps the first of equals.
Latest(creds, S) ==
    LET C == {i \in 1..Len(creds) : creds[i].vc \in S} IN
    IF C = {} THEN None
    ELSE CHOOSE i \in C : \A j \in C : \/ creds[j].at < creds[i].at
                                       \/ creds[j].at = creds[i].at /\ i <= j

SelectGrant(w, party) == Latest(w.creds, {v \in Grants : PartyOf[v] = party})

-----------------------------------------------------------------------------
\* Every variable has its type.
TypeOK ==
    /\ live \subseteq Procs
    /\ wallet \in [Procs -> Wallets]
    /\ disk \in [Paths -> {"absent", "empty", "garbled", "whole"}]
    /\ content \in [Paths -> Contents]
    /\ pc \in [Threads -> {"idle", "append", "snapshot", "open", "write",
                           "finish", "audit", "wait"}]
    /\ arg \in [Threads -> Vcs \cup {None}]
    /\ target \in [Threads -> Paths \cup {None}]
    /\ out \in [Threads -> Contents]
    /\ clock \in Nat
    /\ posted \in [Procs -> SUBSET Vcs]
    /\ seen \in [Procs -> SUBSET Paths]
    /\ failed \in [Procs -> SUBSET Vcs]
    /\ hurt \subseteq Paths

OwnedBy(did, creds) == \A i \in 1..Len(creds) : SubjectOf[creds[i].vc] = did

NoRepeats(creds) ==
    \A i, j \in 1..Len(creds) : creds[i].vc = creds[j].vc => i = j

\* A wallet, and a file, holds only credentials of its own DID, whoever shares
\* the wallet or the file and whatever failed on the way (add_credential's
\* subject check, save, load).
OwnCredentialsOnly ==
    /\ \A p \in Procs : OwnedBy(wallet[p].did, wallet[p].creds)
    /\ \A x \in Paths : OwnedBy(content[x].did, content[x].creds)

\* No credential is twice in a wallet or a file: not after a save that raised
\* and a retry, nor after a reload.  Needs threads that do not share a wallet.
NoDuplicates ==
    /\ \A p \in Procs : NoRepeats(wallet[p].creds)
    /\ \A x \in Paths : NoRepeats(content[x].creds)

Covers(w, f) ==
    /\ f.did = w.did
    /\ f.key = w.key
    /\ f.pass = w.pass
    /\ w.created \in {None, f.created}
    /\ Len(f.creds) <= Len(w.creds)
    /\ \A i \in 1..Len(f.creds) : f.creds[i] = w.creds[i]

\* No lost update, by the last process that loaded or wrote a file: its wallet
\* has the key, the creation time and every credential, in order, of the file's
\* last whole content, even when a later write (its own or another's) tore the file.  So
\* a save of that process drops nothing, and repairs a torn file.
LastWriterLosesNothing ==
    \A p \in live : \A x \in seen[p] : Covers(wallet[p], content[x])

\* When no call is under way, an autosaving wallet nobody overwrote has on
\* disk what it has in memory, save the credentials whose add_credential
\* raised in save: those stay in memory only, until a later save succeeds.
MemoryMirrorsFile ==
    \A p \in live :
      Quiet(p) /\ Autosaves(wallet[p]) /\ wallet[p].path \in seen[p] =>
        Ids(wallet[p].creds) = Ids(content[wallet[p].path].creds) \cup failed[p]

\* A file is unreadable only while some save is between its truncation and its
\* write, or after one that was cut short there, failed there, or was
\* overlapped: never because save refused a wallet or could not open the file.
TornOnlyByWriter ==
    \A x \in Paths : disk[x] \in {"empty", "garbled"} =>
      x \in hurt \/ \E t \in Threads : pc[t] = "write" /\ target[t] = x

\* CONSENT_GRANTED is sent only for a grant that the wallet holds and, if the
\* wallet autosaves and nobody overwrote its file, has on disk; and so it stays
\* while the process keeps this wallet, so that an event the API serves late is
\* still of a stored grant.  An event served after the process ended or took
\* another wallet is of a grant that was stored when it was sent, no more.
ReportedGrantsStored ==
    \A p \in live : \A v \in posted[p] :
      /\ v \in Grants /\ p \in HasClient
      /\ v \in Ids(wallet[p].creds)
      /\ Autosaves(wallet[p]) /\ wallet[p].path \in seen[p] =>
           v \in Ids(content[wallet[p].path].creds)

\* wallet.py:277: "Selects the most recent DelegationGrantCredential".
SelectsMostRecentGrant ==
    \A p \in live, v \in Grants :
      LET mine == {i \in 1..Len(wallet[p].creds) :
                     /\ wallet[p].creds[i].vc \in Grants
                     /\ PartyOf[wallet[p].creds[i].vc] = PartyOf[v]}
      IN mine # {} => \A j \in mine : j <= SelectGrant(wallet[p], PartyOf[v])

\* errors.py:262: "Wallet file already exists. Use AgentWallet.load() to load
\* an existing wallet." -- save never empties a file that its wallet was not loaded
\* from or saved to.
ExistingFileKept ==
    [][\A x \in Paths : disk[x] = "whole" /\ disk'[x] # "whole" =>
         \E p \in live : x \in seen[p]]_vars
=============================================================================
