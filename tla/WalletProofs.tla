----------------------------- MODULE WalletProofs -----------------------------
(* Theorems of Wallet, for any number of processes, threads, files and       *)
(* credentials.                                                              *)
EXTENDS Wallet, TLAPS

-----------------------------------------------------------------------------
\* The records add_credential and save leave behind.
LEMMA AddedFacts ==
  ASSUME NEW w \in Wallets, NEW c \in Credential
  PROVE  /\ Added(w, c) \in Wallets
         /\ Added(w, c).did = w.did
         /\ Added(w, c).key = w.key
         /\ Added(w, c).pass = w.pass
         /\ Added(w, c).path = w.path
         /\ Added(w, c).created = w.created
         /\ Added(w, c).creds = Append(w.creds, c)
  BY DEF Added, Wallets

\* save's fields after the write: the creation time of the payload, the path,
\* and nothing else.
LEMMA SavedFacts ==
  ASSUME NEW w \in Wallets, NEW f \in Contents, NEW x \in Paths
  PROVE  /\ Saved(w, f, x) \in Wallets
         /\ Saved(w, f, x).did = w.did
         /\ Saved(w, f, x).key = w.key
         /\ Saved(w, f, x).pass = w.pass
         /\ Saved(w, f, x).path = x
         /\ Saved(w, f, x).created = f.created
         /\ Saved(w, f, x).creds = w.creds
  BY DEF Saved, Wallets, Contents

-----------------------------------------------------------------------------
\* Where a call stands says whose wallet, credential and file it works on.
InCall ==
    \A t \in Threads :
      /\ pc[t] # "idle" => ProcOf[t] \in live
      /\ pc[t] \in {"append", "audit", "wait"} => arg[t] \in Vcs
      /\ pc[t] \in {"snapshot", "open", "write", "finish"} => target[t] \in Paths

TypeInv == TypeOK /\ InCall

\* The initial state is well typed.
LEMMA InitType == Init => TypeInv
  BY WalletAssumption
  DEF Init, TypeInv, TypeOK, InCall, NoWallet, NoContent, Wallets, Contents,
      Credential

\* Every step of every call keeps the types: one step per action.
LEMMA NextType == TypeInv /\ [Next]_vars => TypeInv'
<1> SUFFICES ASSUME TypeInv, [Next]_vars PROVE TypeInv'
  OBVIOUS
<1> USE WalletAssumption DEF TypeInv, threads, store
<1>a. NoWallet \in Wallets /\ NoContent \in Contents
  BY DEF NoWallet, NoContent, Wallets, Contents
<1>1. ASSUME NEW t \in Threads, New(t) PROVE TypeInv'
  <2>1. PICK c \in Configs, k \in Keys \cup {None} :
          Hold(ProcOf[t], [did |-> c.did, key |-> k, pass |-> c.pass,
                           path |-> c.path, created |-> None, creds |-> <<>>])
    BY <1>1 DEF New, FreshKeys, Arguments
  <2>2. [did |-> c.did, key |-> k, pass |-> c.pass, path |-> c.path,
         created |-> None, creds |-> <<>>] \in Wallets
    BY DEF Wallets, Arguments
  <2>3. TypeOK'
    BY <1>1, <2>1, <2>2 DEF TypeOK, New, Hold
  <2>4. InCall'
    BY <1>1, <2>1 DEF InCall, New, Hold
  <2> QED
    BY <2>3, <2>4
<1>2. ASSUME NEW t \in Threads, Load(t) PROVE TypeInv'
  <2>1. PICK x \in Paths, w \in Passphrases :
          /\ Hold(ProcOf[t], [did |-> content[x].did, key |-> content[x].key,
                              pass |-> w, path |-> x,
                              created |-> content[x].created,
                              creds |-> content[x].creds])
          /\ seen' = [seen EXCEPT ![ProcOf[t]] = {x}]
    BY <1>2 DEF Load
  <2>2. [did |-> content[x].did, key |-> content[x].key, pass |-> w, path |-> x,
         created |-> content[x].created, creds |-> content[x].creds] \in Wallets
    BY DEF TypeOK, Wallets, Contents
  <2>3. TypeOK'
    BY <2>1, <2>2 DEF TypeOK, Hold
  <2>4. InCall'
    BY <2>1 DEF InCall, Hold
  <2> QED
    BY <2>3, <2>4
<1>3. ASSUME NEW t \in Threads, AddCheck(t) PROVE TypeInv'
  <2>3. TypeOK'
    BY <1>3, <1>a DEF TypeOK, InCall, AddCheck
  <2>4. InCall'
    BY <1>3 DEF TypeOK, InCall, AddCheck
  <2> QED
    BY <2>3, <2>4
<1>4. ASSUME NEW t \in Threads, AddAppend(t) PROVE TypeInv'
  <2>1. Added(wallet[ProcOf[t]], NewCredential(arg[t])) \in Wallets
    <3>1. arg[t] \in Vcs /\ wallet[ProcOf[t]] \in Wallets /\ clock \in Nat
      BY <1>4 DEF AddAppend, TypeOK, InCall
    <3>2. NewCredential(arg[t]) \in Credential
      BY <3>1 DEF NewCredential, Credential
    <3> QED
      BY <3>1, <3>2, AddedFacts
  <2>2. wallet[ProcOf[t]].path \in Paths \cup {None}
    BY DEF TypeOK, Wallets
  <2>3. TypeOK'
    BY <1>4, <2>1, <2>2 DEF TypeOK, AddAppend, InCall
  <2>4. InCall'
    BY <1>4, <2>2 DEF TypeOK, InCall, AddAppend, Autosaves
  <2> QED
    BY <2>3, <2>4
<1>5. ASSUME NEW t \in Threads, Audit(t) PROVE TypeInv'
  <2>3. TypeOK'
    BY <1>5, <1>a DEF TypeOK, InCall, Audit
  <2>4. InCall'
    BY <1>5 DEF TypeOK, InCall, Audit
  <2> QED
    BY <2>3, <2>4
<1>18. ASSUME NEW t \in Threads, AuditReturns(t) PROVE TypeInv'
  <2>3. TypeOK'
    BY <1>18, <1>a DEF TypeOK, InCall, AuditReturns
  <2>4. InCall'
    BY <1>18 DEF TypeOK, InCall, AuditReturns
  <2> QED
    BY <2>3, <2>4
<1>6. ASSUME NEW t \in Threads, SaveCall(t) PROVE TypeInv'
  <2>3. TypeOK'
    BY <1>6, <1>a DEF TypeOK, InCall, SaveCall
  <2>4. InCall'
    BY <1>6 DEF TypeOK, InCall, SaveCall
  <2> QED
    BY <2>3, <2>4
<1>7. ASSUME NEW t \in Threads, SaveRefused(t) PROVE TypeInv'
  <2>3. TypeOK'
    BY <1>7, <1>a DEF TypeOK, InCall, SaveRefused, Raise
  <2>4. InCall'
    BY <1>7 DEF TypeOK, InCall, SaveRefused, Raise
  <2> QED
    BY <2>3, <2>4
<1>8. ASSUME NEW t \in Threads, SaveSnapshot(t) PROVE TypeInv'
  <2>1. Payload(wallet[ProcOf[t]]) \in Contents
    BY DEF TypeOK, Payload, Wallets, Contents
  <2>3. TypeOK'
    BY <1>8, <2>1 DEF TypeOK, SaveSnapshot
  <2>4. InCall'
    BY <1>8 DEF TypeOK, InCall, SaveSnapshot
  <2> QED
    BY <2>3, <2>4
<1>9. ASSUME NEW t \in Threads, SaveOpen(t) PROVE TypeInv'
  <2>3. TypeOK'
    BY <1>9, <1>a DEF TypeOK, InCall, SaveOpen
  <2>4. InCall'
    BY <1>9 DEF TypeOK, InCall, SaveOpen
  <2> QED
    BY <2>3, <2>4
<1>10. ASSUME NEW t \in Threads, SaveOpenFails(t) PROVE TypeInv'
  <2>3. TypeOK'
    BY <1>10, <1>a DEF TypeOK, InCall, SaveOpenFails, Raise
  <2>4. InCall'
    BY <1>10 DEF TypeOK, InCall, SaveOpenFails, Raise
  <2> QED
    BY <2>3, <2>4
<1>11. ASSUME NEW t \in Threads, SaveWrite(t) PROVE TypeInv'
  <2>3. TypeOK'
    BY <1>11, <1>a DEF TypeOK, InCall, SaveWrite
  <2>4. InCall'
    BY <1>11 DEF TypeOK, InCall, SaveWrite
  <2> QED
    BY <2>3, <2>4
<1>12. ASSUME NEW t \in Threads, SaveOverlaps(t) PROVE TypeInv'
  <2>3. TypeOK'
    BY <1>12, <1>a DEF TypeOK, InCall, SaveOverlaps
  <2>4. InCall'
    BY <1>12 DEF TypeOK, InCall, SaveOverlaps
  <2> QED
    BY <2>3, <2>4
<1>13. ASSUME NEW t \in Threads, SaveWriteFails(t) PROVE TypeInv'
  <2>3. TypeOK'
    BY <1>13, <1>a DEF TypeOK, InCall, SaveWriteFails, Raise
  <2>4. InCall'
    BY <1>13 DEF TypeOK, InCall, SaveWriteFails, Raise
  <2> QED
    BY <2>3, <2>4
<1>14. ASSUME NEW t \in Threads, SaveFinish(t) PROVE TypeInv'
  <2>1. Saved(wallet[ProcOf[t]], out[t], target[t]) \in Wallets
    BY <1>14, SavedFacts DEF TypeOK, InCall, SaveFinish
  <2>3. TypeOK'
    BY <1>14, <1>a, <2>1 DEF TypeOK, SaveFinish
  <2>4. InCall'
    BY <1>14 DEF TypeOK, InCall, SaveFinish
  <2> QED
    BY <2>3, <2>4
<1>15. ASSUME NEW p \in Procs, Crash(p) PROVE TypeInv'
  <2>3. TypeOK'
    BY <1>15, <1>a DEF TypeOK, InCall, Crash, ThreadsOf
  <2>4. InCall'
    BY <1>15 DEF TypeOK, InCall, Crash, ThreadsOf
  <2> QED
    BY <2>3, <2>4
<1>16. CASE Tick
  BY <1>16 DEF TypeOK, InCall, Tick
<1>17. CASE UNCHANGED vars
  BY <1>17 DEF TypeOK, InCall, vars
<1> QED
  BY <1>1, <1>2, <1>3, <1>4, <1>5, <1>6, <1>7, <1>8, <1>9, <1>10, <1>11,
     <1>12, <1>13, <1>14, <1>15, <1>16, <1>17, <1>18 DEF Next

\* Every variable keeps its type in every run.
THEOREM WalletTypeOK == Spec => []TypeOK
<1>1. Spec => []TypeInv
  BY InitType, NextType, PTL DEF Spec
<1> QED
  BY <1>1, PTL DEF TypeInv

-----------------------------------------------------------------------------
\* An unreadable file has a writer inside its window, or had one that was
\* stopped or overlapped there.
LEMMA NextTorn ==
  TypeInv /\ TornOnlyByWriter /\ [Next]_vars => TornOnlyByWriter'
<1> SUFFICES ASSUME TypeInv, TornOnlyByWriter, [Next]_vars
             PROVE TornOnlyByWriter'
  OBVIOUS
<1> USE WalletAssumption
<1> USE DEF TypeInv, TypeOK, InCall, TornOnlyByWriter, threads, store
<1>1. ASSUME NEW t \in Threads, New(t) PROVE TornOnlyByWriter'
  BY <1>1 DEF New, Hold
<1>2. ASSUME NEW t \in Threads, Load(t) PROVE TornOnlyByWriter'
  BY <1>2 DEF Load, Hold
<1>3. ASSUME NEW t \in Threads, AddCheck(t) PROVE TornOnlyByWriter'
  BY <1>3 DEF AddCheck
<1>4. ASSUME NEW t \in Threads, AddAppend(t) PROVE TornOnlyByWriter'
  BY <1>4 DEF AddAppend
<1>5. ASSUME NEW t \in Threads, Audit(t) PROVE TornOnlyByWriter'
  BY <1>5 DEF Audit
<1>18. ASSUME NEW t \in Threads, AuditReturns(t) PROVE TornOnlyByWriter'
  BY <1>18 DEF AuditReturns
<1>6. ASSUME NEW t \in Threads, SaveCall(t) PROVE TornOnlyByWriter'
  BY <1>6 DEF SaveCall
<1>7. ASSUME NEW t \in Threads, SaveRefused(t) PROVE TornOnlyByWriter'
  BY <1>7 DEF SaveRefused, Raise
<1>8. ASSUME NEW t \in Threads, SaveSnapshot(t) PROVE TornOnlyByWriter'
  BY <1>8 DEF SaveSnapshot
<1>9. ASSUME NEW t \in Threads, SaveOpen(t) PROVE TornOnlyByWriter'
  BY <1>9 DEF SaveOpen
<1>10. ASSUME NEW t \in Threads, SaveOpenFails(t) PROVE TornOnlyByWriter'
  BY <1>10 DEF SaveOpenFails, Raise
<1>11. ASSUME NEW t \in Threads, SaveWrite(t) PROVE TornOnlyByWriter'
  BY <1>11 DEF SaveWrite
<1>12. ASSUME NEW t \in Threads, SaveOverlaps(t) PROVE TornOnlyByWriter'
  BY <1>12 DEF SaveOverlaps
<1>13. ASSUME NEW t \in Threads, SaveWriteFails(t) PROVE TornOnlyByWriter'
  BY <1>13 DEF SaveWriteFails, Raise
<1>14. ASSUME NEW t \in Threads, SaveFinish(t) PROVE TornOnlyByWriter'
  BY <1>14 DEF SaveFinish
<1>15. ASSUME NEW p \in Procs, Crash(p) PROVE TornOnlyByWriter'
  BY <1>15 DEF Crash, ThreadsOf
<1>16. CASE Tick
  BY <1>16 DEF Tick
<1>17. CASE UNCHANGED vars
  BY <1>17 DEF vars
<1> QED
  BY <1>1, <1>2, <1>3, <1>4, <1>5, <1>6, <1>7, <1>8, <1>9, <1>10, <1>11,
     <1>12, <1>13, <1>14, <1>15, <1>16, <1>17, <1>18 DEF Next

\* For every number of processes, threads and files: save leaves a file
\* unreadable only between its truncation and its write.
THEOREM WalletTornOnlyByWriter == Spec => []TornOnlyByWriter
<1>1. Init => TornOnlyByWriter
  BY DEF Init, TornOnlyByWriter
<1>2. Spec => []TypeInv
  BY InitType, NextType, PTL DEF Spec
<1> QED
  BY <1>1, <1>2, NextTorn, PTL DEF Spec

-----------------------------------------------------------------------------
\* OwnCredentialsOnly is not inductive: a call also carries a credential it
\* has checked and a payload it has yet to write.
OwnInv ==
    /\ OwnCredentialsOnly
    /\ \A t \in Threads :
         /\ OwnedBy(out[t].did, out[t].creds)
         /\ pc[t] = "append" => SubjectOf[arg[t]] = wallet[ProcOf[t]].did

\* Every step keeps credentials with their own subject.
LEMMA NextOwn == TypeInv /\ OwnInv /\ [Next]_vars => OwnInv'
<1> SUFFICES ASSUME TypeInv, OwnInv, [Next]_vars PROVE OwnInv'
  OBVIOUS
<1> USE WalletAssumption
<1> USE DEF TypeInv, TypeOK, InCall, OwnInv, OwnCredentialsOnly, threads, store
<1>a. OwnedBy(NoContent.did, NoContent.creds) /\ OwnedBy(NoWallet.did, NoWallet.creds)
  BY DEF OwnedBy, NoContent, NoWallet
<1>b. \A d : OwnedBy(d, <<>>)
  BY DEF OwnedBy
<1>1. ASSUME NEW t \in Threads, New(t) PROVE OwnInv'
  <2>1. PICK c \in Configs, k \in Keys \cup {None} :
          Hold(ProcOf[t], [did |-> c.did, key |-> k, pass |-> c.pass,
                           path |-> c.path, created |-> None, creds |-> <<>>])
    BY <1>1 DEF New, FreshKeys, Arguments
  <2>2. \A p \in Procs \ {ProcOf[t]} : wallet'[p] = wallet[p]
    BY <2>1 DEF Hold
  <2>3. wallet'[ProcOf[t]].creds = <<>>
    BY <2>1 DEF Hold
  <2>4. \A u \in Threads : pc[u] = "append" => ProcOf[u] # ProcOf[t]
    BY <1>1 DEF New, Quiet, ThreadsOf
  <2> QED
    BY <2>1, <2>2, <2>3, <2>4, <1>b DEF Hold
<1>2. ASSUME NEW t \in Threads, Load(t) PROVE OwnInv'
  <2>1. PICK x \in Paths, w \in Passphrases :
          Hold(ProcOf[t], [did |-> content[x].did, key |-> content[x].key,
                           pass |-> w, path |-> x,
                           created |-> content[x].created,
                           creds |-> content[x].creds])
    BY <1>2 DEF Load
  <2>2. \A p \in Procs \ {ProcOf[t]} : wallet'[p] = wallet[p]
    BY <2>1 DEF Hold
  <2>3. /\ wallet'[ProcOf[t]].creds = content[x].creds
        /\ wallet'[ProcOf[t]].did = content[x].did
    BY <2>1 DEF Hold
  <2>4. \A u \in Threads : pc[u] = "append" => ProcOf[u] # ProcOf[t]
    BY <1>2 DEF Load, Quiet, ThreadsOf
  <2> QED
    BY <2>1, <2>2, <2>3, <2>4 DEF Hold
<1>3. ASSUME NEW t \in Threads, AddCheck(t) PROVE OwnInv'
  BY <1>3 DEF AddCheck
<1>4. ASSUME NEW t \in Threads, AddAppend(t) PROVE OwnInv'
  <2> DEFINE p == ProcOf[t]
  <2>1. wallet[p] \in Wallets /\ NewCredential(arg[t]) \in Credential
    BY <1>4 DEF AddAppend, NewCredential, Credential
  <2>2. /\ wallet'[p].did = wallet[p].did
        /\ wallet'[p].creds = Append(wallet[p].creds, NewCredential(arg[t]))
    BY <1>4, <2>1, AddedFacts DEF AddAppend
  <2>3. OwnedBy(wallet'[p].did, wallet'[p].creds)
    <3>1. wallet[p].creds \in Seq(Credential)
      BY <2>1 DEF Wallets
    <3>2. NewCredential(arg[t]).vc = arg[t]
      BY DEF NewCredential
    <3>3. OwnedBy(wallet[p].did, wallet[p].creds) /\ SubjectOf[arg[t]] = wallet[p].did
      BY <1>4 DEF AddAppend
    <3> QED
      BY <3>1, <3>2, <3>3, <2>2, <2>1 DEF OwnedBy
  <2>4. \A q \in Procs \ {p} : wallet'[q] = wallet[q]
    BY <1>4 DEF AddAppend
  <2>5. UNCHANGED <<content, arg, out>> /\ pc'[t] # "append"
        /\ \A u \in Threads \ {t} : pc'[u] = pc[u]
    BY <1>4 DEF AddAppend
  <2> QED
    BY <2>2, <2>3, <2>4, <2>5
<1>5. ASSUME NEW t \in Threads, Audit(t) PROVE OwnInv'
  BY <1>5 DEF Audit
<1>18. ASSUME NEW t \in Threads, AuditReturns(t) PROVE OwnInv'
  BY <1>18 DEF AuditReturns
<1>6. ASSUME NEW t \in Threads, SaveCall(t) PROVE OwnInv'
  BY <1>6 DEF SaveCall
<1>7. ASSUME NEW t \in Threads, SaveRefused(t) PROVE OwnInv'
  BY <1>7, <1>a DEF SaveRefused, Raise
<1>8. ASSUME NEW t \in Threads, SaveSnapshot(t) PROVE OwnInv'
  <2>1. /\ Payload(wallet[ProcOf[t]]).did = wallet[ProcOf[t]].did
        /\ Payload(wallet[ProcOf[t]]).creds = wallet[ProcOf[t]].creds
    BY DEF Payload
  <2> QED
    BY <1>8, <2>1 DEF SaveSnapshot
<1>9. ASSUME NEW t \in Threads, SaveOpen(t) PROVE OwnInv'
  BY <1>9 DEF SaveOpen
<1>10. ASSUME NEW t \in Threads, SaveOpenFails(t) PROVE OwnInv'
  BY <1>10, <1>a DEF SaveOpenFails, Raise
<1>11. ASSUME NEW t \in Threads, SaveWrite(t) PROVE OwnInv'
  BY <1>11 DEF SaveWrite
<1>12. ASSUME NEW t \in Threads, SaveOverlaps(t) PROVE OwnInv'
  BY <1>12 DEF SaveOverlaps
<1>13. ASSUME NEW t \in Threads, SaveWriteFails(t) PROVE OwnInv'
  BY <1>13, <1>a DEF SaveWriteFails, Raise
<1>14. ASSUME NEW t \in Threads, SaveFinish(t) PROVE OwnInv'
  <2>1. /\ wallet'[ProcOf[t]].did = wallet[ProcOf[t]].did
        /\ wallet'[ProcOf[t]].creds = wallet[ProcOf[t]].creds
    BY <1>14, SavedFacts DEF SaveFinish
  <2>2. \A q \in Procs \ {ProcOf[t]} : wallet'[q] = wallet[q]
    BY <1>14 DEF SaveFinish
  <2>3. UNCHANGED <<content, arg>> /\ out' = [out EXCEPT ![t] = NoContent]
        /\ pc'[t] # "append" /\ \A u \in Threads \ {t} : pc'[u] = pc[u]
    BY <1>14 DEF SaveFinish
  <2> QED
    BY <2>1, <2>2, <2>3, <1>a
<1>15. ASSUME NEW p \in Procs, Crash(p) PROVE OwnInv'
  BY <1>15, <1>a DEF Crash, ThreadsOf
<1>16. CASE Tick
  BY <1>16 DEF Tick
<1>17. CASE UNCHANGED vars
  BY <1>17 DEF vars
<1> QED
  BY <1>1, <1>2, <1>3, <1>4, <1>5, <1>6, <1>7, <1>8, <1>9, <1>10, <1>11,
     <1>12, <1>13, <1>14, <1>15, <1>16, <1>17, <1>18 DEF Next

\* Whoever shares a wallet or a file, it holds credentials of its DID alone.
THEOREM WalletOwnCredentialsOnly == Spec => []OwnCredentialsOnly
<1>1. Init => OwnInv
  BY DEF Init, OwnInv, OwnCredentialsOnly, OwnedBy, NoContent, NoWallet
<1>2. Spec => []TypeInv
  BY InitType, NextType, PTL DEF Spec
<1>3. Spec => []OwnInv
  BY <1>1, <1>2, NextOwn, PTL DEF Spec
<1> QED
  BY <1>3, PTL DEF OwnInv

-----------------------------------------------------------------------------
\* What the remaining theorems ask of the application: no two threads share a
\* wallet.  (add_credential checks and appends in two steps.)
Exclusive == \A t, u \in Threads : ProcOf[t] = ProcOf[u] => t = u

\* A credential that passed the duplicate check is still not in the wallet, and
\* no payload repeats one.
NoDupInv ==
    /\ NoDuplicates
    /\ \A t \in Threads :
         /\ NoRepeats(out[t].creds)
         /\ pc[t] = "append" => arg[t] \notin Ids(wallet[ProcOf[t]].creds)

\* A thread that has the wallet to itself appends what it checked: between
\* AddCheck and AddAppend nothing else changes the credentials.
LEMMA NextNoDup ==
  ASSUME Exclusive
  PROVE  TypeInv /\ NoDupInv /\ [Next]_vars => NoDupInv'
<1> SUFFICES ASSUME TypeInv, NoDupInv, [Next]_vars PROVE NoDupInv'
  OBVIOUS
<1> USE WalletAssumption
<1> USE DEF TypeInv, TypeOK, InCall, NoDupInv, NoDuplicates, threads, store
<1>a. NoRepeats(NoContent.creds) /\ NoRepeats(NoWallet.creds)
  BY DEF NoRepeats, NoContent, NoWallet
<1>b. NoRepeats(<<>>)
  BY DEF NoRepeats
<1>1. ASSUME NEW t \in Threads, New(t) PROVE NoDupInv'
  <2>1. PICK c \in Configs, k \in Keys \cup {None} :
          Hold(ProcOf[t], [did |-> c.did, key |-> k, pass |-> c.pass,
                           path |-> c.path, created |-> None, creds |-> <<>>])
    BY <1>1 DEF New, FreshKeys, Arguments
  <2>2. \A p \in Procs \ {ProcOf[t]} : wallet'[p] = wallet[p]
    BY <2>1 DEF Hold
  <2>3. wallet'[ProcOf[t]].creds = <<>>
    BY <2>1 DEF Hold
  <2>4. \A u \in Threads : pc[u] = "append" => ProcOf[u] # ProcOf[t]
    BY <1>1 DEF New, Quiet, ThreadsOf
  <2> QED
    BY <2>1, <2>2, <2>3, <2>4, <1>b DEF Hold
<1>2. ASSUME NEW t \in Threads, Load(t) PROVE NoDupInv'
  <2>1. PICK x \in Paths, w \in Passphrases :
          /\ disk[x] = "whole"
          /\ content[x].pass = w
          /\ Hold(ProcOf[t], [did |-> content[x].did, key |-> content[x].key,
                              pass |-> w, path |-> x,
                              created |-> content[x].created,
                              creds |-> content[x].creds])
          /\ seen' = [seen EXCEPT ![ProcOf[t]] = {x}]
    BY <1>2 DEF Load
  <2>2. \A p \in Procs \ {ProcOf[t]} : wallet'[p] = wallet[p]
    BY <2>1 DEF Hold
  <2>3. wallet'[ProcOf[t]].creds = content[x].creds
    BY <2>1 DEF Hold
  <2>4. \A u \in Threads : pc[u] = "append" => ProcOf[u] # ProcOf[t]
    BY <1>2 DEF Load, Quiet, ThreadsOf
  <2> QED
    BY <2>1, <2>2, <2>3, <2>4 DEF Hold
<1>3. ASSUME NEW t \in Threads, AddCheck(t) PROVE NoDupInv'
  BY <1>3 DEF AddCheck
<1>4. ASSUME NEW t \in Threads, AddAppend(t) PROVE NoDupInv'
  <2> DEFINE p == ProcOf[t]
  <2>1. wallet[p] \in Wallets /\ NewCredential(arg[t]) \in Credential
    BY <1>4 DEF AddAppend, NewCredential, Credential
  <2>2. wallet'[p].creds = Append(wallet[p].creds, NewCredential(arg[t]))
    BY <1>4, <2>1, AddedFacts DEF AddAppend
  <2>3. NoRepeats(wallet'[p].creds)
    <3>1. wallet[p].creds \in Seq(Credential)
      BY <2>1 DEF Wallets
    <3>2. NewCredential(arg[t]).vc = arg[t]
      BY DEF NewCredential
    <3>3. NoRepeats(wallet[p].creds) /\ arg[t] \notin Ids(wallet[p].creds)
      BY <1>4 DEF AddAppend
    <3> QED
      BY <3>1, <3>2, <3>3, <2>2, <2>1 DEF NoRepeats, Ids
  <2>4. \A q \in Procs \ {p} : wallet'[q] = wallet[q]
    BY <1>4 DEF AddAppend
  <2>5. UNCHANGED <<content, arg, out>> /\ pc'[t] # "append"
        /\ \A u \in Threads \ {t} : pc'[u] = pc[u]
    BY <1>4 DEF AddAppend
  <2>6. \A u \in Threads \ {t} : ProcOf[u] # p
    BY DEF Exclusive
  <2> QED
    BY <2>3, <2>4, <2>5, <2>6
<1>5. ASSUME NEW t \in Threads, Audit(t) PROVE NoDupInv'
  BY <1>5 DEF Audit
<1>18. ASSUME NEW t \in Threads, AuditReturns(t) PROVE NoDupInv'
  BY <1>18 DEF AuditReturns
<1>6. ASSUME NEW t \in Threads, SaveCall(t) PROVE NoDupInv'
  BY <1>6 DEF SaveCall
<1>7. ASSUME NEW t \in Threads, SaveRefused(t) PROVE NoDupInv'
  BY <1>7, <1>a DEF SaveRefused, Raise
<1>8. ASSUME NEW t \in Threads, SaveSnapshot(t) PROVE NoDupInv'
  <2>1. Payload(wallet[ProcOf[t]]).creds = wallet[ProcOf[t]].creds
    BY DEF Payload
  <2> QED
    BY <1>8, <2>1 DEF SaveSnapshot
<1>9. ASSUME NEW t \in Threads, SaveOpen(t) PROVE NoDupInv'
  BY <1>9 DEF SaveOpen
<1>10. ASSUME NEW t \in Threads, SaveOpenFails(t) PROVE NoDupInv'
  BY <1>10, <1>a DEF SaveOpenFails, Raise
<1>11. ASSUME NEW t \in Threads, SaveWrite(t) PROVE NoDupInv'
  BY <1>11 DEF SaveWrite
<1>12. ASSUME NEW t \in Threads, SaveOverlaps(t) PROVE NoDupInv'
  BY <1>12 DEF SaveOverlaps
<1>13. ASSUME NEW t \in Threads, SaveWriteFails(t) PROVE NoDupInv'
  BY <1>13, <1>a DEF SaveWriteFails, Raise
<1>14. ASSUME NEW t \in Threads, SaveFinish(t) PROVE NoDupInv'
  <2>1. wallet'[ProcOf[t]].creds = wallet[ProcOf[t]].creds
    BY <1>14, SavedFacts DEF SaveFinish
  <2>2. \A q \in Procs \ {ProcOf[t]} : wallet'[q] = wallet[q]
    BY <1>14 DEF SaveFinish
  <2>3. UNCHANGED <<content, arg>> /\ out' = [out EXCEPT ![t] = NoContent]
        /\ pc'[t] # "append" /\ \A u \in Threads \ {t} : pc'[u] = pc[u]
    BY <1>14 DEF SaveFinish
  <2> QED
    BY <2>1, <2>2, <2>3, <1>a
<1>15. ASSUME NEW p \in Procs, Crash(p) PROVE NoDupInv'
  BY <1>15, <1>a DEF Crash, ThreadsOf
<1>16. CASE Tick
  BY <1>16 DEF Tick
<1>17. CASE UNCHANGED vars
  BY <1>17 DEF vars
<1> QED
  BY <1>1, <1>2, <1>3, <1>4, <1>5, <1>6, <1>7, <1>8, <1>9, <1>10, <1>11,
     <1>12, <1>13, <1>14, <1>15, <1>16, <1>17, <1>18 DEF Next

\* No credential is stored twice, through failed saves, retries and reloads.
THEOREM WalletNoDuplicates ==
  ASSUME Exclusive
  PROVE  Spec => []NoDuplicates
<1>1. Init => NoDupInv
  BY DEF Init, NoDupInv, NoDuplicates, NoRepeats, NoContent, NoWallet
<1>2. Spec => []TypeInv
  BY InitType, NextType, PTL DEF Spec
<1>3. TypeInv /\ NoDupInv /\ [Next]_vars => NoDupInv'
  BY NextNoDup
<1>4. Spec => []NoDupInv
  BY <1>1, <1>2, <1>3, PTL DEF Spec
<1> QED
  BY <1>4, PTL DEF NoDupInv

-----------------------------------------------------------------------------
\* Between its snapshot and its return a save carries what its wallet holds;
\* a wallet has the creation time of every file it is the last writer of, once
\* the save that fixed that time has returned.
LastInv ==
    /\ \A p \in Procs : \A x \in seen[p] :
         /\ p \in live
         /\ Covers(wallet[p], content[x])
         /\ content[x].created # None
         /\ \/ wallet[p].created = content[x].created
            \/ /\ wallet[p].created = None
               /\ \E t \in Threads : /\ ProcOf[t] = p
                                      /\ pc[t] = "finish"
                                      /\ out[t].created = content[x].created
    /\ \A t \in Threads : pc[t] \in {"open", "write", "finish"} =>
         LET w == wallet[ProcOf[t]] IN
         /\ out[t].did = w.did /\ out[t].key = w.key /\ out[t].pass = w.pass
         /\ out[t].creds = w.creds
         /\ out[t].created # None /\ w.created \in {None, out[t].created}
    /\ \A x \in Paths : disk[x] = "whole" => content[x].created # None

\* Whatever writes a file takes it out of the other processes' seen, and the
\* writer's payload still covers its wallet when it is written.
LEMMA NextLast ==
  ASSUME Exclusive
  PROVE  TypeInv /\ LastInv /\ [Next]_vars => LastInv'
<1> SUFFICES ASSUME TypeInv, LastInv, [Next]_vars PROVE LastInv'
  OBVIOUS
<1> USE WalletAssumption
<1> USE DEF TypeInv, TypeOK, InCall, LastInv, threads, store
<1>1. ASSUME NEW t \in Threads, New(t) PROVE LastInv'
  <2>1. PICK c \in Configs, k \in Keys \cup {None} :
          Hold(ProcOf[t], [did |-> c.did, key |-> k, pass |-> c.pass,
                           path |-> c.path, created |-> None, creds |-> <<>>])
    BY <1>1 DEF New, FreshKeys, Arguments
  <2>2. \A p \in Procs \ {ProcOf[t]} : wallet'[p] = wallet[p]
    BY <2>1 DEF Hold
  <2>4. \A u \in Threads : ProcOf[u] = ProcOf[t] => pc[u] = "idle"
    BY <1>1 DEF New, Quiet, ThreadsOf
  <2>5. seen' = [seen EXCEPT ![ProcOf[t]] = {}]
    BY <1>1 DEF New
  <2> QED
    BY <2>1, <2>2, <2>4, <2>5 DEF Hold
<1>2. ASSUME NEW t \in Threads, Load(t) PROVE LastInv'
  <2>1. PICK x \in Paths, w \in Passphrases :
          /\ disk[x] = "whole"
          /\ content[x].pass = w
          /\ Hold(ProcOf[t], [did |-> content[x].did, key |-> content[x].key,
                              pass |-> w, path |-> x,
                              created |-> content[x].created,
                              creds |-> content[x].creds])
          /\ seen' = [seen EXCEPT ![ProcOf[t]] = {x}]
    BY <1>2 DEF Load
  <2>2. \A p \in Procs \ {ProcOf[t]} : wallet'[p] = wallet[p]
    BY <2>1 DEF Hold
  <2>3. Covers(wallet'[ProcOf[t]], content[x])
        /\ wallet'[ProcOf[t]].created = content[x].created
    BY <2>1 DEF Hold, Covers
  <2>4. \A u \in Threads : ProcOf[u] = ProcOf[t] => pc[u] = "idle"
    BY <1>2 DEF Load, Quiet, ThreadsOf
  <2> QED
    BY <2>1, <2>2, <2>3, <2>4 DEF Hold
<1>3. ASSUME NEW t \in Threads, AddCheck(t) PROVE LastInv'
  BY <1>3 DEF AddCheck
<1>4. ASSUME NEW t \in Threads, AddAppend(t) PROVE LastInv'
  <2> DEFINE p == ProcOf[t]
  <2>1. wallet[p] \in Wallets /\ NewCredential(arg[t]) \in Credential
    BY <1>4 DEF AddAppend, NewCredential, Credential
  <2>2. /\ wallet'[p].did = wallet[p].did
        /\ wallet'[p].key = wallet[p].key
        /\ wallet'[p].pass = wallet[p].pass
        /\ wallet'[p].created = wallet[p].created
        /\ wallet'[p].creds = Append(wallet[p].creds, NewCredential(arg[t]))
    BY <1>4, <2>1, AddedFacts DEF AddAppend
  <2>3. ASSUME NEW x \in seen[p] PROVE Covers(wallet'[p], content[x])
    <3>1. wallet[p].creds \in Seq(Credential) /\ content[x].creds \in Seq(Credential)
      BY <2>1 DEF Wallets, Contents
    <3>2. Covers(wallet[p], content[x])
      OBVIOUS
    <3> QED
      BY <3>1, <3>2, <2>1, <2>2 DEF Covers
  <2>4. \A q \in Procs \ {p} : wallet'[q] = wallet[q]
    BY <1>4 DEF AddAppend
  <2>5. UNCHANGED <<live, store, out>> /\ pc'[t] \in {"snapshot", "audit"}
        /\ pc[t] = "append"
        /\ \A u \in Threads \ {t} : pc'[u] = pc[u]
    BY <1>4 DEF AddAppend
  <2>6. \A u \in Threads \ {t} : ProcOf[u] # p
    BY DEF Exclusive
  <2>7. \A u \in Threads : pc'[u] \in {"open", "write", "finish"} =>
                              pc'[u] = pc[u] /\ wallet'[ProcOf[u]] = wallet[ProcOf[u]]
    BY <2>4, <2>5, <2>6
  <2>8. \A u \in Threads : pc[u] = "finish" => pc'[u] = "finish"
    BY <2>5
  <2>9. ASSUME NEW q \in Procs, NEW x \in seen'[q]
        PROVE  /\ q \in live' /\ Covers(wallet'[q], content'[x])
               /\ content'[x].created # None
               /\ \/ wallet'[q].created = content'[x].created
                  \/ /\ wallet'[q].created = None
                     /\ \E u \in Threads : /\ ProcOf[u] = q
                                            /\ pc'[u] = "finish"
                                            /\ out'[u].created = content'[x].created
    <3>1. wallet'[q].created = wallet[q].created
      BY <2>2, <2>4
    <3>2. Covers(wallet'[q], content[x])
      BY <2>3, <2>4, <2>5
    <3> QED
      BY <2>5, <2>8, <3>1, <3>2
  <2> QED
    BY <2>5, <2>7, <2>9
<1>5. ASSUME NEW t \in Threads, Audit(t) PROVE LastInv'
  BY <1>5 DEF Audit
<1>18. ASSUME NEW t \in Threads, AuditReturns(t) PROVE LastInv'
  BY <1>18 DEF AuditReturns
<1>6. ASSUME NEW t \in Threads, SaveCall(t) PROVE LastInv'
  BY <1>6 DEF SaveCall
<1>7. ASSUME NEW t \in Threads, SaveRefused(t) PROVE LastInv'
  <2>1. /\ pc' = [pc EXCEPT ![t] = "idle"] /\ pc[t] = "snapshot"
        /\ out' = [out EXCEPT ![t] = NoContent]
        /\ UNCHANGED <<live, wallet, content, seen, disk>>
    BY <1>7 DEF SaveRefused, Raise
  <2>2. \A u \in Threads : pc[u] = "finish" => pc'[u] = "finish" /\ out'[u] = out[u]
    BY <2>1
  <2> QED
    BY <2>1, <2>2
<1>8. ASSUME NEW t \in Threads, SaveSnapshot(t) PROVE LastInv'
  <2>1. LET f == Payload(wallet[ProcOf[t]])
            w == wallet[ProcOf[t]]
        IN  /\ f.did = w.did /\ f.key = w.key /\ f.pass = w.pass
            /\ f.creds = w.creds
            /\ f.created # None /\ w.created \in {None, f.created}
    BY DEF Payload
  <2>2. /\ pc' = [pc EXCEPT ![t] = "open"] /\ pc[t] = "snapshot"
        /\ out' = [out EXCEPT ![t] = Payload(wallet[ProcOf[t]])]
        /\ UNCHANGED <<live, wallet, content, seen, disk>>
    BY <1>8 DEF SaveSnapshot
  <2>3. \A u \in Threads : pc[u] = "finish" => pc'[u] = "finish" /\ out'[u] = out[u]
    BY <2>2
  <2>4. /\ out'[t] = Payload(wallet[ProcOf[t]])
        /\ \A u \in Threads \ {t} : out'[u] = out[u] /\ pc'[u] = pc[u]
    BY <2>2
  <2> QED
    BY <2>1, <2>2, <2>3, <2>4
<1>9. ASSUME NEW t \in Threads, SaveOpen(t) PROVE LastInv'
  BY <1>9 DEF SaveOpen
<1>10. ASSUME NEW t \in Threads, SaveOpenFails(t) PROVE LastInv'
  BY <1>10 DEF SaveOpenFails, Raise
<1>11. ASSUME NEW t \in Threads, SaveWrite(t) PROVE LastInv'
  <2> DEFINE p == ProcOf[t]
             x == target[t]
  <2>1. /\ x \in Paths
        /\ content' = [content EXCEPT ![x] = out[t]]
        /\ disk' = [disk EXCEPT ![x] = "whole"]
        /\ seen' = [q \in Procs |-> IF q = p THEN seen[q] \cup {x} ELSE seen[q] \ {x}]
        /\ pc[t] = "write" /\ pc' = [pc EXCEPT ![t] = "finish"]
        /\ UNCHANGED <<live, wallet, out>>
    BY <1>11 DEF SaveWrite
  <2>2. \A u \in Threads \ {t} : ProcOf[u] # p
    BY DEF Exclusive
  <2>3. Covers(wallet[p], out[t])
    <3>1. out[t].creds = wallet[p].creds /\ wallet[p].creds \in Seq(Credential)
      BY <2>1 DEF Wallets
    <3> QED
      BY <3>1, <2>1 DEF Covers
  <2>4. wallet[p].created = out[t].created \/ wallet[p].created = None
    BY <2>1
  <2> QED
    BY <2>1, <2>2, <2>3, <2>4
<1>12. ASSUME NEW t \in Threads, SaveOverlaps(t) PROVE LastInv'
  BY <1>12 DEF SaveOverlaps
<1>13. ASSUME NEW t \in Threads, SaveWriteFails(t) PROVE LastInv'
  BY <1>13 DEF SaveWriteFails, Raise
<1>14. ASSUME NEW t \in Threads, SaveFinish(t) PROVE LastInv'
  <2> DEFINE p == ProcOf[t]
  <2>1. /\ wallet'[p].did = wallet[p].did
        /\ wallet'[p].key = wallet[p].key
        /\ wallet'[p].pass = wallet[p].pass
        /\ wallet'[p].creds = wallet[p].creds
        /\ wallet'[p].created = out[t].created
    BY <1>14, SavedFacts DEF SaveFinish
  <2>2. \A q \in Procs \ {p} : wallet'[q] = wallet[q]
    BY <1>14 DEF SaveFinish
  <2>3. UNCHANGED <<live, store>> /\ out' = [out EXCEPT ![t] = NoContent]
        /\ pc[t] = "finish" /\ pc'[t] \in {"idle", "audit"}
        /\ \A u \in Threads \ {t} : pc'[u] = pc[u]
    BY <1>14 DEF SaveFinish
  <2>4. \A u \in Threads \ {t} : ProcOf[u] # p
    BY DEF Exclusive
  <2>5. \A x \in seen[p] : content[x].created = out[t].created
    BY <2>3, <2>4
  <2>6. \A x \in seen[p] : Covers(wallet'[p], content[x])
    BY <2>1, <2>5 DEF Covers
  <2>7. ASSUME NEW q \in Procs \ {p}, NEW x \in seen[q], NEW u \in Threads,
               ProcOf[u] = q, pc[u] = "finish"
        PROVE  u # t /\ pc'[u] = "finish" /\ out'[u] = out[u]
    BY <2>3, <2>7
  <2>8. \A u \in Threads \ {t} : out'[u] = out[u]
    BY <2>3
  <2> QED
    BY <2>1, <2>2, <2>3, <2>4, <2>5, <2>6, <2>7, <2>8
<1>15. ASSUME NEW p \in Procs, Crash(p) PROVE LastInv'
  BY <1>15 DEF Crash, ThreadsOf
<1>16. CASE Tick
  BY <1>16 DEF Tick
<1>17. CASE UNCHANGED vars
  BY <1>17 DEF vars
<1> QED
  BY <1>1, <1>2, <1>3, <1>4, <1>5, <1>6, <1>7, <1>8, <1>9, <1>10, <1>11,
     <1>12, <1>13, <1>14, <1>15, <1>16, <1>17, <1>18 DEF Next

\* A process that was the last to load or write a file can rewrite it without
\* losing its key or any credential, whatever torn writes came in between.
THEOREM WalletLastWriterLosesNothing ==
  ASSUME Exclusive
  PROVE  Spec => []LastWriterLosesNothing
<1>1. Init => LastInv
  BY DEF Init, LastInv
<1>2. Spec => []TypeInv
  BY InitType, NextType, PTL DEF Spec
<1>3. TypeInv /\ LastInv /\ [Next]_vars => LastInv'
  BY NextLast
<1>4. Spec => []LastInv
  BY <1>1, <1>2, <1>3, PTL DEF Spec
<1>5. TypeInv /\ LastInv => LastWriterLosesNothing
  BY DEF LastInv, LastWriterLosesNothing, TypeInv, TypeOK
<1> QED
  BY <1>2, <1>4, <1>5, PTL

-----------------------------------------------------------------------------
\* An append adds one credential id.
LEMMA IdsOfAppend ==
  ASSUME NEW s \in Seq(Credential), NEW c \in Credential
  PROVE  Ids(Append(s, c)) = Ids(s) \cup {c.vc}
  BY DEF Ids

\* None is the id of no credential, so that Raise adds none to failed.
LEMMA IdsAreVcs ==
  ASSUME NEW w \in Wallets
  PROVE  None \notin Ids(w.creds)
<1>1. w.creds \in Seq(Credential)
  BY DEF Wallets
<1>2. \A i \in 1..Len(w.creds) : w.creds[i] \in Credential
  BY <1>1
<1>3. \A c \in Credential : c.vc \in Vcs
  BY DEF Credential
<1> QED
  BY <1>2, <1>3, WalletAssumption DEF Ids

\* What MemoryMirrorsFile and ReportedGrantsStored need to know in the middle
\* of a call of thread t: the credential under way is in the wallet; a save about
\* to return has written all of it; a credential about to be reported is in the
\* file; and memory exceeds the file by the failed credentials and the one under
\* way.
Mirror(t) ==
    LET w    == wallet[ProcOf[t]]
        mine == Ids(w.creds)
        synced == Autosaves(w) /\ w.path \in seen[ProcOf[t]]
    IN
    /\ failed[ProcOf[t]] \subseteq mine
    /\ pc[t] = "idle" => arg[t] = None
    /\ pc[t] \notin {"idle", "append"} /\ arg[t] # None => arg[t] \in mine
    /\ pc[t] = "finish" /\ target[t] \in seen[ProcOf[t]] =>
         mine \subseteq Ids(content[target[t]].creds)
    /\ pc[t] = "audit" /\ synced => arg[t] \in Ids(content[w.path].creds)
    /\ pc[t] # "finish" /\ synced =>
         \A v \in mine : \/ v \in Ids(content[w.path].creds)
                         \/ v \in failed[ProcOf[t]]
                         \/ pc[t] \in {"snapshot", "open", "write"} /\ v = arg[t]

MirrorInv ==
    /\ \A t \in Threads : Mirror(t)
    /\ \A p \in live : \E t \in Threads : ProcOf[t] = p

\* A step of another process: it may take a file over, and no more.
Framed(u) ==
    LET p == ProcOf[u] IN
    /\ wallet'[p] = wallet[p]
    /\ failed'[p] = failed[p]
    /\ pc'[u] = pc[u] /\ arg'[u] = arg[u] /\ target'[u] = target[u]
    /\ seen'[p] \subseteq seen[p]
    /\ \A x \in seen'[p] : content'[x] = content[x]

\* A step that leaves a thread and its wallet alone preserves its mirror.
LEMMA FramedMirror ==
  ASSUME NEW u \in Threads, Mirror(u), Framed(u)
  PROVE  Mirror(u)'
  BY DEF Mirror, Framed

\* The mirror of each thread moves with its call, step by step.
LEMMA NextMirror ==
  ASSUME Exclusive
  PROVE  TypeInv /\ LastInv /\ MirrorInv /\ [Next]_vars => MirrorInv'
<1> SUFFICES ASSUME TypeInv, LastInv, MirrorInv, [Next]_vars PROVE MirrorInv'
  OBVIOUS
<1> USE WalletAssumption DEF MirrorInv
<1>1. ASSUME NEW t \in Threads, New(t) PROVE MirrorInv'
  <2>1. PICK c \in Configs, k \in Keys \cup {None} :
          Hold(ProcOf[t], [did |-> c.did, key |-> k, pass |-> c.pass,
                           path |-> c.path, created |-> None, creds |-> <<>>])
    BY <1>1, WalletAssumption DEF New, FreshKeys, Arguments
    <2>3. Ids(wallet'[ProcOf[t]].creds) = {} /\ seen'[ProcOf[t]] = {}
        /\ failed'[ProcOf[t]] = {} /\ pc'[t] = "idle" /\ pc[t] = "idle" /\ arg'[t] = arg[t]
    BY <1>1, <2>1 DEF New, Hold, Ids, Quiet, ThreadsOf, TypeInv, TypeOK, threads
  <2>4. Mirror(t)'
    BY <2>3 DEF Mirror, Autosaves
  <2>5. /\ live' \subseteq live \cup {ProcOf[t]}
        /\ \A u \in Threads \ {t} : Framed(u)
    BY <1>1 DEF New, Hold, Exclusive, Framed, TypeInv, TypeOK, InCall, threads, store
  <2> QED
    BY <2>4, <2>5, FramedMirror
<1>2. ASSUME NEW t \in Threads, Load(t) PROVE MirrorInv'
  <2>1. PICK x \in Paths, w \in Passphrases :
          /\ disk[x] = "whole"
          /\ content[x].pass = w
          /\ Hold(ProcOf[t], [did |-> content[x].did, key |-> content[x].key,
                              pass |-> w, path |-> x,
                              created |-> content[x].created,
                              creds |-> content[x].creds])
          /\ seen' = [seen EXCEPT ![ProcOf[t]] = {x}]
    BY <1>2 DEF Load
  <2>3. /\ wallet'[ProcOf[t]].creds = content[x].creds
        /\ wallet'[ProcOf[t]].path = x /\ content' = content
        /\ failed'[ProcOf[t]] = {} /\ pc'[t] = "idle" /\ pc[t] = "idle" /\ arg'[t] = arg[t]
    BY <1>2, <2>1 DEF Load, Hold, Quiet, ThreadsOf, TypeInv, TypeOK, threads
  <2>4. Mirror(t)'
    BY <2>3 DEF Mirror, Autosaves
  <2>5. /\ live' \subseteq live \cup {ProcOf[t]}
        /\ \A u \in Threads \ {t} : Framed(u)
    BY <1>2 DEF Load, Hold, Exclusive, Framed, TypeInv, TypeOK, InCall, threads, store
  <2> QED
    BY <2>4, <2>5, FramedMirror
<1>3. ASSUME NEW t \in Threads, AddCheck(t) PROVE MirrorInv'
  <2>4. Mirror(t)'
    <3>1. /\ pc[t] = "idle" /\ pc'[t] = "append"
          /\ UNCHANGED <<wallet, content, seen, failed>>
      BY <1>3 DEF AddCheck, TypeInv, TypeOK, store
    <3>2. Mirror(t)
      OBVIOUS
    <3> QED
      BY <3>1, <3>2 DEF Mirror, Autosaves
  <2>5. /\ live' \subseteq live \cup {ProcOf[t]}
        /\ \A u \in Threads \ {t} : Framed(u)
    BY <1>3 DEF AddCheck, Exclusive, Framed, TypeInv, TypeOK, InCall, threads, store
  <2> QED
    BY <2>4, <2>5, FramedMirror
<1>4. ASSUME NEW t \in Threads, AddAppend(t) PROVE MirrorInv'
  <2> DEFINE p == ProcOf[t]
  <2>1. wallet[p] \in Wallets /\ NewCredential(arg[t]) \in Credential
    BY <1>4 DEF AddAppend, NewCredential, Credential, TypeInv, TypeOK, InCall
  <2>2. /\ wallet'[p].pass = wallet[p].pass
        /\ wallet'[p].path = wallet[p].path
        /\ wallet'[p].creds = Append(wallet[p].creds, NewCredential(arg[t]))
    BY <1>4, <2>1, AddedFacts DEF AddAppend, TypeInv, TypeOK
  <2>3. Ids(wallet'[p].creds) = Ids(wallet[p].creds) \cup {arg[t]}
    BY <2>1, <2>2, IdsOfAppend DEF Wallets, NewCredential
  <2>a. Autosaves(wallet'[p]) = Autosaves(wallet[p])
    BY <2>2 DEF Autosaves
  <2>b. /\ UNCHANGED <<content, seen, failed, arg>>
        /\ pc[t] = "append"
        /\ pc'[t] = IF Autosaves(wallet[p]) THEN "snapshot" ELSE "audit"
    BY <1>4 DEF AddAppend, TypeInv, TypeOK, store
  <2>4. Mirror(t)'
    <3>1. CASE Autosaves(wallet[p])
      BY <3>1, <2>2, <2>3, <2>a, <2>b DEF Mirror
    <3>2. CASE ~Autosaves(wallet[p])
      BY <3>2, <2>2, <2>3, <2>a, <2>b DEF Mirror
    <3> QED
      BY <3>1, <3>2
  <2>5. /\ live' \subseteq live \cup {ProcOf[t]}
        /\ \A u \in Threads \ {t} : Framed(u)
    BY <1>4 DEF AddAppend, Exclusive, Framed, TypeInv, TypeOK, InCall, threads, store
  <2> QED
    BY <2>4, <2>5, FramedMirror
<1>5. ASSUME NEW t \in Threads, Audit(t) PROVE MirrorInv'
  <2>4. Mirror(t)'
    <3>1. /\ pc[t] = "audit"
          /\ \/ pc'[t] = "wait" /\ arg'[t] = arg[t]
             \/ pc'[t] = "idle" /\ arg'[t] = None
          /\ UNCHANGED <<wallet, content, seen, failed>>
      BY <1>5 DEF Audit, TypeInv, TypeOK, store
    <3>2. Mirror(t)
      OBVIOUS
    <3> QED
      BY <3>1, <3>2 DEF Mirror, Autosaves
  <2>5. /\ live' \subseteq live \cup {ProcOf[t]}
        /\ \A u \in Threads \ {t} : Framed(u)
    BY <1>5 DEF Audit, Exclusive, Framed, TypeInv, TypeOK, InCall, threads, store
  <2> QED
    BY <2>4, <2>5, FramedMirror
<1>18. ASSUME NEW t \in Threads, AuditReturns(t) PROVE MirrorInv'
  <2>4. Mirror(t)'
    <3>1. /\ pc[t] = "wait" /\ pc'[t] = "idle" /\ arg'[t] = None
          /\ UNCHANGED <<wallet, content, seen, failed>>
      BY <1>18 DEF AuditReturns, TypeInv, TypeOK, store
    <3>2. Mirror(t)
      OBVIOUS
    <3> QED
      BY <3>1, <3>2 DEF Mirror, Autosaves
  <2>5. /\ live' \subseteq live \cup {ProcOf[t]}
        /\ \A u \in Threads \ {t} : Framed(u)
    BY <1>18 DEF AuditReturns, Exclusive, Framed, TypeInv, TypeOK, InCall, threads, store
  <2> QED
    BY <2>4, <2>5, FramedMirror
<1>6. ASSUME NEW t \in Threads, SaveCall(t) PROVE MirrorInv'
  <2>4. Mirror(t)'
    <3>1. /\ pc[t] = "idle" /\ pc'[t] = "snapshot" /\ arg' = arg
          /\ UNCHANGED <<wallet, content, seen, failed>>
      BY <1>6 DEF SaveCall, TypeInv, TypeOK, store
    <3>2. Mirror(t)
      OBVIOUS
    <3> QED
      BY <3>1, <3>2 DEF Mirror, Autosaves
  <2>5. /\ live' \subseteq live \cup {ProcOf[t]}
        /\ \A u \in Threads \ {t} : Framed(u)
    BY <1>6 DEF SaveCall, Exclusive, Framed, TypeInv, TypeOK, InCall, threads, store
  <2> QED
    BY <2>4, <2>5, FramedMirror
<1>7. ASSUME NEW t \in Threads, SaveRefused(t) PROVE MirrorInv'
  <2>1. /\ pc[t] \in {"snapshot", "open", "write"} /\ pc'[t] = "idle"
        /\ arg'[t] = None
        /\ failed'[ProcOf[t]] = failed[ProcOf[t]] \cup ({arg[t]} \ {None})
        /\ UNCHANGED <<wallet, content, seen>>
    BY <1>7 DEF SaveRefused, Raise, TypeInv, TypeOK
  <2>3. None \notin Ids(wallet[ProcOf[t]].creds)
    BY IdsAreVcs DEF TypeInv, TypeOK
  <2>4. Mirror(t)'
    <3>1. Mirror(t)
      OBVIOUS
    <3> QED
      BY <2>1, <2>3, <3>1 DEF Mirror, Autosaves
  <2>5. /\ live' \subseteq live \cup {ProcOf[t]}
        /\ \A u \in Threads \ {t} : Framed(u)
    BY <1>7 DEF SaveRefused, Raise, Exclusive, Framed, TypeInv, TypeOK, InCall, threads, store
  <2> QED
    BY <2>4, <2>5, FramedMirror
<1>8. ASSUME NEW t \in Threads, SaveSnapshot(t) PROVE MirrorInv'
  <2>4. Mirror(t)'
    BY <1>8 DEF SaveSnapshot, Mirror, TypeInv, TypeOK, InCall, threads, store
  <2>5. /\ live' \subseteq live \cup {ProcOf[t]}
        /\ \A u \in Threads \ {t} : Framed(u)
    BY <1>8 DEF SaveSnapshot, Exclusive, Framed, TypeInv, TypeOK, InCall, threads, store
  <2> QED
    BY <2>4, <2>5, FramedMirror
<1>9. ASSUME NEW t \in Threads, SaveOpen(t) PROVE MirrorInv'
  <2>4. Mirror(t)'
    BY <1>9 DEF SaveOpen, Mirror, TypeInv, TypeOK, InCall, threads, store
  <2>5. /\ live' \subseteq live \cup {ProcOf[t]}
        /\ \A u \in Threads \ {t} : Framed(u)
    BY <1>9 DEF SaveOpen, Exclusive, Framed, TypeInv, TypeOK, InCall, threads, store
  <2> QED
    BY <2>4, <2>5, FramedMirror
<1>10. ASSUME NEW t \in Threads, SaveOpenFails(t) PROVE MirrorInv'
  <2>1. /\ pc[t] \in {"snapshot", "open", "write"} /\ pc'[t] = "idle"
        /\ arg'[t] = None
        /\ failed'[ProcOf[t]] = failed[ProcOf[t]] \cup ({arg[t]} \ {None})
        /\ UNCHANGED <<wallet, content, seen>>
    BY <1>10 DEF SaveOpenFails, Raise, TypeInv, TypeOK
  <2>3. None \notin Ids(wallet[ProcOf[t]].creds)
    BY IdsAreVcs DEF TypeInv, TypeOK
  <2>4. Mirror(t)'
    <3>1. Mirror(t)
      OBVIOUS
    <3> QED
      BY <2>1, <2>3, <3>1 DEF Mirror, Autosaves
  <2>5. /\ live' \subseteq live \cup {ProcOf[t]}
        /\ \A u \in Threads \ {t} : Framed(u)
    BY <1>10 DEF SaveOpenFails, Raise, Exclusive, Framed, TypeInv, TypeOK, InCall, threads, store
  <2> QED
    BY <2>4, <2>5, FramedMirror
<1>11. ASSUME NEW t \in Threads, SaveWrite(t) PROVE MirrorInv'
  <2> DEFINE p == ProcOf[t]
  <2>1. /\ target[t] \in Paths /\ content'[target[t]] = out[t]
        /\ failed'[p] = failed[p] \ Ids(out[t].creds)
        /\ pc[t] = "write" /\ pc'[t] = "finish"
        /\ UNCHANGED <<wallet, arg, target>>
    BY <1>11 DEF SaveWrite, TypeInv, TypeOK, InCall
  <2>2. out[t].creds = wallet[p].creds
    BY <2>1 DEF LastInv
  <2>4. Mirror(t)'
    BY <2>1, <2>2 DEF Mirror
  <2>5. /\ live' \subseteq live \cup {ProcOf[t]}
        /\ \A u \in Threads \ {t} : Framed(u)
    BY <1>11 DEF SaveWrite, Exclusive, Framed, TypeInv, TypeOK, InCall, threads, store
  <2> QED
    BY <2>4, <2>5, FramedMirror
<1>12. ASSUME NEW t \in Threads, SaveOverlaps(t) PROVE MirrorInv'
  <2>4. Mirror(t)'
    BY <1>12 DEF SaveOverlaps, Mirror, TypeInv, TypeOK, InCall, threads, store
  <2>5. /\ live' \subseteq live \cup {ProcOf[t]}
        /\ \A u \in Threads \ {t} : Framed(u)
    BY <1>12 DEF SaveOverlaps, Exclusive, Framed, TypeInv, TypeOK, InCall, threads, store
  <2> QED
    BY <2>4, <2>5, FramedMirror
<1>13. ASSUME NEW t \in Threads, SaveWriteFails(t) PROVE MirrorInv'
  <2>1. /\ pc[t] \in {"snapshot", "open", "write"} /\ pc'[t] = "idle"
        /\ arg'[t] = None
        /\ failed'[ProcOf[t]] = failed[ProcOf[t]] \cup ({arg[t]} \ {None})
        /\ UNCHANGED <<wallet, content, seen>>
    BY <1>13 DEF SaveWriteFails, Raise, TypeInv, TypeOK
  <2>3. None \notin Ids(wallet[ProcOf[t]].creds)
    BY IdsAreVcs DEF TypeInv, TypeOK
  <2>4. Mirror(t)'
    <3>1. Mirror(t)
      OBVIOUS
    <3> QED
      BY <2>1, <2>3, <3>1 DEF Mirror, Autosaves
  <2>5. /\ live' \subseteq live \cup {ProcOf[t]}
        /\ \A u \in Threads \ {t} : Framed(u)
    BY <1>13 DEF SaveWriteFails, Raise, Exclusive, Framed, TypeInv, TypeOK, InCall, threads, store
  <2> QED
    BY <2>4, <2>5, FramedMirror
<1>14. ASSUME NEW t \in Threads, SaveFinish(t) PROVE MirrorInv'
  <2> DEFINE p == ProcOf[t]
  <2>1. /\ wallet'[p].path = target[t]
        /\ wallet'[p].creds = wallet[p].creds
    BY <1>14, SavedFacts DEF SaveFinish, TypeInv, TypeOK, InCall
  <2>2. /\ UNCHANGED <<content, seen, failed, arg>>
        /\ pc[t] = "finish"
        /\ pc'[t] = IF arg[t] = None THEN "idle" ELSE "audit"
    BY <1>14 DEF SaveFinish, TypeInv, TypeOK, store
  <2>3. Mirror(t)
    OBVIOUS
  <2>4. Mirror(t)'
    BY <2>1, <2>2, <2>3 DEF Mirror, Autosaves
  <2>5. /\ live' \subseteq live \cup {ProcOf[t]}
        /\ \A u \in Threads \ {t} : Framed(u)
    BY <1>14 DEF SaveFinish, Exclusive, Framed, TypeInv, TypeOK, InCall, threads, store
  <2> QED
    BY <2>4, <2>5, FramedMirror
<1>15. ASSUME NEW p \in Procs, Crash(p) PROVE MirrorInv'
  <2>1. ASSUME NEW u \in Threads, ProcOf[u] = p PROVE Mirror(u)'
    <3>1. /\ wallet'[p] = NoWallet /\ seen'[p] = {} /\ failed'[p] = {}
          /\ pc'[u] = "idle" /\ arg'[u] = None
      BY <1>15, <2>1 DEF Crash, TypeInv, TypeOK
    <3> QED
      BY <2>1, <3>1 DEF Mirror, NoWallet
  <2>2. /\ live' \subseteq live
        /\ \A u \in Threads : ProcOf[u] # p => Framed(u)
    BY <1>15 DEF Crash, Framed, TypeInv, TypeOK
  <2> QED
    BY <2>1, <2>2, FramedMirror
<1>16. CASE Tick
  BY <1>16, FramedMirror DEF Tick, Framed, threads, store
<1>17. CASE UNCHANGED vars
  BY <1>17, FramedMirror DEF vars, Framed, threads, store
<1> QED
  BY <1>1, <1>2, <1>3, <1>4, <1>5, <1>6, <1>7, <1>8, <1>9, <1>10, <1>11,
     <1>12, <1>13, <1>14, <1>15, <1>16, <1>17, <1>18 DEF Next

\* The three invariants together are inductive.
LEMMA AlwaysMirror ==
  ASSUME Exclusive
  PROVE  Spec => [](TypeInv /\ LastInv /\ MirrorInv)
<1>1. Init => LastInv /\ MirrorInv
  BY WalletAssumption DEF Init, LastInv, MirrorInv, Mirror
<1>2. TypeInv /\ LastInv /\ [Next]_vars => LastInv'
  BY NextLast
<1>3. TypeInv /\ LastInv /\ MirrorInv /\ [Next]_vars => MirrorInv'
  BY NextMirror
<1> QED
  BY InitType, NextType, <1>1, <1>2, <1>3, PTL DEF Spec

\* Between calls, an autosaving wallet has on disk what it has in memory, save
\* the credentials whose add_credential raised.
THEOREM WalletMemoryMirrorsFile ==
  ASSUME Exclusive
  PROVE  Spec => []MemoryMirrorsFile
<1>1. TypeInv /\ LastInv /\ MirrorInv => MemoryMirrorsFile
  <2> SUFFICES ASSUME TypeInv, LastInv, MirrorInv,
                      NEW p \in live, Quiet(p), Autosaves(wallet[p]),
                      wallet[p].path \in seen[p]
               PROVE  Ids(wallet[p].creds) =
                        Ids(content[wallet[p].path].creds) \cup failed[p]
    BY DEF MemoryMirrorsFile
  <2>1. p \in Procs /\ wallet[p].path \in Paths
    BY DEF TypeInv, TypeOK
  <2>2. PICK t \in Threads : ProcOf[t] = p /\ pc[t] = "idle" /\ Mirror(t)
    BY DEF MirrorInv, Quiet, ThreadsOf
  <2>3. Covers(wallet[p], content[wallet[p].path])
    BY <2>1 DEF LastInv
  <2>4. Ids(content[wallet[p].path].creds) \subseteq Ids(wallet[p].creds)
    <3>1. /\ content[wallet[p].path].creds \in Seq(Credential)
          /\ wallet[p].creds \in Seq(Credential)
      BY <2>1 DEF TypeInv, TypeOK, Wallets, Contents
    <3> QED
      BY <2>3, <3>1 DEF Covers, Ids
  <2> QED
    BY <2>2, <2>4 DEF Mirror
<1> QED
  BY <1>1, AlwaysMirror, PTL

\* A step after which a process has reported nothing new and holds what it held,
\* in memory and in the file its wallet names.
Keeps(p) ==
    /\ p \in live
    /\ posted'[p] = posted[p]
    /\ Ids(wallet[p].creds) \subseteq Ids(wallet'[p].creds)
    /\ Autosaves(wallet'[p]) /\ wallet'[p].path \in seen'[p] =>
         \/ Ids(wallet[p].creds) \subseteq Ids(content'[wallet'[p].path].creds)
         \/ /\ Autosaves(wallet[p]) /\ wallet'[p].path = wallet[p].path
            /\ wallet'[p].path \in seen[p]
            /\ content'[wallet'[p].path] = content[wallet[p].path]

\* Such steps keep the grants of that process stored; a process that reports,
\* or starts again, has to be looked at.
LEMMA KeepsReported ==
  ASSUME ReportedGrantsStored,
         \A p \in live' : posted'[p] = {} \/ Keeps(p)
  PROVE  ReportedGrantsStored'
<1> SUFFICES ASSUME NEW p \in live', NEW v \in posted'[p]
             PROVE  /\ v \in Grants /\ p \in HasClient
                    /\ v \in Ids(wallet'[p].creds)
                    /\ Autosaves(wallet'[p]) /\ wallet'[p].path \in seen'[p] =>
                         v \in Ids(content'[wallet'[p].path].creds)
  BY DEF ReportedGrantsStored, Autosaves
<1>1. Keeps(p)
  OBVIOUS
<1> QED
  BY <1>1 DEF Keeps, ReportedGrantsStored

\* ReportedGrantsStored is inductive beside the mirror of memory and file.
LEMMA NextReported ==
  ASSUME Exclusive
  PROVE  /\ TypeInv /\ LastInv /\ MirrorInv /\ ReportedGrantsStored
         /\ [Next]_vars
         => ReportedGrantsStored'
<1> SUFFICES ASSUME TypeInv, LastInv, MirrorInv, ReportedGrantsStored, [Next]_vars
             PROVE  ReportedGrantsStored'
  OBVIOUS
<1> USE WalletAssumption
<1>1. ASSUME NEW t \in Threads, New(t) \/ Load(t) PROVE ReportedGrantsStored'
  <2>1. \A p \in live' : posted'[p] = {} \/ Keeps(p)
    BY <1>1 DEF New, Load, Hold, Keeps, TypeInv, TypeOK
  <2> QED
    BY <2>1, KeepsReported
<1>2. ASSUME NEW t \in Threads, AddAppend(t) PROVE ReportedGrantsStored'
  <2> DEFINE p == ProcOf[t]
  <2>1. wallet[p] \in Wallets /\ NewCredential(arg[t]) \in Credential
    BY <1>2 DEF AddAppend, NewCredential, Credential, TypeInv, TypeOK, InCall
  <2>2. /\ wallet'[p].pass = wallet[p].pass
        /\ wallet'[p].path = wallet[p].path
        /\ wallet'[p].creds = Append(wallet[p].creds, NewCredential(arg[t]))
    BY <1>2, <2>1, AddedFacts DEF AddAppend, TypeInv, TypeOK
  <2>3. Ids(wallet[p].creds) \subseteq Ids(wallet'[p].creds)
    BY <2>1, <2>2, IdsOfAppend DEF Wallets
  <2>4. /\ UNCHANGED <<live, content, seen, posted>>
        /\ \A q \in Procs \ {p} : wallet'[q] = wallet[q]
    BY <1>2 DEF AddAppend, store
  <2>5. \A q \in live' : Keeps(q)
    BY <2>2, <2>3, <2>4 DEF Keeps, Autosaves, TypeInv, TypeOK
  <2> QED
    BY <2>5, KeepsReported
<1>3. ASSUME NEW t \in Threads, Audit(t) PROVE ReportedGrantsStored'
  <2> DEFINE p == ProcOf[t]
  <2>1. /\ UNCHANGED <<live, wallet, content, seen>>
        /\ pc[t] = "audit" /\ p \in Procs
    BY <1>3 DEF Audit, store
  <2>2. CASE p \in HasClient /\ arg[t] \in Grants
    <3>1. posted' = [posted EXCEPT ![p] = @ \cup {arg[t]}]
      BY <1>3, <2>2 DEF Audit
    <3>2. Mirror(t) /\ arg[t] # None
      BY <2>2 DEF MirrorInv
    <3>3. /\ arg[t] \in Ids(wallet[p].creds)
          /\ Autosaves(wallet[p]) /\ wallet[p].path \in seen[p] =>
               arg[t] \in Ids(content[wallet[p].path].creds)
      BY <2>1, <3>2 DEF Mirror
    <3>4. \A q \in Procs : \A v \in posted'[q] :
            v \in posted[q] \/ (q = p /\ v = arg[t])
      BY <3>1 DEF TypeInv, TypeOK
    <3>5. live' \subseteq Procs
      BY <2>1 DEF TypeInv, TypeOK
    <3>6. SUFFICES ASSUME NEW q \in live', NEW v \in posted'[q]
                   PROVE  /\ v \in Grants /\ q \in HasClient
                          /\ v \in Ids(wallet[q].creds)
                          /\ Autosaves(wallet[q]) /\ wallet[q].path \in seen[q] =>
                               v \in Ids(content[wallet[q].path].creds)
      BY <2>1 DEF ReportedGrantsStored, Autosaves
    <3>7. CASE v \in posted[q]
      BY <2>1, <3>7 DEF ReportedGrantsStored
    <3>8. CASE q = p /\ v = arg[t]
      BY <2>2, <3>3, <3>8
    <3> QED
      BY <3>4, <3>5, <3>7, <3>8
  <2>3. CASE ~(p \in HasClient /\ arg[t] \in Grants)
    BY <1>3, <2>1, <2>3 DEF Audit, ReportedGrantsStored, Autosaves
  <2> QED
    BY <2>2, <2>3
<1>4. ASSUME NEW t \in Threads,
             \/ AddCheck(t) \/ AuditReturns(t) \/ SaveCall(t) \/ SaveRefused(t)
             \/ SaveSnapshot(t) \/ SaveOpen(t) \/ SaveOpenFails(t)
             \/ SaveWriteFails(t)
      PROVE  UNCHANGED <<live, wallet, content, seen, posted>>
  BY <1>4 DEF AddCheck, AuditReturns, SaveCall, SaveRefused, SaveSnapshot,
       SaveOpen, SaveOpenFails, SaveWriteFails, Raise, store
<1>5. ASSUME UNCHANGED <<live, wallet, content, seen, posted>>
      PROVE  ReportedGrantsStored'
  BY <1>5 DEF ReportedGrantsStored, Autosaves
<1>6. ASSUME NEW t \in Threads, SaveWrite(t) PROVE ReportedGrantsStored'
  <2> DEFINE p == ProcOf[t]
  <2>1. /\ target[t] \in Paths /\ content' = [content EXCEPT ![target[t]] = out[t]]
        /\ UNCHANGED <<live, wallet, posted>>
        /\ pc[t] = "write"
        /\ seen' = [q \in Procs |-> IF q = p THEN seen[q] \cup {target[t]}
                                             ELSE seen[q] \ {target[t]}]
    BY <1>6 DEF SaveWrite, TypeInv, InCall
  <2>2. out[t].creds = wallet[p].creds
    BY <2>1 DEF LastInv
  <2>3. \A q \in live' : Keeps(q)
    BY <2>1, <2>2 DEF Keeps, TypeInv, TypeOK
  <2> QED
    BY <2>3, KeepsReported
<1>7. ASSUME NEW t \in Threads, SaveOverlaps(t) PROVE ReportedGrantsStored'
  <2>1. /\ UNCHANGED <<live, wallet, posted, content>>
        /\ \A q \in Procs : seen'[q] \subseteq seen[q]
    BY <1>7 DEF SaveOverlaps, TypeInv, TypeOK
  <2>2. \A q \in live' : Keeps(q)
    BY <2>1 DEF Keeps, TypeInv, TypeOK
  <2> QED
    BY <2>2, KeepsReported
<1>8. ASSUME NEW t \in Threads, SaveFinish(t) PROVE ReportedGrantsStored'
  <2> DEFINE p == ProcOf[t]
  <2>1. /\ wallet'[p].path = target[t]
        /\ wallet'[p].creds = wallet[p].creds
    BY <1>8, SavedFacts DEF SaveFinish, TypeInv, TypeOK, InCall
  <2>2. /\ UNCHANGED <<live, content, seen, posted>>
        /\ pc[t] = "finish"
        /\ \A q \in Procs \ {p} : wallet'[q] = wallet[q]
    BY <1>8 DEF SaveFinish, store
  <2>3. target[t] \in seen[p] =>
          Ids(wallet[p].creds) \subseteq Ids(content[target[t]].creds)
    BY <2>2 DEF MirrorInv, Mirror
  <2>4. \A q \in live' : Keeps(q)
    BY <2>1, <2>2, <2>3 DEF Keeps, TypeInv, TypeOK
  <2> QED
    BY <2>4, KeepsReported
<1>9. ASSUME NEW p \in Procs, Crash(p) PROVE ReportedGrantsStored'
  <2>1. \A q \in live' : Keeps(q)
    BY <1>9 DEF Crash, Keeps, TypeInv, TypeOK
  <2> QED
    BY <2>1, KeepsReported
<1>10. CASE Tick \/ UNCHANGED vars
  BY <1>5, <1>10 DEF Tick, vars, store
<1> QED
  BY <1>1, <1>2, <1>3, <1>4, <1>5, <1>6, <1>7, <1>8, <1>9, <1>10 DEF Next

\* CONSENT_GRANTED never runs ahead of the stored grant, and while the process
\* keeps the wallet the grant stays stored, however late the event is served.
THEOREM WalletReportedGrantsStored ==
  ASSUME Exclusive
  PROVE  Spec => []ReportedGrantsStored
<1>1. Init => ReportedGrantsStored
  BY DEF Init, ReportedGrantsStored
<1>2. /\ TypeInv /\ LastInv /\ MirrorInv /\ ReportedGrantsStored /\ [Next]_vars
      => ReportedGrantsStored'
  BY NextReported
<1> QED
  BY <1>1, <1>2, AlwaysMirror, PTL DEF Spec
=============================================================================
