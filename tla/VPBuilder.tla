------------------------------ MODULE VPBuilder ------------------------------
(***************************************************************************)
(* VPBuilder, its Ed25519 proofs (proof.py, vp_crypto.py) and the DID      *)
(* document that a verifier takes the public key from (did.py, keys.py).   *)
(* The builder keeps the caller's own list of credentials, and so does the *)
(* presentation that sign() returns: what is checked, what is signed and   *)
(* what is sent are one list at three times.                               *)
(*                                                                         *)
(* Ed25519 and SHA-256 are the libraries': a signature is bytes that no    *)
(* other message or key has, and canonical JSON sorts every key, so that a *)
(* payload is a function of its fields.                                    *)
(***************************************************************************)
EXTENDS Base58

CONSTANTS
    Vcs,            \* credentials
    TypesOf,        \* the set of HelixID types of each credential
    Seeds,          \* private keys
    PublicOf,       \* the public key of each, as bytes
    Dids,           \* holders, whoever has their keys
    Services, Users, Nonces,
    Signatures,     \* the bytes of the signatures
    Endpoints,      \* domains of a DID document
    MaxList,        \* bound: credentials in the list
    MaxVps          \* bound: presentations signed

\* A key is bytes and determines its seed.
ASSUME KeyAssumption ==
    /\ PublicOf \in [Seeds -> Seq(0..255)]
    /\ \A s, t \in Seeds : PublicOf[s] = PublicOf[t] => s = t

\* A signature is as good as random bytes: not all of them are zero, and the
\* text of none is another's after a letter z.
ASSUME SignatureAssumption ==
    /\ Signatures \subseteq Seq(0..255)
    /\ \A a \in Signatures : \E i \in DOMAIN a : a[i] # 0
    /\ \A a, b \in Signatures : Encode(a) # <<Z>> \o Encode(b)

VARIABLES
    creds,      \* the caller's list
    builder,    \* the VPBuilder in use, or None; checked: the list is as it was then
    ed,         \* what Ed25519 has signed: key, message, signature
    vps         \* the presentations returned by sign()

vars == <<creds, builder, ed, vps>>

IsAgentAuthority(vc) == "HelixAgentCredential" \in TypesOf[vc]
IsGrant(vc) == "DelegationGrantCredential" \in TypesOf[vc]

\* The private keys that callers have: raw or PKCS8 hex of a seed, or no key.
PrivateKeys == [form : {"raw", "pkcs8", "other"}, seed : Seeds]

Normalize(key) == IF key.form = "other" THEN None ELSE key.seed

Init ==
    /\ creds = <<>>
    /\ builder = None
    /\ ed = {}
    /\ vps = {}

\* The application adds to its list, before or after it has made a builder.
Edit ==
    /\ Len(creds) < MaxList
    /\ \E vc \in Vcs : creds' = Append(creds, vc)
    /\ builder' = IF builder = None THEN None ELSE [builder EXCEPT !.checked = FALSE]
    /\ UNCHANGED <<ed, vps>>

\* The entries of each kind, by their places in the list.
AgentEntries(list) == {i \in DOMAIN list : IsAgentAuthority(list[i])}

GrantEntries(list) == {i \in DOMAIN list : IsGrant(list[i])}

\* Mutant: an agent credential is enough.
WellFormed_AnyOther(list) == list # <<>> /\ AgentEntries(list) # {}

\* __post_init__ does not raise.
WellFormed(list) ==
    /\ list # <<>>
    /\ AgentEntries(list) # {}
    /\ Cardinality(AgentEntries(list)) + Cardinality(GrantEntries(list)) = Len(list)

MakeBuilder(holder, service, user) ==
    /\ WellFormed(creds)
    /\ builder' = [holder |-> holder, service |-> service, user |-> user, checked |-> TRUE]
    /\ UNCHANGED <<creds, ed, vps>>

-----------------------------------------------------------------------------
\* Mutant: the holder is put in after the proof has been made.
Payload_NoHolder(vp, list) ==
    [verifiableCredential |-> list, nonce |-> vp.nonce,
     delegatedBy |-> vp.user, targetService |-> vp.service]

\* What is signed and sent, but for id and expirationDate, which are as random
\* as the nonce or as fixed as the type; delegatedBy is absent without a user.
Payload(vp, list) ==
    [holder |-> vp.holder, verifiableCredential |-> list, nonce |-> vp.nonce,
     delegatedBy |-> vp.user, targetService |-> vp.service]

\* sign_bytes: the same key and message always give the same signature.
SignBytes(seed, message, bytes) ==
    LET known == {s \in ed : s.key = PublicOf[seed] /\ s.message = message}
    IN  /\ IF known = {} THEN \A s \in ed : s.bytes # bytes
                         ELSE \E s \in known : s.bytes = bytes
        /\ ed' = ed \cup {[key |-> PublicOf[seed], message |-> message, bytes |-> bytes]}

\* VPBuilder.sign, with any key: the holder is the builder's own, and whether the
\* key is that of the holder nobody asks.  A nonce may come twice, through the
\* overrides of the tests.
Sign(key, nonce, bytes) ==
    /\ builder # None
    /\ Cardinality(vps) < MaxVps
    /\ Normalize(key) # None
    /\ LET vp == [signer |-> key.seed,
                  holder |-> builder.holder, service |-> builder.service,
                  user |-> builder.user, nonce |-> nonce, over |-> creds,
                  checked |-> builder.checked, proofValue |-> Encode(bytes)]
       IN  /\ SignBytes(Normalize(key), Payload(vp, creds), bytes)
           /\ vps' = vps \cup {vp}
    /\ UNCHANGED <<creds, builder>>

Next ==
    \/ Edit
    \/ \E h \in Dids, s \in Services, u \in Users \cup {None} : MakeBuilder(h, s, u)
    \/ \E k \in PrivateKeys, n \in Nonces, b \in Signatures : Sign(k, n, b)

Spec == Init /\ [][Next]_vars

-----------------------------------------------------------------------------
(* The verifier's side. *)

VerifySignature(message, bytes, key) ==
    [key |-> key, message |-> message, bytes |-> bytes] \in ed

VerifyValue(message, text, key) ==
    Decode(text) # None /\ VerifySignature(message, Decode(text), key)

\* Mutant: a leading z is always taken for the multibase letter.
VerifyEd25519Proof_Stripped(message, text, key) ==
    VerifyValue(message, IF text # <<>> /\ text[1] = Z THEN Tail(text) ELSE text, key)

\* verify_ed25519_proof: the text as it is, then without a leading z.
VerifyEd25519Proof(message, text, key) ==
    \/ VerifyValue(message, text, key)
    \/ text # <<>> /\ text[1] = Z /\ VerifyValue(message, Tail(text), key)

BuildServiceEndpoints(domains) ==
    [i \in DOMAIN domains |-> [id |-> i, serviceEndpoint |-> domains[i]]]

\* The service key is there only if there are endpoints.
BuildDidDocument(did, key, endpoints) ==
    [id |-> did, service |-> IF endpoints = <<>> THEN None ELSE endpoints,
     verificationMethod |-> <<[type |-> "Ed25519VerificationKey2020", controller |-> did,
                               publicKeyMultibase |-> PublicKeyToMultibase(key)]>>]

\* The first method of the type; a ValueError if there is none.
ExtractPublicKey(document) ==
    LET methods == document.verificationMethod
        usable == {i \in DOMAIN methods : methods[i].type = "Ed25519VerificationKey2020"}
    IN  IF usable = {} THEN None
        ELSE MultibaseToPublicKey(methods[Min(usable)].publicKeyMultibase)

\* A document in which a key of another type, in its own encoding, comes first.
Extended(document) ==
    [document EXCEPT !.verificationMethod =
       <<[type |-> "JsonWebKey2020", controller |-> document.id,
          publicKeyMultibase |-> <<Z, 58>>]>> \o @]

\* A document with the key of a seed, whichever DID it is of.
Documents(did, seed) ==
    LET built == BuildDidDocument(did, PublicOf[seed], BuildServiceEndpoints(Endpoints))
    IN  {built, Extended(built)}

\* The keys that a verifier may end up with who has a document with the key of s.
VerifierKeys ==
    [s \in Seeds |-> UNION {{ExtractPublicKey(d) : d \in Documents(h, s)} : h \in Dids}]

-----------------------------------------------------------------------------
\* A presentation verifies exactly with a DID document that has the key it was
\* signed with, whoever its holder is, and exactly while the caller's list is
\* what it was at signing (vp_builder.py:87 keeps the list itself); with or
\* without the multibase letter before the proof value, whatever its first bytes
\* are, and whatever methods the document has.
VerifiesWhileUnchanged ==
    \A vp \in vps, seed \in Seeds :
      \A key \in VerifierKeys[seed], text \in {vp.proofValue, <<Z>> \o vp.proofValue} :
        VerifyEd25519Proof(Payload(vp, creds), text, key)
          <=> seed = vp.signer /\ creds = vp.over

\* A proof made for one presentation verifies no other one, even of the same
\* nonce and key: not another holder's, service's or user's, nor other
\* credentials; nor does it verify under another key than its own.
ProofsNotInterchangeable ==
    \A p, q \in vps, seed \in Seeds :
      VerifyEd25519Proof(Payload(p, p.over), q.proofValue, PublicOf[seed]) =>
        /\ p.service = q.service /\ p.user = q.user /\ p.holder = q.holder
        /\ p.over = q.over /\ p.nonce = q.nonce
        /\ seed = q.signer

\* What is signed has an agent credential and otherwise grants (vp_builder.py:54),
\* with two exceptions: the list was changed after __post_init__, or it has a
\* credential of both kinds, which is counted twice and hides one of neither.
SignedAsChecked ==
    \A vp \in vps :
      LET types == {TypesOf[vp.over[i]] : i \in DOMAIN vp.over}
          Kinds == {"HelixAgentCredential", "DelegationGrantCredential"}
      IN  vp.checked /\ (\A k \in types : Cardinality(k \cap Kinds) < 2) =>
            /\ \E k \in types : "HelixAgentCredential" \in k
            /\ \A k \in types : k \cap Kinds # {}
=============================================================================
