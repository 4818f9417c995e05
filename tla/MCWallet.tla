------------------------------- MODULE MCWallet -------------------------------
(* Instances of Wallet for TLC. *)
EXTENDS Wallet

CONSTANTS p1, p2, t1, t2, x1, d1, d2, k1, k2, w1, w2, v3, u1

\* Thread t1 runs in process p1, any other in p2.
OneEach == [t \in Threads |-> IF t = t1 THEN p1 ELSE p2]

\* v3 belongs to d2, the other credentials to d1.
Subjects == [v \in Vcs |-> IF v = v3 THEN d2 ELSE d1]

\* Every grant is from one service provider, for one user.
OneParty == [v \in Vcs |-> u1]

Args(d, k, w, x) == [did |-> d, key |-> k, pass |-> w, path |-> x]

\* A complete wallet, without a path or told one at once.
Plain == {Args(d1, k1, w1, None), Args(d1, k1, w1, x1)}

\* Also: a path without a key (autosave is refused, or a pair is generated),
\* no passphrase, no DID, and another agent with another passphrase.
Varied == Plain \cup {Args(d1, None, w1, x1), Args(d1, k1, None, x1),
                      Args(None, k1, w1, None), Args(d2, k2, w2, None)}

\* A wallet for the client to make keys for, and one that brings its own.
Generated == {Args(d1, None, w1, None), Args(d1, k1, w1, None)}
=============================================================================
