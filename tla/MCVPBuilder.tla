---------------------------- MODULE MCVPBuilder ----------------------------
(* Instances of VPBuilder for TLC: keys and signatures are two bytes long. *)
EXTENDS VPBuilder

CONSTANTS agent, grant, both, other, k0, k1

Types == [v \in Vcs |->
    CASE v = agent -> {"HelixAgentCredential"}
      [] v = grant -> {"DelegationGrantCredential"}
      [] v = both  -> {"HelixAgentCredential", "DelegationGrantCredential"}
      [] OTHER     -> {}]

\* A public key of zeroes, and one that carries at every place.
Publics == [k \in Seeds |-> IF k = k0 THEN <<0, 0>> ELSE <<255, 255>>]

\* In base58: "zz", "15R" (a leading zero byte), "LUv".
Bytes == {<<13, 35>>, <<0, 255>>, <<255, 255>>}

Domains == <<"a.example", "b.example">>
=============================================================================
