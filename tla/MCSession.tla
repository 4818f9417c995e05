------------------------------ MODULE MCSession -------------------------------
(* Instances of Session for TLC: values that a cfg cannot state. *)
EXTENDS Session, TLC

CONSTANTS m1, m2

SmallSkew == {-300, 0, 300}
NoSkew    == {0}

ManagerSymmetry == Permutations({m1, m2})
=============================================================================
