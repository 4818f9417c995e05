----------------------------- MODULE MCPresentation -----------------------------
(* Instances of Presentation for TLC. *)
EXTENDS Presentation

\* "orders" wants one scope and knows its own service; "write", whose name is a
\* scope, has a middleware that wants no scope and knows no service, which are the
\* defaults, and that takes self-signed credentials.
Service  == [t \in Tools |-> IF t = "orders" THEN "s1" ELSE None]
Required == [t \in Tools |-> IF t = "orders" THEN {"read"} ELSE {}]
Marked   == [t \in Tools |-> "read"]
Granted  == [v \in Vcs |-> IF v = "v1" THEN {"read"} ELSE {"write"}]
=============================================================================
