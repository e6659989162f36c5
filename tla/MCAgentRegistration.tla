---- MODULE MCAgentRegistration ----
(* Instances of AgentRegistration for TLC. *)
EXTENDS AgentRegistration, TLC

CONSTANTS r1, r2, r3, k1, k2

\* Two requests for one API key, one for another.
SomeIdOf == r1 :> k1 @@ r2 :> k1 @@ r3 :> k2
PairIdOf == r1 :> k1 @@ r2 :> k2
====
