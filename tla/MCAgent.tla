---- MODULE MCAgent ----
(* Instances of Agent for TLC. *)
EXTENDS Agent, TLC

CONSTANTS me, c1, x1, x2, h1, h2, h3

\* One action is approved and rejected at a time, another one approved.
MCActionOf == h1 :> x1 @@ h2 :> x1 @@ h3 :> x2
MCKindOf == h1 :> "approve" @@ h2 :> "reject" @@ h3 :> "approve"
====
