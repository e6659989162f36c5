---- MODULE MCActionHandling ----
(* Instances of ActionHandling for TLC. *)
EXTENDS ActionHandling, TLC

CONSTANTS i1, i2, x1, x2, h1, h2, h3

ClusterAgentOf == h1 :> i1 @@ h2 :> i2 @@ h3 :> i1
ClusterActionOf == h1 :> x1 @@ h2 :> x1 @@ h3 :> x2
ClusterKindOf == h1 :> "approve" @@ h2 :> "reject" @@ h3 :> "auto"

PairAgentOf == h1 :> i1 @@ h2 :> i2
PairActionOf == h1 :> x1 @@ h2 :> x1
PairKindOf == h1 :> "auto" @@ h2 :> "approve"

\* The same message reaches the auto approvers of both instances.
TwinKindOf == h1 :> "auto" @@ h2 :> "auto"

\* Two messages for different actions reach one instance.
SharedAgentOf == h1 :> i1 @@ h2 :> i1
SharedActionOf == h1 :> x1 @@ h2 :> x2

\* The same request is sent to both instances.
RepeatKindOf == h1 :> "approve" @@ h2 :> "approve"
====
