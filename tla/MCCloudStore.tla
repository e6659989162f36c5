---- MODULE MCCloudStore ----
(* Instances of CloudStore for TLC. *)
EXTENDS CloudStore, TLC

CONSTANTS i1, i2, c1, c2, c3, k1, k2

\* Two calls in one instance, one in another.
SomeInstanceOf == c1 :> i1 @@ c2 :> i1 @@ c3 :> i2
====
