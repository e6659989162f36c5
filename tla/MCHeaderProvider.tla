---- MODULE MCHeaderProvider ----
(* Instances of HeaderProvider for TLC. *)
EXTENDS HeaderProvider

CONSTANTS p1, p2

\* Tokens that are valid, without a lifetime, and expired.
SomeLifetimes == {-1, 0, 8, 9}

\* Half of a lifetime of 8 or 9 leaves 4 units for 3 requests, the least it may.
ASSUME FreshAssumption == LongLifetimes
====
