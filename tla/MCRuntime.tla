----------------------------- MODULE MCRuntime ------------------------------
(* Instances of Runtime small enough for TLC: one key, whose only complete *)
(* inventory lists it as callable.                                          *)
EXTENDS Runtime, TLC

CONSTANTS a, b, g, h, k, c, d

OneSid == {a}
TwoSid == {a, b}
OneGen == {g}
TwoGen == {g, h}
MCKey  == {k}
NoKey  == {}
OneCall == {c}
TwoCall == {c, d}
MCInventories == {{[key |-> k, ready |-> TRUE]}}

GoodOrDenied == {"complete", "auth-failure"}
GoodOnly     == {"complete"}
GoodOrFailed == {"complete", "transient-failure"}
FailureOnly  == {"transient-failure"}

Symmetry == Permutations({a, b}) \cup Permutations({g, h}) \cup Permutations({c, d})
=============================================================================
