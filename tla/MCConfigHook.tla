---------------------------- MODULE MCConfigHook ----------------------------
(* An instance of ConfigHook: a cached provider with a metadata endpoint    *)
(* and an uncached one whose answers vary; the user wrote a model of each.   *)
EXTENDS ConfigHook, TLC

CONSTANTS p, q, m, n, x, y, u, v, r, s, t, f, g

TwoProvider == {p, q}
MCCached == {p}
MCWithInfo == {p}
TwoModel == {m, n}
MCConfig == {x, y}
MCUrl == {u, v}
MCReasoning == {r, s, t}
MCFingerprint == {f, g}
(* s and t differ in what the fingerprint leaves out.                       *)
MCFingerprintOf == [i \in MCReasoning |-> IF i = r THEN f ELSE g]

UserModel == [k \in Field |-> IF k = "variants" THEN Unset ELSE "authored"]

MCAuthored == [i \in Provider |-> [j \in Model |-> IF j = m THEN UserModel ELSE None]]

MCAnswers == [i \in Provider |-> IF i = p THEN {{m, n}} ELSE {{m}, {n}}]
MCOverridable == {n}
(* The second config object differs from the first in the fingerprint, in   *)
(* what it leaves out, or in the endpoint.                                  *)
MCSettings == {[i \in Config |-> IF i = x THEN [url |-> u, reasoning |-> s] ELSE other] :
  other \in {[url |-> u, reasoning |-> r], [url |-> u, reasoning |-> t],
            [url |-> v, reasoning |-> s]}}
=============================================================================
