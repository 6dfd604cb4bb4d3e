---------------------------- MODULE MCCacheLock -----------------------------
(* Instances of CacheLock for TLC. *)
EXTENDS CacheLock, TLC

CONSTANTS p, q, r

Two   == {p, q}
Three == {p, q, r}

(* Processes are only compared with one another. *)
Symmetry == Permutations({p, q, r})
=============================================================================
