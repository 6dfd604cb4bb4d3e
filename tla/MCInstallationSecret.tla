------------------------ MODULE MCInstallationSecret ------------------------
(* Instances of InstallationSecret for TLC. *)
EXTENDS InstallationSecret, TLC

CONSTANTS p, q, r

Two   == {p, q}
Three == {p, q, r}

(* Processes are only compared with one another. *)
Symmetry == Permutations({p, q, r})
=============================================================================
