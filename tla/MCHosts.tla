------------------------------ MODULE MCHosts ------------------------------
(* Two keys that the whitelist admits, one it does not; two ways to        *)
(* serialise an entry and two identity changes.                            *)
EXTENDS Hosts

MCKey == {"k", "l", "m"}
MCApiId == [x \in MCKey |-> IF x = "m" THEN "other" ELSE "remote"]
MCUserWhitelist == {"remote", "nowhere"}
MCExplicit == {"k"}
=============================================================================
