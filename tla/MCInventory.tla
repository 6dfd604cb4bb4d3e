---------------------------- MODULE MCInventory ----------------------------
(* A relay, an official service in two regions and a loopback server; a    *)
(* catalogue of up to five models read two a page, at most two pages.      *)
EXTENDS Inventory

Place(scheme, host, official, beijing) ==
  [scheme |-> scheme, host |-> host, path |-> "base",
   official |-> official, beijing |-> beijing]

MCHomes == {Place("https", "studio", TRUE, TRUE), Place("https", "intl", TRUE, FALSE),
            Place("https", "relay", FALSE, FALSE), Place("http", "relay", FALSE, FALSE),
            Place("http", "local", FALSE, FALSE)}
MCLoopback == {"local"}
MCTargets == {Place("none", "none", FALSE, FALSE), Place("ftp", "relay", FALSE, FALSE),
              Place("https", "relay", FALSE, FALSE), Place("https", "other", FALSE, FALSE),
              Place("http", "local", FALSE, FALSE)}
MCCatalogues == {<<>>, <<"a", "b", "c">>, <<"a", "b", "c", "d", "e">>}
MCGrants == {<<>>, <<"a", "z">>}
MCDeployed == {<<>>, << <<"x", TRUE>>, <<"y", FALSE>> >>}
=============================================================================
