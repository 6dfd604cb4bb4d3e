------------------------------ MODULE MCStores ------------------------------
(* Documents over three models: one that is as before, one that loses one  *)
(* or two, one that claims tiers or an open end, an empty one, a damaged   *)
(* one; two of them under one etag.                                        *)
EXTENDS Stores, TLC

CONSTANTS p1, p2, p3

MCName == 0..7
Item(options, reasoning) == [options |-> options, reasoning |-> reasoning]
Doc(etag, ok, models) == [etag |-> etag, wellFormed |-> ok, models |-> models]
Plain == Item({}, FALSE)
MCDocs ==
  {Doc(6, TRUE, [a |-> Plain, b |-> Plain, c |-> Item({"low", "high"}, TRUE)]),
   Doc(7, TRUE, [a |-> Plain, c |-> Item({"high"}, TRUE)]),
   Doc(None, TRUE, [c |-> Item({}, TRUE)]),
   Doc(7, TRUE, [a |-> Item({}, TRUE), b |-> Plain]),
   Doc(6, TRUE, [x \in {} |-> Plain]),
   Doc(None, FALSE, [a |-> Plain])}
MCTime == [metadata |-> 1, quarantine |-> 4, projection |-> 2]
Symmetry == Permutations({p1, p2, p3})
=============================================================================
