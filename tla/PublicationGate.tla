--------------------------- MODULE PublicationGate --------------------------
(***************************************************************************)
(* What a discovery coordinator promises its host, without jobs, tokens,   *)
(* epochs or refresh states: a set of automatic routes is shown on behalf  *)
(* of one owner (a semantic identity and a credential generation).  Only   *)
(* an inventory obtained for the owner of the moment is ever put on show,  *)
(* a change of semantic identity empties the show, and once the gate is    *)
(* closed nothing changes.                                                 *)
(***************************************************************************)
CONSTANTS
  Sid,   \* semantic identities
  Gen,   \* credential generations
  Key,   \* selection keys
  None   \* no identity yet

Owner == [sid : Sid, gen : Gen]

VARIABLES
  owner,   \* the identity observed last, or None
  shown,   \* the keys of the automatic routes on show
  source,  \* whose inventory they were taken from, or None
  open     \* FALSE once disposed

gateVars == <<owner, shown, source, open>>

GateTypeOK ==
  /\ owner \in Owner \cup {None}
  /\ shown \subseteq Key
  /\ source \in Owner \cup {None}
  /\ open \in BOOLEAN

GateInit ==
  /\ owner = None
  /\ shown = {}
  /\ source = None
  /\ open = TRUE

SameSubject(o) == owner # None /\ owner.sid = o.sid

(* Another semantic identity: its predecessor's routes leave with it. *)
Rebind(o) ==
  /\ open
  /\ ~SameSubject(o)
  /\ owner' = o
  /\ shown' = {}
  /\ source' = None
  /\ UNCHANGED open

(* The same identity under another credential keeps what is on show. *)
Rotate(o) ==
  /\ open
  /\ SameSubject(o)
  /\ owner' = o
  /\ UNCHANGED <<shown, source, open>>

Publish(keys) ==
  /\ open
  /\ owner # None
  /\ shown' = keys
  /\ source' = owner
  /\ UNCHANGED <<owner, open>>

Withdraw ==
  /\ open
  /\ shown' = {}
  /\ source' = None
  /\ UNCHANGED <<owner, open>>

Close ==
  /\ open
  /\ open' = FALSE
  /\ UNCHANGED <<owner, shown, source>>

GateNext ==
  \/ \E o \in Owner : Rebind(o) \/ Rotate(o)
  \/ \E keys \in SUBSET Key : Publish(keys)
  \/ Withdraw
  \/ Close

GateSpec == GateInit /\ [][GateNext]_gateVars

(* Routes on show belong to the semantic identity observed last. *)
ShownIsOwned == shown # {} => /\ owner # None
                              /\ source # None
                              /\ source.sid = owner.sid

=============================================================================
