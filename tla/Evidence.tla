----------------------------- MODULE Evidence -----------------------------
(***************************************************************************)
(* src/src/capabilities: what a record of evidence may say, how the        *)
(* sources finish one, and how the records of one claim are merged.  An    *)
(* absent field is None, an array of values the set of them, a time and a  *)
(* revision a number (0: none), and an id a number in the ids' order.      *)
(* Claims, surfaces and efforts are shortened names.                       *)
(***************************************************************************)
EXTENDS Integers, FiniteSets

CONSTANT None

Effective == {"minimal", "low", "medium", "high", "max"}
Payload == {"values", "negatives", "norm", "wire", "scalar", "budget"}

(* CLAIM_ALLOWED_FIELDS                                                    *)
Allowed ==
  [identity      |-> {"scalar"},
   support       |-> {},
   accepted      |-> {"values", "negatives"},
   effective     |-> {"values", "negatives"},
   normalization |-> {"norm", "wire"},
   default       |-> {"scalar"},
   mandatory     |-> {"scalar"},
   toggle        |-> {"values", "scalar", "negatives"},
   budget        |-> {"budget"},
   transport     |-> {"wire", "values", "scalar"}]

ValueClaims == {"accepted", "effective", "toggle"}
Authorities == {"exact", "high", "medium", "low"}
Classes == {"native", "registry", "manual", "public"}
Rank == [exact |-> 4, high |-> 3, medium |-> 2, low |-> 1]

(* ReasoningCapabilityEvidence, before its authority is settled.           *)
EvidenceFields ==
  {"claim", "tuple", "support", "completeness", "values", "negatives", "norm", "wire", "scalar",
   "budget", "authority", "class", "curated", "revision", "received", "id"}
IsDraft(d) ==
  /\ d = [f \in EvidenceFields |-> d[f]]
  /\ d.authority \in Authorities \cup {None}
  /\ d.revision \in Int /\ d.received \in Int /\ d.id \in Int

(* validateReasoningCapabilityEvidence                                     *)
Valid(r) ==
  /\ \A f \in Payload : r[f] # None => f \in Allowed[r.claim]
  /\ ~(r.negatives # None /\ r.completeness = "exhaustive" /\ r.support = "supported")
  /\ r.norm # None => \A v \in DOMAIN r.norm : r.norm[v] \in Effective \cup {"none"}
  /\ r.wire # None => DOMAIN r.wire \subseteq Effective
  /\ r.budget # None => r.budget.min <= r.budget.max

---------------------------------------------------------------------------
(* The sources.                                                            *)

(* The authority each factory gives a draft, None when it refuses it.      *)
Authority(class, draft) ==
  CASE class = "native"   -> IF draft.authority = None THEN "exact" ELSE draft.authority
    [] class = "registry" -> IF draft.authority = None THEN "high" ELSE draft.authority
    [] class = "manual"   -> "medium"
    [] class = "public"   -> IF draft.authority \in {None, "low"} THEN "low" ELSE None

(* FORBIDDEN_FOR_PUBLIC and the provenance a curated entry must carry.     *)
Permitted(class, draft) ==
  /\ class = "public" => draft.claim \notin {"accepted", "transport"}
  /\ class = "registry" => draft.curated /\ draft.revision > 0

(* finishEvidence: the record, or None for the error it throws.            *)
Finish(class, draft) ==
  LET r == [draft EXCEPT !.authority = Authority(class, draft), !.class = class]
  IN IF r.authority # None /\ Permitted(class, draft) /\ Valid(r) THEN r ELSE None

---------------------------------------------------------------------------
(* compareRecords, a total order of records with distinct ids.             *)
Before(a, b) ==
  \/ a.revision > b.revision
  \/ /\ a.revision = b.revision
     /\ \/ Rank[a.authority] > Rank[b.authority]
        \/ /\ a.authority = b.authority
           /\ \/ a.received > b.received
              \/ a.received = b.received /\ a.id < b.id

Top(R) == CHOOSE r \in R : \A q \in R \ {r} : Before(r, q)

(* The records after r up to the first of another authority.               *)
Peers(r, R) ==
  {q \in R : /\ Before(r, q)
             /\ \A m \in R : Before(r, m) /\ (m = q \/ Before(m, q)) => m.authority = r.authority}

Listed(s) == IF s = None THEN {} ELSE s
Net(r) == Listed(r.values) \ Listed(r.negatives)

Known(claim, records) == {r \in records : r.claim = claim /\ r.support # "unknown"}

Unresolved == [kind |-> "unresolved"]
Ambiguous == [kind |-> "ambiguous"]
Plain == [kind |-> "resolved", support |-> None, values |-> {}, scalar |-> None,
          norm |-> None, wire |-> None, budget |-> None, completeness |-> "partial"]

(* The best record wins; its payload may be another's.                     *)
ResolveScalar(R) ==
  LET top == Top(R)
      bearing == {r \in R : r.norm # None \/ r.budget # None \/ r.wire # None}
      payload == IF bearing = {} THEN Plain ELSE Top(bearing)
  IN IF \E q \in Peers(top, R) : q.scalar # None /\ top.scalar # None /\ q.scalar # top.scalar
     THEN Ambiguous
     ELSE [Plain EXCEPT !.support = top.support,
             !.scalar = IF top.completeness = "partial" /\ top.values = {} THEN None ELSE top.scalar,
             !.norm = payload.norm, !.budget = payload.budget, !.wire = payload.wire,
             !.completeness = IF top.completeness = "exhaustive" THEN "exhaustive" ELSE "partial"]

(* Values add up from the best record on, until an exhaustive one fixes    *)
(* the set; the negatives met on the way stay.                             *)
ResolveLatest(R) ==
  [Plain EXCEPT !.support = Top(R).support, !.values = Net(Top(R))]

ResolveValues(R) ==
  LET exhaustive == {r \in R : r.completeness = "exhaustive"}
      e == Top(exhaustive)
      met == IF exhaustive = {} THEN R ELSE {q \in R : q = e \/ Before(q, e)}
      positive == IF exhaustive = {} THEN UNION {Listed(q.values) : q \in R} ELSE Net(e)
  IN IF exhaustive # {} /\ \E q \in Peers(e, R) : Net(q) # Net(e)
     THEN Ambiguous
     ELSE [Plain EXCEPT !.support = Top(R).support,
             !.values = positive \ UNION {Listed(q.negatives) : q \in met},
             !.completeness = IF exhaustive = {} THEN "partial" ELSE "exhaustive"]

(* resolveClaim                                                            *)
ResolveClaim(claim, records) ==
  LET R == Known(claim, records)
  IN IF R = {} THEN Unresolved
     ELSE IF claim \in ValueClaims THEN ResolveValues(R) ELSE ResolveScalar(R)
=============================================================================
