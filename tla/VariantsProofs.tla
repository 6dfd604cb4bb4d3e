--------------------------- MODULE VariantsProofs ---------------------------
(***************************************************************************)
(* Theorems about Variants, for any drafts, gateway objects and surfaces,  *)
(* any amount of evidence, and any questions with finitely many models.    *)
(***************************************************************************)
EXTENDS Variants, FiniteSetTheorems, TLAPS

-----------------------------------------------------------------------------
(* Finite sets.                                                            *)

(* Among the subsets of a finite set that are in F there is a minimal one. *)
LEMMA MinimalSubset ==
  ASSUME NEW S, IsFiniteSet(S), NEW F \in SUBSET (SUBSET S), F # {}
  PROVE  \E T \in F : \A U \in F : U \subseteq T => U = T
<1>1. IsWellFoundedOn(StrictSubsetOrdering(S), SUBSET S)
  BY FS_StrictSubsetOrderingWellFounded, FS_FiniteSubsetsOfFinite
<1>2. PICK T \in F : \A U \in F : ~ (<<U, T>> \in StrictSubsetOrdering(S))
  BY <1>1, WFMin
<1>3. QED
  BY <1>2 DEF StrictSubsetOrdering

(* A nonempty set of positions has a first and a last one.                 *)
LEMMA LeastPosition ==
  ASSUME NEW n \in Nat, NEW S \in SUBSET (1..n), S # {}
  PROVE  Min(S) \in S /\ \A y \in S : Min(S) <= y
<1> DEFINE F == {1..m : m \in S}
<1>1. PICK P : P = 1..n
  OBVIOUS
<1>2. IsFiniteSet(P)
  BY <1>1, FS_Interval
<1>3. F \in SUBSET (SUBSET P)
  <2>1. \A x \in S : x \in 1..n
    OBVIOUS
  <2>2. \A x \in S : \A y \in 1..x : y \in 1..n
    BY <2>1
  <2>3. QED
    BY <2>2, <1>1
<1>4. F # {}
  OBVIOUS
<1>5. PICK T \in F : \A U \in F : U \subseteq T => U = T
  <2> HIDE DEF F
  <2>1. QED
    BY <1>2, <1>3, <1>4, MinimalSubset
<1>6. PICK m \in S : T = 1..m
  OBVIOUS
<1>7. \A y \in S : m <= y
  <2> SUFFICES ASSUME NEW y \in S, ~(m <= y) PROVE FALSE
    OBVIOUS
  <2>1. 1..y \subseteq T /\ m \in T /\ m \notin 1..y
    BY <1>6
  <2>2. QED
    BY <2>1, <1>5
<1>8. QED
  BY <1>7 DEF Min

(* A nonempty set of positions has its greatest among it.                  *)
LEMMA LastPosition ==
  ASSUME NEW n \in Nat, NEW S \in SUBSET (1..n), S # {}
  PROVE  Max(S) \in S
<1> DEFINE F == {m..n : m \in S}
<1>1. PICK P : P = 1..n
  OBVIOUS
<1>2. IsFiniteSet(P)
  BY <1>1, FS_Interval
<1>3. F \in SUBSET (SUBSET P)
  <2>1. \A x \in S : x \in 1..n
    OBVIOUS
  <2>2. \A x \in S : \A y \in x..n : y \in 1..n
    BY <2>1
  <2>3. QED
    BY <2>2, <1>1
<1>4. F # {}
  OBVIOUS
<1>5. PICK T \in F : \A U \in F : U \subseteq T => U = T
  <2> HIDE DEF F
  <2>1. QED
    BY <1>2, <1>3, <1>4, MinimalSubset
<1>6. PICK m \in S : T = m..n
  OBVIOUS
<1>7. \A y \in S : m >= y
  <2> SUFFICES ASSUME NEW y \in S, ~(m >= y) PROVE FALSE
    OBVIOUS
  <2>1. y..n \subseteq T /\ m \in T /\ m \notin y..n
    BY <1>6
  <2>2. QED
    BY <2>1, <1>5
<1>8. QED
  BY <1>7 DEF Max

(* The one element of a set of one.                                        *)
LEMMA OneElement ==
  ASSUME NEW S, IsFiniteSet(S), Cardinality(S) = 1
  PROVE  \E x : S = {x}
  BY FS_Singleton

(* The lesser and the greater of two numbers.                              *)
LEMMA MinMaxOfTwo ==
  ASSUME NEW a \in Int, NEW b \in Int
  PROVE  /\ Min({a, b}) = IF a <= b THEN a ELSE b
         /\ Max({a, b}) = IF a >= b THEN a ELSE b
<1>1. \E x \in {a, b} : \A y \in {a, b} : x <= y
  OBVIOUS
<1>2. \E x \in {a, b} : \A y \in {a, b} : x >= y
  OBVIOUS
<1>3. Min({a, b}) \in {a, b} /\ \A y \in {a, b} : Min({a, b}) <= y
  BY <1>1 DEF Min
<1>4. Max({a, b}) \in {a, b} /\ \A y \in {a, b} : Max({a, b}) >= y
  BY <1>2 DEF Max
<1>5. QED
  BY <1>3, <1>4

-----------------------------------------------------------------------------
(* The order of records.                                                   *)

IsEvidence(r) ==
  /\ r.authority \in Authorities
  /\ r.revision \in Int /\ r.received \in Int /\ r.id \in Int

(* Records that compareRecords can tell apart.                             *)
Apart(a, b) == a.received # b.received \/ a.id # b.id

Ordered(R) ==
  /\ IsFiniteSet(R)
  /\ \A r \in R : IsEvidence(r)
  /\ \A a, b \in R : a # b => Apart(a, b)

IsTop(t, R) == t \in R /\ \A q \in R \ {t} : Before(t, q)

(* compareRecords is a strict order, total where it can tell records apart.*)
LEMMA BeforeOrder ==
  ASSUME NEW a, NEW b, NEW c, IsEvidence(a), IsEvidence(b), IsEvidence(c)
  PROVE  /\ Before(a, b) => ~Before(b, a) /\ a # b
         /\ Before(a, b) /\ Before(b, c) => Before(a, c)
         /\ Apart(a, b) => Before(a, b) \/ Before(b, a)
<1> DEFINE rank(r) == Rank[r.authority]
<1>1. /\ \A x \in Authorities : Rank[x] \in Int
      /\ \A x, y \in Authorities : Rank[x] = Rank[y] => x = y
  BY DEF Rank, Authorities
<1>2. /\ rank(a) \in Int /\ rank(b) \in Int /\ rank(c) \in Int
      /\ a.authority = b.authority <=> rank(a) = rank(b)
      /\ b.authority = c.authority <=> rank(b) = rank(c)
      /\ a.authority = c.authority <=> rank(a) = rank(c)
  BY <1>1 DEF IsEvidence
<1> DEFINE Less(p, q) ==
             \/ p.revision > q.revision
             \/ /\ p.revision = q.revision
                /\ \/ rank(p) > rank(q)
                   \/ /\ rank(p) = rank(q)
                      /\ \/ p.received > q.received
                         \/ p.received = q.received /\ p.id < q.id
<1>3. /\ Before(a, b) <=> Less(a, b)
      /\ Before(b, a) <=> Less(b, a)
      /\ Before(b, c) <=> Less(b, c)
      /\ Before(a, c) <=> Less(a, c)
  BY <1>2 DEF Before
<1> HIDE DEF rank
<1>4. /\ Less(a, b) => ~Less(b, a) /\ a # b
      /\ Less(a, b) /\ Less(b, c) => Less(a, c)
      /\ Apart(a, b) => Less(a, b) \/ Less(b, a)
  BY <1>2 DEF IsEvidence, Apart
<1>5. QED
  BY <1>3, <1>4

(* Of finitely many records there is a best one ...                        *)
LEMMA TopExists ==
  ASSUME NEW R, Ordered(R), R # {}
  PROVE  IsTop(Top(R), R)
<1> DEFINE F == {T \in SUBSET R : T # {} /\ ~\E t \in T : IsTop(t, T)}
<1>1. F = {}
  <2> SUFFICES ASSUME F # {} PROVE FALSE
    OBVIOUS
  <2>1. PICK T \in F : \A U \in F : U \subseteq T => U = T
    <3>1. F \in SUBSET (SUBSET R) /\ IsFiniteSet(R)
      BY DEF Ordered
    <3> HIDE DEF F
    <3>2. QED
      BY <3>1, MinimalSubset
  <2>2. PICK x \in T : TRUE
    OBVIOUS
  <2>3. CASE T \ {x} = {}
    BY <2>1, <2>2, <2>3 DEF IsTop
  <2>4. CASE T \ {x} # {}
    <3> DEFINE U == T \ {x}
    <3>1. U \subseteq T /\ U # T /\ U \in SUBSET R
      BY <2>2
    <3>2. U \notin F
      BY <2>1, <3>1
    <3>3. PICK t \in U : IsTop(t, U)
      BY <2>4, <3>1, <3>2
    <3>4. IsEvidence(t) /\ IsEvidence(x) /\ Apart(t, x) /\ t \in T /\ T \subseteq R
      BY <3>1, <3>3 DEF Ordered
    <3>5. \A q \in T : IsEvidence(q)
      BY <3>4 DEF Ordered
    <3>6. CASE Before(t, x)
      BY <2>1, <3>3, <3>4, <3>6 DEF IsTop
    <3>7. CASE Before(x, t)
      <4>1. \A q \in U : Before(x, q)
        BY <3>3, <3>4, <3>5, <3>7, BeforeOrder DEF IsTop
      <4>2. IsTop(x, T)
        BY <4>1 DEF IsTop
      <4>3. QED
        BY <2>1, <4>2
    <3>8. QED
      BY <3>4, <3>6, <3>7, BeforeOrder
  <2>5. QED
    BY <2>3, <2>4
<1>2. \E t \in R : IsTop(t, R)
  BY <1>1
<1>3. QED
  BY <1>2 DEF Top, IsTop

(* ... and only one.                                                       *)
LEMMA TopUnique ==
  ASSUME NEW R, Ordered(R), NEW t, IsTop(t, R)
  PROVE  Top(R) = t
<1>1. IsTop(Top(R), R)
  BY TopExists DEF IsTop
<1>2. CASE Top(R) # t
  <2>1. Before(t, Top(R)) /\ Before(Top(R), t) /\ IsEvidence(t) /\ IsEvidence(Top(R))
    BY <1>1, <1>2 DEF IsTop, Ordered
  <2>2. QED
    BY <2>1, BeforeOrder
<1>3. QED
  BY <1>2

(* A subset of an ordered set of records is ordered.                       *)
LEMMA OrderedSubset ==
  ASSUME NEW R, Ordered(R), NEW S \in SUBSET R
  PROVE  Ordered(S)
  BY FS_Subset DEF Ordered

-----------------------------------------------------------------------------
(* What a value claim resolves to.                                         *)

Exhaustive(R) == {q \in R : q.completeness = "exhaustive"}
Met(R) == {q \in R : Exhaustive(R) = {} \/ q = Top(Exhaustive(R)) \/ Before(q, Top(Exhaustive(R)))}
Positives(R) ==
  IF Exhaustive(R) = {} THEN UNION {Listed(q.values) : q \in R} ELSE Net(Top(Exhaustive(R)))
Contested(R) ==
  Exhaustive(R) # {} /\ \E q \in Peers(Top(Exhaustive(R)), R) : Net(q) # Net(Top(Exhaustive(R)))

(* ResolveValues in these terms.                                           *)
LEMMA ResolvedValues ==
  ASSUME NEW R
  PROVE  LET v == Positives(R) \ UNION {Listed(q.negatives) : q \in Met(R)}
             c == IF Exhaustive(R) = {} THEN "partial" ELSE "exhaustive"
         IN /\ ResolveValues(R) =
                 IF Contested(R) THEN Ambiguous
                 ELSE [Plain EXCEPT !.support = Top(R).support, !.values = v, !.completeness = c]
            /\ Contested(R) => ResolveValues(R).kind = "ambiguous"
            /\ ~Contested(R) => /\ ResolveValues(R).kind = "resolved"
                               /\ ResolveValues(R).values = v
<1> DEFINE e == Top(Exhaustive(R))
           met == IF Exhaustive(R) = {} THEN R ELSE {q \in R : q = e \/ Before(q, e)}
           v == Positives(R) \ UNION {Listed(q.negatives) : q \in met}
           c == IF Exhaustive(R) = {} THEN "partial" ELSE "exhaustive"
           res == [Plain EXCEPT !.support = Top(R).support, !.values = v, !.completeness = c]
<1>1. met = Met(R)
  BY DEF Met
<1>2. ResolveValues(R) = IF Contested(R) THEN Ambiguous ELSE res
  BY Zenon DEF ResolveValues, Contested, Positives, Exhaustive
<1> HIDE DEF v, c
<1>3. res.kind = "resolved" /\ res.values = v
  BY DEF Plain
<1> HIDE DEF res
<1>4. /\ Contested(R) => ResolveValues(R).kind = "ambiguous"
      /\ ~Contested(R) => ResolveValues(R).kind = "resolved" /\ ResolveValues(R).values = v
  BY <1>2, <1>3 DEF Ambiguous
<1>5. QED
  BY <1>1, <1>2, <1>4, Zenon DEF v, c, res

(* A record without denials that is not exhaustive takes no value away.    *)
LEMMA PartialKeepsValues ==
  ASSUME NEW R, NEW r, r.completeness # "exhaustive", Listed(r.negatives) = {},
         ~Contested(R)
  PROVE  Positives(R) \ UNION {Listed(q.negatives) : q \in Met(R)}
           \subseteq Positives(R \cup {r}) \ UNION {Listed(q.negatives) : q \in Met(R \cup {r})}
<1> DEFINE S == R \cup {r}
<1>1. Exhaustive(S) = Exhaustive(R)
  BY DEF Exhaustive
<1>2. Positives(R) \subseteq Positives(S)
  BY <1>1 DEF Positives
<1>3. Met(S) \subseteq Met(R) \cup {r}
  BY <1>1 DEF Met
<1> HIDE DEF S
<1>4. UNION {Listed(q.negatives) : q \in Met(S)} \subseteq UNION {Listed(q.negatives) : q \in Met(R)}
  <2>1. \A q \in Met(S) : q \in Met(R) \/ Listed(q.negatives) = {}
    BY <1>3
  <2>2. QED
    BY <2>1
<1>5. QED
  BY <1>2, <1>4 DEF S

(* A record after the exhaustive one of another authority changes nothing. *)
LEMMA LaterChangesNothing ==
  ASSUME NEW R, NEW r, Ordered(R \cup {r}), Exhaustive(R) # {}, ~Contested(R),
         r.authority # Top(Exhaustive(R)).authority, Before(Top(Exhaustive(R)), r)
  PROVE  ResolveValues(R \cup {r}) = ResolveValues(R)
<1> DEFINE S == R \cup {r}
           e == Top(Exhaustive(R))
           t == Top(R)
<1>1. Ordered(R) /\ Ordered(Exhaustive(R)) /\ Ordered(Exhaustive(S))
  <2>1. Exhaustive(R) \subseteq S /\ Exhaustive(S) \subseteq S /\ R \subseteq S
    BY DEF Exhaustive
  <2>2. QED
    BY <2>1, OrderedSubset
<1>2. IsTop(e, Exhaustive(R)) /\ e \in R
  BY <1>1, TopExists DEF IsTop, Exhaustive
<1>3. IsTop(t, R)
  BY <1>1, <1>2, TopExists
<1>4. \A q \in S : IsEvidence(q)
  BY DEF Ordered
<1>5. Top(Exhaustive(S)) = e
  <2>1. Exhaustive(S) \subseteq Exhaustive(R) \cup {r} /\ Exhaustive(R) \subseteq Exhaustive(S)
    BY DEF Exhaustive
  <2> HIDE DEF e
  <2>2. IsTop(e, Exhaustive(S))
    BY <1>2, <2>1 DEF IsTop, e
  <2>3. QED
    BY <1>1, <2>2, TopUnique
<1>6. Top(S) = t
  <2>1. t = e \/ Before(t, e)
    BY <1>2, <1>3 DEF IsTop
  <2>2. Before(t, r)
    BY <1>2, <1>3, <1>4, <2>1, BeforeOrder DEF IsTop
  <2>3. IsTop(t, S)
    BY <1>3, <2>2 DEF IsTop
  <2>4. QED
    BY <2>3, TopUnique
<1>7. Exhaustive(S) # {}
  BY DEF Exhaustive
<1>8. Peers(e, S) \subseteq Peers(e, R)
  <2> SUFFICES ASSUME NEW q \in Peers(e, S) PROVE q \in Peers(e, R)
    OBVIOUS
  <2>1. q # r
    BY DEF Peers
  <2>2. QED
    BY <2>1 DEF Peers
<1>9. ~Contested(S)
  BY <1>5, <1>8 DEF Contested
<1>10. Met(S) = Met(R)
  <2>1. ~Before(r, e) /\ r # e
    BY <1>2, <1>4, BeforeOrder
  <2>2. QED
    BY <1>5, <1>7, <2>1 DEF Met
<1>11. Positives(S) = Positives(R)
  BY <1>5, <1>7 DEF Positives
<1> HIDE DEF S, t
<1>12. QED
  BY <1>6, <1>7, <1>9, <1>10, <1>11, ResolvedValues DEF S, t

-----------------------------------------------------------------------------
(* What is gathered.                                                       *)

(* The records of one source, each about a claim of its own; the sources'  *)
(* own ids tell the sources apart.                                         *)
Origin(r) ==
  \/ \E d \in Drafts : r = Finish(d.class, d) /\ r.id = d.id /\ r.tuple = d.tuple
                       /\ r.claim = d.claim /\ r.received = d.received
  \/ r.id = 10 /\ \E m \in DeepSeekModels, s \in {"chat", "responses"} :
       r.tuple = Tuple("deepseek-direct", s, m)
         /\ \E d \in DeepSeek(m, s) : r = Finish("native", d) /\ r.claim = d.claim
  \/ r.id = 20

SameRecord(q, r) ==
  q.tuple = r.tuple /\ q.claim = r.claim /\ q.id = r.id /\ q.received = r.received

GatheredInv ==
  /\ gathered \in Seq(ToSet(gathered))
  /\ \A r \in ToSet(gathered) :
       IsEvidence(r) /\ Origin(r) /\ (r.id = 20 => r.received < Len(gathered))
  /\ \A q, r \in ToSet(gathered) : SameRecord(q, r) => q = r
  /\ catalog \subseteq ToSet(gathered)

(* A draft that no check refuses becomes a record: itself with an authority*)
(* and a class.                                                            *)
Accepted(class, d) ==
  LET r == [d EXCEPT !.authority = Authority(class, d), !.class = class]
  IN r.authority # None /\ Permitted(class, d) /\ Valid(r)

(* A finished draft is well-formed evidence of the draft's own identity.   *)
LEMMA Finished ==
  ASSUME NEW class, class \in Classes, NEW d, IsDraft(d), Finish(class, d) # None \/ Accepted(class, d)
  PROVE  LET r == Finish(class, d) IN
         /\ IsEvidence(r)
         /\ r.tuple = d.tuple /\ r.claim = d.claim /\ r.id = d.id /\ r.received = d.received
<1> DEFINE a == Authority(class, d)
           r == [d EXCEPT !.authority = a, !.class = class]
<1>1. Finish(class, d) = r /\ a # None
  BY DEF Finish, Accepted
<1>2. a \in Authorities
  BY <1>1 DEF Authority, Classes, Authorities, IsDraft
<1> HIDE DEF a
<1>3. /\ r.authority = a /\ r.revision = d.revision
      /\ r.tuple = d.tuple /\ r.claim = d.claim /\ r.id = d.id /\ r.received = d.received
  <2>1. d = [f \in EvidenceFields |-> d[f]]
    BY DEF IsDraft
  <2>2. DOMAIN d = EvidenceFields
    BY <2>1
  <2>3. {"authority", "revision", "tuple", "claim", "id", "received", "class"} \subseteq EvidenceFields
    BY DEF EvidenceFields
  <2> HIDE DEF EvidenceFields
  <2>4. QED
    BY <2>2, <2>3
<1> HIDE DEF r
<1>4. QED
  BY <1>1, <1>2, <1>3 DEF IsEvidence, IsDraft

(* A provider's own valid draft is accepted.                               *)
LEMMA NativeAccepted ==
  ASSUME NEW d, IsDraft(d), d.authority = None, Valid(d)
  PROVE  Accepted("native", d)
<1> DEFINE r == [d EXCEPT !.authority = Authority("native", d), !.class = "native"]
<1>1. Authority("native", d) = "exact"
  BY DEF Authority
<1>2. DOMAIN d = EvidenceFields
  BY DEF IsDraft
<1>3. \A f \in EvidenceFields : f \notin {"authority", "class"} => r[f] = d[f]
  BY <1>2
<1>4. r.authority = "exact"
  BY <1>1, <1>2 DEF EvidenceFields
<1>5. /\ \A f \in Payload : r[f] = d[f]
      /\ r.claim = d.claim /\ r.negatives = d.negatives /\ r.completeness = d.completeness
      /\ r.support = d.support /\ r.norm = d.norm /\ r.wire = d.wire /\ r.budget = d.budget
  <2>1. Payload \cup {"claim", "completeness", "support"} \subseteq EvidenceFields \ {"authority", "class"}
    BY DEF Payload, EvidenceFields
  <2> HIDE DEF r
  <2>2. QED
    BY <1>3, <2>1 DEF Payload
<1> HIDE DEF r
<1>6. Valid(r)
  BY <1>5 DEF Valid
<1>7. QED
  BY <1>4, <1>6, DraftsAssumption DEF Accepted, Permitted, Authorities, r

(* Setting payload fields that the claim allows keeps a draft valid.       *)
LEMMA FilledDraft ==
  ASSUME NEW claim \in DOMAIN Allowed, NEW tuple, NEW completeness, NEW id \in Int,
         NEW received \in Int, NEW values, NEW norm, NEW wire, NEW scalar,
         values # None => "values" \in Allowed[claim],
         norm # None => "norm" \in Allowed[claim]
                        /\ \A v \in DOMAIN norm : norm[v] \in Effective \cup {"none"},
         wire # None => "wire" \in Allowed[claim] /\ DOMAIN wire \subseteq Effective,
         scalar # None => "scalar" \in Allowed[claim],
         NEW d,
         d = [claim |-> claim, tuple |-> tuple, support |-> "supported",
              completeness |-> completeness, values |-> values, negatives |-> None,
              norm |-> norm, wire |-> wire, scalar |-> scalar, budget |-> None,
              authority |-> None, class |-> None, curated |-> FALSE, revision |-> 0,
              received |-> received, id |-> id]
  PROVE  /\ IsDraft(d) /\ Accepted("native", d)
         /\ d.claim = claim /\ d.tuple = tuple /\ d.id = id /\ d.received = received
<1>1. IsDraft(d) /\ d.authority = None
  BY DEF IsDraft, EvidenceFields
<1>2. Valid(d)
  <2>1. \A f \in Payload : d[f] # None => f \in Allowed[claim]
    BY DEF Payload
  <2>2. d.claim = claim /\ d.negatives = None /\ d.norm = norm /\ d.wire = wire /\ d.budget = None
    OBVIOUS
  <2>3. QED
    BY <2>1, <2>2, Zenon DEF Valid
<1>3. QED
  BY <1>1, <1>2, NativeAccepted

(* DeepSeek's records are about one claim each, and all are accepted.      *)
LEMMA DeepSeekRecords ==
  ASSUME NEW m, NEW s
  PROVE  /\ \A d \in DeepSeek(m, s) :
              /\ IsDraft(d) /\ d.id = 10 /\ d.tuple = Tuple("deepseek-direct", s, m)
              /\ Accepted("native", d)
         /\ \A d, e \in DeepSeek(m, s) : d.claim = e.claim => d = e
<1> DEFINE t == Tuple("deepseek-direct", s, m)
           W == [v \in {"low", "high", "max"} |-> v]
           Rec(claim, values, norm, wire, scalar) ==
             [claim |-> claim, tuple |-> t, support |-> "supported",
              completeness |-> "exhaustive", values |-> values, negatives |-> None,
              norm |-> norm, wire |-> wire, scalar |-> scalar, budget |-> None,
              authority |-> None, class |-> None, curated |-> FALSE, revision |-> 0,
              received |-> 0, id |-> 10]
           a == Rec("support", None, None, None, None)
           b == Rec("accepted", DOMAIN DeepSeekNormalization, None, None, None)
           c == Rec("normalization", None, DeepSeekNormalization, W, None)
           g == Rec("toggle", {"off"}, None, None, s)
<1>1. DeepSeek(m, s) = {a, b, c, g}
  <2> DEFINE of(claim) == Draft(claim, t, "exhaustive", 10)
  <2>1. PICK b1 : b1 = [of("accepted") EXCEPT !.values = DOMAIN DeepSeekNormalization]
    OBVIOUS
  <2>2. PICK c0 : c0 = [of("normalization") EXCEPT !.norm = DeepSeekNormalization]
    OBVIOUS
  <2>3. PICK c1 : c1 = [c0 EXCEPT !.wire = W]
    OBVIOUS
  <2>4. PICK g0 : g0 = [of("toggle") EXCEPT !.values = {"off"}]
    OBVIOUS
  <2>5. PICK g1 : g1 = [g0 EXCEPT !.scalar = s]
    OBVIOUS
  <2>6. of("support") = a /\ b1 = b
    BY <2>1 DEF Draft
  <2>7. c1 = c
    BY <2>2, <2>3 DEF Draft
  <2>8. g1 = g
    BY <2>4, <2>5 DEF Draft
  <2>9. DeepSeek(m, s) = {of("support"), b1, c1, g1}
    BY <2>1, <2>2, <2>3, <2>4, <2>5, Zenon DEF DeepSeek
  <2> HIDE DEF a, b, c, g, of
  <2>10. QED
    BY <2>6, <2>7, <2>8, <2>9
<1>2. \A v \in DOMAIN DeepSeekNormalization : DeepSeekNormalization[v] \in Effective
  BY DEF DeepSeekNormalization, Effective
<1>3. DOMAIN W \subseteq Effective
  BY DEF Effective
<1>4. \A x \in {a, b, c, g} :
        IsDraft(x) /\ Accepted("native", x) /\ x.tuple = t /\ x.id = 10
  BY <1>2, <1>3, FilledDraft DEF Allowed
<1>5. a.claim = "support" /\ b.claim = "accepted" /\ c.claim = "normalization" /\ g.claim = "toggle"
  OBVIOUS
<1> HIDE DEF a, b, c, g
<1>6. QED
  BY <1>1, <1>4, <1>5


(* A sequence of drafts of one tuple, source and moment, accepted and each *)
(* of another of the given claims.                                         *)
RouterDrafts(s, claims, tuple, received) ==
  /\ s \in Seq(ToSet(s))
  /\ \A i \in 1..Len(s) :
       /\ IsDraft(s[i]) /\ Accepted("native", s[i])
       /\ s[i].tuple = tuple /\ s[i].id = 20 /\ s[i].received = received /\ s[i].claim \in claims
  /\ \A i, j \in 1..Len(s) : s[i].claim = s[j].claim => i = j

(* The elements of two sequences in a row.                                 *)
LEMMA Appended ==
  ASSUME NEW s, s \in Seq(ToSet(s)), NEW t, t \in Seq(ToSet(t))
  PROVE  /\ s \o t \in Seq(ToSet(s \o t))
         /\ ToSet(s \o t) = ToSet(s) \cup ToSet(t)
         /\ Len(s \o t) = Len(s) + Len(t)
<1> DEFINE U == ToSet(s) \cup ToSet(t)
<1>1. s \in Seq(U) /\ t \in Seq(U)
  OBVIOUS
<1> HIDE DEF U
<1>2. /\ s \o t \in Seq(U) /\ Len(s \o t) = Len(s) + Len(t)
      /\ \A i \in 1..Len(s) : (s \o t)[i] = s[i]
      /\ \A i \in 1..Len(t) : (s \o t)[Len(s) + i] = t[i]
      /\ \A i \in 1..Len(s \o t) : i > Len(s) => i - Len(s) \in 1..Len(t) /\ (s \o t)[i] = t[i - Len(s)]
  BY <1>1
<1>3. ToSet(s \o t) \subseteq U
  BY <1>1, <1>2 DEF ToSet
<1>4. ToSet(s) \subseteq ToSet(s \o t)
  BY <1>1, <1>2 DEF ToSet
<1>5. ToSet(t) \subseteq ToSet(s \o t)
  <2> SUFFICES ASSUME NEW x \in ToSet(t) PROVE x \in ToSet(s \o t)
    OBVIOUS
  <2>1. PICK i \in 1..Len(t) : x = t[i]
    BY <1>1 DEF ToSet
  <2>2. Len(s) + i \in 1..Len(s \o t) /\ (s \o t)[Len(s) + i] = x
    BY <1>1, <1>2, <2>1
  <2>3. DOMAIN (s \o t) = 1..Len(s \o t)
    BY <1>2
  <2> HIDE DEF U
  <2>4. QED
    BY <2>2, <2>3, Zenon DEF ToSet
<1>6. QED
  BY <1>2, <1>3, <1>4, <1>5 DEF U, ToSet

(* Two runs of OpenRouter's drafts about different claims append to one.   *)
LEMMA RouterAppended ==
  ASSUME NEW s, NEW t, NEW A, NEW B, A \cap B = {}, NEW tuple, NEW received,
         RouterDrafts(s, A, tuple, received), RouterDrafts(t, B, tuple, received)
  PROVE  RouterDrafts(s \o t, A \cup B, tuple, received)
<1> DEFINE u == s \o t
           n == Len(s)
<1>1. u \in Seq(ToSet(u)) /\ Len(u) = n + Len(t) /\ n \in Nat /\ Len(t) \in Nat
  BY Appended DEF RouterDrafts
<1>2. /\ \A i \in 1..Len(u) : i <= n => i \in 1..n /\ u[i] = s[i]
      /\ \A i \in 1..Len(u) : ~(i <= n) => i - n \in 1..Len(t) /\ u[i] = t[i - n]
  <2>1. s \in Seq(ToSet(s) \cup ToSet(t)) /\ t \in Seq(ToSet(s) \cup ToSet(t))
    BY DEF RouterDrafts
  <2>2. QED
    BY <1>1, <2>1
<1> HIDE DEF u, n
<1>3. \A i \in 1..Len(u) :
        /\ IsDraft(u[i]) /\ Accepted("native", u[i])
        /\ u[i].tuple = tuple /\ u[i].id = 20 /\ u[i].received = received
        /\ u[i].claim \in IF i <= n THEN A ELSE B
  <2> SUFFICES ASSUME NEW i \in 1..Len(u)
               PROVE  /\ IsDraft(u[i]) /\ Accepted("native", u[i])
                      /\ u[i].tuple = tuple /\ u[i].id = 20 /\ u[i].received = received
                      /\ u[i].claim \in IF i <= n THEN A ELSE B
    OBVIOUS
  <2>1. CASE i <= n
    BY <1>2, <2>1 DEF RouterDrafts, n
  <2>2. CASE ~(i <= n)
    BY <1>2, <2>2 DEF RouterDrafts
  <2>3. QED
    BY <2>1, <2>2
<1>4. ASSUME NEW i \in 1..Len(u), NEW j \in 1..Len(u), u[i].claim = u[j].claim
      PROVE  i = j
  <2>1. i <= n <=> j <= n
    BY <1>3, <1>4
  <2>2. CASE i <= n
    BY <1>2, <1>4, <2>1, <2>2 DEF RouterDrafts, n
  <2>3. CASE ~(i <= n)
    <3>1. i - n = j - n
      BY <1>2, <1>4, <2>1, <2>3 DEF RouterDrafts
    <3>2. i \in Int /\ j \in Int /\ n \in Int
      BY <1>1
    <3>3. QED
      BY <3>1, <3>2
  <2>4. QED
    BY <2>2, <2>3
<1>5. QED
  BY <1>1, <1>3, <1>4 DEF RouterDrafts, u

(* OpenRouter's records are about one claim each, and all are accepted.    *)
LEMMA OpenRouterRecords ==
  ASSUME NEW m, NEW o, NEW received \in Int
  PROVE  RouterDrafts(OpenRouter(m, o, received), {"accepted", "default", "mandatory", "transport"},
                      Tuple("openrouter-gateway", "chat", m), received)
<1> DEFINE t == Tuple("openrouter-gateway", "chat", m)
           Rec(claim, completeness, values, scalar) ==
             [claim |-> claim, tuple |-> t, support |-> "supported",
              completeness |-> completeness, values |-> values, negatives |-> None,
              norm |-> None, wire |-> None, scalar |-> scalar, budget |-> None,
              authority |-> None, class |-> None, curated |-> FALSE, revision |-> 0,
              received |-> received, id |-> 20]
           of(claim, completeness) ==
             [Draft(claim, t, completeness, 20) EXCEPT !.received = received]
           guarded == o.selector # "listed" /\ o.dynamic
           accepted ==
             IF o.selector = "any" /\ ~guarded THEN <<of("accepted", "unknown")>>
             ELSE IF o.selector = "listed" /\ o.efforts # {}
             THEN <<[of("accepted", "exhaustive") EXCEPT !.values = o.efforts]>>
             ELSE <<>>
           default == IF o.default = None THEN <<>>
                      ELSE <<[of("default", "exhaustive") EXCEPT !.scalar = o.default]>>
           mandatory == IF o.mandatory = None THEN <<>>
                        ELSE <<[of("mandatory", "exhaustive") EXCEPT !.scalar = o.mandatory]>>
           transport == IF ~o.maxTokens THEN <<>>
                        ELSE <<[of("transport", "exhaustive") EXCEPT !.values = {"max_tokens"},
                                                                     !.scalar = "yes"]>>
<1>1. OpenRouter(m, o, received) = accepted \o default \o mandatory \o transport
  BY Zenon DEF OpenRouter
<1>2. \A claim, completeness : of(claim, completeness) = Rec(claim, completeness, None, None)
  <2> SUFFICES ASSUME NEW claim, NEW completeness
               PROVE  of(claim, completeness) = Rec(claim, completeness, None, None)
    OBVIOUS
  <2>1. PICK x : x = [Draft(claim, t, completeness, 20) EXCEPT !.received = received]
    OBVIOUS
  <2>2. x = Rec(claim, completeness, None, None)
    BY <2>1 DEF Draft
  <2>3. QED
    BY <2>1, <2>2
<1>3. ASSUME NEW claim \in DOMAIN Allowed, NEW completeness, NEW values, NEW scalar,
             values # None => "values" \in Allowed[claim],
             scalar # None => "scalar" \in Allowed[claim]
      PROVE  RouterDrafts(<<Rec(claim, completeness, values, scalar)>>, {claim}, t, received)
  <2>1. PICK d : d = Rec(claim, completeness, values, scalar)
    OBVIOUS
  <2>2. /\ IsDraft(d) /\ Accepted("native", d)
        /\ d.tuple = t /\ d.id = 20 /\ d.received = received /\ d.claim = claim
    BY <1>3, <2>1, FilledDraft
  <2>3. RouterDrafts(<<d>>, {claim}, t, received)
    BY <2>2 DEF RouterDrafts, ToSet
  <2>4. QED
    BY <2>1, <2>3
<1>4. ASSUME NEW claims PROVE RouterDrafts(<<>>, claims, t, received)
  BY DEF RouterDrafts, ToSet
<1> HIDE DEF of
<1>5. RouterDrafts(accepted, {"accepted"}, t, received)
  <2>1. PICK x : x = [of("accepted", "exhaustive") EXCEPT !.values = o.efforts]
    OBVIOUS
  <2>2. x = Rec("accepted", "exhaustive", o.efforts, None)
    BY <1>2, <2>1
  <2>3. RouterDrafts(<<of("accepted", "unknown")>>, {"accepted"}, t, received)
    BY <1>2, <1>3 DEF Allowed
  <2>4. RouterDrafts(<<x>>, {"accepted"}, t, received)
    BY <1>3, <2>2 DEF Allowed
  <2> HIDE DEF Rec
  <2>5. QED
    BY <1>4, <2>1, <2>3, <2>4
<1>6. RouterDrafts(default, {"default"}, t, received)
  <2>1. PICK x : x = [of("default", "exhaustive") EXCEPT !.scalar = o.default]
    OBVIOUS
  <2>2. x = Rec("default", "exhaustive", None, o.default)
    BY <1>2, <2>1
  <2>3. RouterDrafts(<<x>>, {"default"}, t, received)
    BY <1>3, <2>2 DEF Allowed
  <2>4. QED
    BY <1>4, <2>1, <2>3
<1>7. RouterDrafts(mandatory, {"mandatory"}, t, received)
  <2>1. PICK x : x = [of("mandatory", "exhaustive") EXCEPT !.scalar = o.mandatory]
    OBVIOUS
  <2>2. x = Rec("mandatory", "exhaustive", None, o.mandatory)
    BY <1>2, <2>1
  <2>3. RouterDrafts(<<x>>, {"mandatory"}, t, received)
    BY <1>3, <2>2 DEF Allowed
  <2>4. QED
    BY <1>4, <2>1, <2>3
<1>8. RouterDrafts(transport, {"transport"}, t, received)
  <2>1. PICK y : y = [of("transport", "exhaustive") EXCEPT !.values = {"max_tokens"}]
    OBVIOUS
  <2>2. PICK x : x = [y EXCEPT !.scalar = "yes"]
    OBVIOUS
  <2>3. x = Rec("transport", "exhaustive", {"max_tokens"}, "yes")
    BY <1>2, <2>1, <2>2
  <2>4. RouterDrafts(<<x>>, {"transport"}, t, received)
    BY <1>3, <2>3 DEF Allowed
  <2>5. QED
    BY <1>4, <2>1, <2>2, <2>4
<1> HIDE DEF accepted, default, mandatory, transport
<1>9. RouterDrafts(accepted \o default, {"accepted"} \cup {"default"}, t, received)
  BY <1>5, <1>6, RouterAppended
<1>10. RouterDrafts(accepted \o default \o mandatory,
                    {"accepted"} \cup {"default"} \cup {"mandatory"}, t, received)
  BY <1>7, <1>9, RouterAppended
<1>11. RouterDrafts(accepted \o default \o mandatory \o transport,
                    {"accepted"} \cup {"default"} \cup {"mandatory"} \cup {"transport"}, t, received)
  BY <1>8, <1>10, RouterAppended
<1>12. {"accepted"} \cup {"default"} \cup {"mandatory"} \cup {"transport"}
         = {"accepted", "default", "mandatory", "transport"}
  OBVIOUS
<1>13. QED
  BY <1>1, <1>11, <1>12

(* The elements of a sequence are finitely many, and a set in a row has    *)
(* the elements of the set.                                                *)
LEMMA FiniteElements ==
  ASSUME NEW s, s \in Seq(ToSet(s))
  PROVE  IsFiniteSet(ToSet(s))
<1>1. PICK P : P = 1..Len(s)
  OBVIOUS
<1>2. IsFiniteSet(P)
  BY <1>1, FS_Interval
<1>3. s \in Surjection(P, ToSet(s))
  BY <1>1 DEF Surjection, ToSet
<1>4. QED
  BY <1>2, <1>3, FS_Surjection

(* A finite set laid out in a row holds nothing else.                      *)
LEMMA InARow ==
  ASSUME NEW S, IsFiniteSet(S)
  PROVE  ToSet(SetToSeq(S)) \subseteq S
<1>1. PICK f \in Bijection(1..Cardinality(S), S) : TRUE
  BY FS_CardinalityType DEF ExistsBijection
<1>2. f \in [1..Cardinality(S) -> S] /\ IsInjective(f)
  BY <1>1 DEF Bijection, Injection
<1>3. SetToSeq(S) \in [1..Cardinality(S) -> S]
  BY <1>2, Zenon DEF SetToSeq
<1>4. QED
  BY <1>3 DEF ToSet

(* What a step must show: nothing gathered is lost.                        *)
GatheredKept == GatheredInv' /\ ToSet(gathered) \subseteq ToSet(gathered')

(* What Take adds keeps the records apart.                                 *)
LEMMA TakeKeeps ==
  ASSUME GatheredInv, NEW records, records \in Seq(ToSet(records)), Take(records),
         \A r \in ToSet(records) :
           /\ IsEvidence(r) /\ Origin(r)
           /\ r.id = 20 => r.received < Len(gathered) + Len(records)
           /\ \A q \in ToSet(gathered) \cup ToSet(records) : SameRecord(q, r) => q = r
  PROVE  GatheredKept
<1> DEFINE G == ToSet(gathered)
           R == ToSet(records)
           g == gathered \o records
<1>1. /\ g \in Seq(ToSet(g)) /\ ToSet(g) = G \cup R
      /\ Len(g) = Len(gathered) + Len(records) /\ Len(gathered) \in Nat /\ Len(records) \in Nat
  BY Appended DEF GatheredInv
<1>2. gathered' = g /\ catalog' \subseteq catalog \cup R
  BY DEF Take, Add
<1> HIDE DEF G, R, g
<1>3. gathered' \in Seq(ToSet(gathered')) /\ catalog' \subseteq ToSet(gathered')
  BY <1>1, <1>2 DEF GatheredInv, G
<1>4. ASSUME NEW r \in ToSet(gathered')
      PROVE  IsEvidence(r) /\ Origin(r) /\ (r.id = 20 => r.received < Len(gathered'))
  <2>1. CASE r \in G
    BY <1>1, <1>2, <2>1 DEF GatheredInv, G, IsEvidence
  <2>2. CASE r \in R
    BY <1>1, <1>2, <2>2 DEF R
  <2>3. QED
    BY <1>1, <1>2, <1>4, <2>1, <2>2
<1>5. ASSUME NEW q \in ToSet(gathered'), NEW r \in ToSet(gathered'), SameRecord(q, r)
      PROVE  q = r
  <2>1. SameRecord(r, q)
    BY <1>5 DEF SameRecord
  <2>2. QED
    BY <1>1, <1>2, <1>5, <2>1 DEF GatheredInv, G, R
<1>6. QED
  BY <1>1, <1>2, <1>3, <1>4, <1>5 DEF GatheredInv, Origin, GatheredKept, G

(* Taking one new record keeps the gathered records in order.              *)
LEMMA TakeOneKeeps ==
  ASSUME GatheredInv, NEW r, Take(<<r>>), IsEvidence(r), Origin(r), r.id # 20,
         \A q \in ToSet(gathered) : SameRecord(q, r) => q = r
  PROVE  GatheredKept
<1>1. PICK records : records = <<r>>
  OBVIOUS
<1>2. records \in Seq(ToSet(records)) /\ ToSet(records) = {r}
  BY <1>1 DEF ToSet
<1>3. QED
  BY <1>1, <1>2, TakeKeeps

(* An observed draft keeps them: it has an id and a time of its own.       *)
LEMMA ObserveKeeps == GatheredInv /\ Observe => GatheredKept
<1> SUFFICES ASSUME GatheredInv, Observe PROVE GatheredKept
  OBVIOUS
<1>1. PICK d \in Drafts : Finish(d.class, d) # None /\ Take(<<Finish(d.class, d)>>)
  BY DEF Observe
<1>2. PICK r : r = Finish(d.class, d)
  OBVIOUS
<1>3. IsDraft(d) /\ d.class \in Classes /\ d.id \notin {10, 20}
  BY DraftsAssumption
<1>4. /\ IsEvidence(r)
      /\ r.tuple = d.tuple /\ r.claim = d.claim /\ r.id = d.id /\ r.received = d.received
  BY <1>1, <1>2, <1>3, Finished
<1>5. Origin(r)
  BY <1>2, <1>4 DEF Origin
<1>6. \A q \in ToSet(gathered) : SameRecord(q, r) => q = r
  <2> SUFFICES ASSUME NEW q \in ToSet(gathered), SameRecord(q, r) PROVE q = r
    OBVIOUS
  <2>1. q.id \notin {10, 20}
    BY <1>3, <1>4 DEF SameRecord
  <2>2. PICK e \in Drafts : q = Finish(e.class, e) /\ q.id = e.id /\ q.tuple = e.tuple
                            /\ q.claim = e.claim /\ q.received = e.received
    BY <2>1 DEF GatheredInv, Origin
  <2>3. d = e
    BY <1>4, <2>2, DraftsAssumption DEF SameRecord
  <2>4. QED
    BY <1>2, <2>2, <2>3
<1>7. r.id # 20
  BY <1>3, <1>4
<1>8. QED
  BY <1>1, <1>2, <1>4, <1>5, <1>6, <1>7, TakeOneKeeps

(* DeepSeek's records keep them: a second reading says the same.           *)
LEMMA DeepSeekKeeps == GatheredInv /\ ObserveDeepSeek => GatheredKept
<1> SUFFICES ASSUME GatheredInv, ObserveDeepSeek PROVE GatheredKept
  OBVIOUS
<1>1. PICK m \in DeepSeekModels, s \in {"chat", "responses"} :
        \E d \in DeepSeek(m, s) : Take(<<Finish("native", d)>>)
  BY DEF ObserveDeepSeek
<1>2. PICK d \in DeepSeek(m, s) : Take(<<Finish("native", d)>>)
  BY <1>1
<1>3. PICK r : r = Finish("native", d)
  OBVIOUS
<1>4. /\ IsDraft(d) /\ d.id = 10 /\ d.tuple = Tuple("deepseek-direct", s, m)
      /\ Accepted("native", d)
  BY <1>2, DeepSeekRecords
<1>5. /\ IsEvidence(r)
      /\ r.tuple = d.tuple /\ r.claim = d.claim /\ r.id = d.id /\ r.received = d.received
  BY <1>3, <1>4, Finished DEF Classes
<1>6. Origin(r)
  BY <1>2, <1>3, <1>4, <1>5 DEF Origin
<1>7. \A q \in ToSet(gathered) : SameRecord(q, r) => q = r
  <2> SUFFICES ASSUME NEW q \in ToSet(gathered), SameRecord(q, r) PROVE q = r
    OBVIOUS
  <2>1. q.id = 10 /\ q.tuple = Tuple("deepseek-direct", s, m) /\ q.claim = d.claim
    BY <1>4, <1>5 DEF SameRecord
  <2>2. PICK n \in DeepSeekModels, u \in {"chat", "responses"} :
          /\ q.tuple = Tuple("deepseek-direct", u, n)
          /\ \E e \in DeepSeek(n, u) : q = Finish("native", e) /\ q.claim = e.claim
    BY <2>1, DraftsAssumption DEF GatheredInv, Origin
  <2>3. n = m /\ u = s
    BY <2>1, <2>2 DEF Tuple
  <2>4. PICK e \in DeepSeek(m, s) : q = Finish("native", e) /\ q.claim = e.claim
    BY <2>2, <2>3
  <2>5. e = d
    BY <2>1, <2>4, DeepSeekRecords
  <2>6. QED
    BY <1>3, <2>4, <2>5
<1>8. r.id # 20
  BY <1>4, <1>5
<1>9. QED
  BY <1>2, <1>3, <1>5, <1>6, <1>7, <1>8, TakeOneKeeps

(* OpenRouter's records keep them: each reading has its own time.          *)
LEMMA OpenRouterKeeps == GatheredInv /\ ObserveOpenRouter => GatheredKept
<1> SUFFICES ASSUME GatheredInv, ObserveOpenRouter PROVE GatheredKept
  OBVIOUS
<1>1. PICK m \in {"flash"}, o \in RouterObjects :
        LET drafts == OpenRouter(m, o, Len(gathered)) IN
        drafts # <<>> /\ Take([i \in 1..Len(drafts) |-> Finish("native", drafts[i])])
  BY DEF ObserveOpenRouter
<1>2. PICK drafts : drafts = OpenRouter(m, o, Len(gathered))
  OBVIOUS
<1>3. PICK records : records = [i \in 1..Len(drafts) |-> Finish("native", drafts[i])]
  OBVIOUS
<1>4. Take(records) /\ drafts # <<>>
  BY <1>1, <1>2, <1>3
<1>5. PICK t, claims : RouterDrafts(drafts, claims, t, Len(gathered))
  BY <1>2, OpenRouterRecords DEF GatheredInv
<1>6. Len(gathered) \in Nat /\ Len(drafts) \in Nat /\ Len(drafts) > 0
  BY <1>4, <1>5 DEF GatheredInv, RouterDrafts
<1>7. records \in Seq(ToSet(records)) /\ Len(records) = Len(drafts)
  BY <1>3, <1>6 DEF ToSet
<1>8. \A i \in 1..Len(drafts) :
        /\ IsEvidence(records[i]) /\ records[i].claim = drafts[i].claim
        /\ records[i].id = 20 /\ records[i].received = Len(gathered)
  BY <1>3, <1>5, Finished DEF RouterDrafts, Classes
<1>9. \A r \in ToSet(records) : \E i \in 1..Len(drafts) : r = records[i]
  BY <1>3, <1>6 DEF ToSet
<1>10. ASSUME NEW r \in ToSet(records)
       PROVE  /\ IsEvidence(r) /\ Origin(r)
              /\ r.id = 20 => r.received < Len(gathered) + Len(records)
              /\ \A q \in ToSet(gathered) \cup ToSet(records) : SameRecord(q, r) => q = r
  <2>1. PICK i \in 1..Len(drafts) : r = records[i]
    BY <1>9
  <2>2. IsEvidence(r) /\ r.id = 20 /\ r.received = Len(gathered) /\ r.claim = drafts[i].claim
    BY <1>8, <2>1
  <2>3. ASSUME NEW q \in ToSet(gathered), SameRecord(q, r) PROVE FALSE
    BY <1>6, <2>2, <2>3 DEF GatheredInv, SameRecord
  <2>4. ASSUME NEW q \in ToSet(records), SameRecord(q, r) PROVE q = r
    <3>1. PICK j \in 1..Len(drafts) : q = records[j]
      BY <1>9
    <3>2. drafts[i].claim = drafts[j].claim
      BY <1>8, <2>2, <2>4, <3>1 DEF SameRecord
    <3>3. QED
      BY <1>5, <2>1, <3>1, <3>2 DEF RouterDrafts
  <2>5. QED
    BY <1>6, <1>7, <2>2, <2>3, <2>4 DEF Origin
<1>11. QED
  BY <1>4, <1>7, <1>10, TakeKeeps

-----------------------------------------------------------------------------
(* A plan is what its records amount to, and those were gathered.          *)
PlanInv ==
  plan # None =>
    \E eligible \in BOOLEAN, requested \in Surfaces : \E records :
      /\ ToSet(records) \subseteq ToSet(gathered)
      /\ plan = [from |-> ToSet(records), eligible |-> eligible, requested |-> requested,
                 made |-> BuildVariantPlan(eligible, requested, records)]

(* A compiled plan is made from records gathered, of one route.            *)
LEMMA CompileMakesPlan == GatheredInv /\ Compile => GatheredInv' /\ PlanInv'
<1> SUFFICES ASSUME GatheredInv, Compile PROVE GatheredInv' /\ PlanInv'
  OBVIOUS
<1>1. UNCHANGED <<gathered, catalog>>
  BY DEF Compile
<1>2. GatheredInv'
  BY <1>1 DEF GatheredInv, Origin
<1>3. PICK eligible \in BOOLEAN, requested \in Surfaces :
        \E records \in {gathered} \cup
                       {SetToSeq(LookupExact(q.tuple, requested)) : q \in catalog} :
          plan' = [from |-> ToSet(records), eligible |-> eligible, requested |-> requested,
                   made |-> BuildVariantPlan(eligible, requested, records)]
  BY DEF Compile
<1>4. PICK records \in {gathered} \cup {SetToSeq(LookupExact(q.tuple, requested)) : q \in catalog} :
        plan' = [from |-> ToSet(records), eligible |-> eligible, requested |-> requested,
                 made |-> BuildVariantPlan(eligible, requested, records)]
  BY <1>3
<1>5. ToSet(records) \subseteq ToSet(gathered)
  <2>1. CASE records = gathered
    BY <2>1
  <2>2. ASSUME NEW q \in catalog, records = SetToSeq(LookupExact(q.tuple, requested))
        PROVE  ToSet(records) \subseteq ToSet(gathered)
    <3>1. PICK S : S = LookupExact(q.tuple, requested)
      OBVIOUS
    <3>2. S \subseteq catalog
      BY <3>1 DEF LookupExact
    <3>3. S \subseteq ToSet(gathered)
      BY <3>2 DEF GatheredInv
    <3>4. IsFiniteSet(S)
      BY <3>3, FiniteElements, FS_Subset DEF GatheredInv
    <3>5. QED
      BY <2>2, <3>1, <3>3, <3>4, InARow
  <2>3. QED
    BY <1>4, <2>1, <2>2
<1>6. PlanInv'
  BY <1>1, <1>4, <1>5 DEF PlanInv, BuildVariantPlan
<1>7. QED
  BY <1>2, <1>6

(* Every step keeps the evidence, adds to it only, and keeps the plan.     *)
LEMMA EvidenceStep ==
  GatheredInv /\ PlanInv /\ [Next]_<<capVars, reasonVars>> => GatheredKept /\ PlanInv'
<1> SUFFICES ASSUME GatheredInv, PlanInv, [Next]_<<capVars, reasonVars>>
             PROVE  GatheredKept /\ PlanInv'
  OBVIOUS
<1>1. CASE UNCHANGED capVars
  BY <1>1 DEF capVars, GatheredInv, Origin, PlanInv, BuildVariantPlan, GatheredKept
<1>2. ASSUME NEW records, Take(records) PROVE PlanInv'
  BY <1>2 DEF Take, PlanInv
<1>3. CASE Observe
  BY <1>2, <1>3, ObserveKeeps DEF Observe
<1>4. CASE ObserveDeepSeek
  BY <1>2, <1>4, DeepSeekKeeps DEF ObserveDeepSeek
<1>5. CASE ObserveOpenRouter
  BY <1>2, <1>5, OpenRouterKeeps DEF ObserveOpenRouter
<1>6. CASE Compile
  BY <1>6, CompileMakesPlan DEF Compile, GatheredKept
<1>7. QED
  BY <1>1, <1>3, <1>4, <1>5, <1>6 DEF Next, CapNext, capVars

(* The evidence and the plan made from it, in every behaviour.             *)
LEMMA EvidenceHolds == Spec => [](GatheredInv /\ PlanInv)
<1>1. Init => GatheredInv /\ PlanInv
  BY DEF Init, CapInit, GatheredInv, PlanInv, ToSet
<1>2. GatheredInv /\ PlanInv /\ [Next]_<<capVars, reasonVars>> => GatheredInv' /\ PlanInv'
  BY EvidenceStep DEF GatheredKept
<1>3. QED
  BY <1>1, <1>2, PTL DEF Spec

(* The known records of a claim about one tuple are ordered.               *)
LEMMA ClaimOrdered ==
  ASSUME NEW G, IsFiniteSet(G), \A r \in G : IsEvidence(r),
         \A q, r \in G : SameRecord(q, r) => q = r,
         NEW S \in SUBSET G, \A q, r \in S : q.tuple = r.tuple, NEW c
  PROVE  Ordered(Known(c, S))
<1> DEFINE R == Known(c, S)
<1>1. R \subseteq G /\ \A r \in R : r.claim = c /\ r \in S
  BY DEF Known
<1>2. IsFiniteSet(R)
  BY <1>1, FS_Subset
<1> HIDE DEF R
<1>3. \A a, b \in R : a # b => Apart(a, b)
  BY <1>1 DEF SameRecord, Apart
<1>4. QED
  BY <1>1, <1>2, <1>3 DEF Ordered, R

-----------------------------------------------------------------------------
(* A value a claim resolves to was listed by a record nobody that was      *)
(* added up denies.                                                        *)
LEMMA ValueListed ==
  ASSUME NEW R, Ordered(R), R # {}, ResolveValues(R).kind = "resolved",
         NEW x \in ResolveValues(R).values
  PROVE  \E r \in R :
           /\ x \in Listed(r.values)
           /\ Exhaustive(R) # {} => r = Top(Exhaustive(R))
           /\ \A q \in R : Exhaustive(R) = {} \/ q = r \/ Before(q, r) => x \notin Listed(q.negatives)
<1>1. ~Contested(R)
  BY ResolvedValues
<1>2. x \in Positives(R) \ UNION {Listed(q.negatives) : q \in Met(R)}
  BY <1>1, ResolvedValues
<1>3. x \in Positives(R) /\ \A q \in Met(R) : x \notin Listed(q.negatives)
  BY <1>2
<1>4. CASE Exhaustive(R) = {}
  <2>1. PICK r \in R : x \in Listed(r.values)
    BY <1>3, <1>4 DEF Positives
  <2>2. \A q \in R : x \notin Listed(q.negatives)
    BY <1>3, <1>4 DEF Met
  <2>3. QED
    BY <1>4, <2>1, <2>2
<1>5. CASE Exhaustive(R) # {}
  <2> DEFINE e == Top(Exhaustive(R))
  <2>1. Ordered(Exhaustive(R))
    BY OrderedSubset DEF Exhaustive
  <2>2. e \in R
    BY <1>5, <2>1, TopExists DEF IsTop, Exhaustive
  <2>3. x \in Listed(e.values)
    BY <1>3, <1>5 DEF Positives, Net
  <2> HIDE DEF e
  <2>4. \A q \in R : q = e \/ Before(q, e) => x \notin Listed(q.negatives)
    BY <1>3 DEF Met, e
  <2>5. QED
    BY <1>5, <2>2, <2>3, <2>4 DEF e
<1>6. QED
  BY <1>4, <1>5

(* A resolved scalar claim has its best record's support, and its payload  *)
(* is a record's.                                                          *)
LEMMA ScalarFound ==
  ASSUME NEW R, Ordered(R), R # {}, ResolveScalar(R).kind = "resolved"
  PROVE  /\ \E r \in R : ResolveScalar(R).support = r.support
         /\ ResolveScalar(R).norm # None => \E r \in R : ResolveScalar(R).norm = r.norm
<1> DEFINE top == Top(R)
           bearing == {r \in R : r.norm # None \/ r.budget # None \/ r.wire # None}
           payload == IF bearing = {} THEN Plain ELSE Top(bearing)
           scalar == IF top.completeness = "partial" /\ top.values = {} THEN None ELSE top.scalar
           completeness == IF top.completeness = "exhaustive" THEN "exhaustive" ELSE "partial"
           res == [Plain EXCEPT !.support = top.support, !.scalar = scalar,
                     !.norm = payload.norm, !.budget = payload.budget, !.wire = payload.wire,
                     !.completeness = completeness]
<1>1. ResolveScalar(R) = Ambiguous \/ ResolveScalar(R) = res
  BY Zenon DEF ResolveScalar
<1>2. top \in R
  BY TopExists DEF IsTop
<1>3. bearing # {} => Top(bearing) \in R
  BY TopExists, OrderedSubset DEF IsTop
<1>4. payload = Plain \/ payload \in R
  BY <1>3
<1> HIDE DEF top, payload, scalar, completeness
<1>5. res.support = top.support /\ res.norm = payload.norm
  BY DEF Plain
<1>6. Plain.norm = None
  BY DEF Plain
<1> HIDE DEF res
<1>7. ResolveScalar(R) = res
  BY <1>1 DEF Ambiguous
<1>8. QED
  BY <1>2, <1>4, <1>5, <1>6, <1>7

(* An automatic variant is earned: the route is callable and all evidence  *)
(* is about one tuple on the known surface asked for; without unearned     *)
(* evidence somebody says that the model reasons, each tier is a declared  *)
(* value or the declared meaning of one, and none of the records added up  *)
(* denies it (buildVariantPlan).                                           *)
THEOREM VariantsEarned == Spec => []VariantsAreEarned
<1>1. GatheredInv /\ PlanInv => VariantsAreEarned
  <2> SUFFICES ASSUME GatheredInv, PlanInv, plan # None, plan.made.kind = "planned"
               PROVE  VariantsAreEarned
    BY DEF VariantsAreEarned
  <2>1. PICK eligible \in BOOLEAN, requested \in Surfaces :
          \E records :
            /\ ToSet(records) \subseteq ToSet(gathered)
            /\ plan = [from |-> ToSet(records), eligible |-> eligible, requested |-> requested,
                       made |-> BuildVariantPlan(eligible, requested, records)]
    BY DEF PlanInv
  <2>2. PICK records :
          /\ ToSet(records) \subseteq ToSet(gathered)
          /\ plan = [from |-> ToSet(records), eligible |-> eligible, requested |-> requested,
                     made |-> BuildVariantPlan(eligible, requested, records)]
    BY <2>1
  <2> DEFINE known == ToSet(records)
             R(c) == Known(c, known)
             resolve(claim) == ResolveClaim(claim, known)
             norm == Resolved(resolve("normalization"), "norm")
             wire(v) == IF Preferred(resolve("normalization"), v) # None
                        THEN Preferred(resolve("normalization"), v)
                        ELSE Preferred(resolve("transport"), v)
             values == EffectiveValues(resolve("effective"), resolve("accepted"), norm)
             scalar == Resolved(resolve("default"), "scalar")
             planned == [kind |-> "planned",
                         variants |-> {[effective |-> v, explicit |-> wire(v) # None,
                                        wire |-> IF wire(v) # None THEN wire(v) ELSE v] : v \in values},
                         default |-> IF scalar \in Effective THEN scalar ELSE None,
                         sources |-> [c \in {"support", "accepted", "effective"} |-> TopSource(c, records)]]
             ok == /\ eligible
                   /\ \A q, r \in known : q.tuple = r.tuple
                   /\ \A r \in known : Gate(r.tuple.surface, requested)
                   /\ Resolved(resolve("support"), "support") = "supported"
                   /\ \A c \in {"accepted", "effective", "normalization", "default"} :
                        resolve(c).kind # "ambiguous"
                   /\ values # {}
  <2>3. BuildVariantPlan(eligible, requested, records) = IF ok THEN planned ELSE Empty
    BY Zenon DEF BuildVariantPlan
  <2> HIDE DEF planned, ok
  <2>4. ok /\ plan.made = planned
    BY <2>2, <2>3 DEF Empty
  <2> HIDE DEF values
  <2>5. \A v \in plan.made.variants : v.effective \in values
    BY <2>4 DEF planned
  <2>6. known \in SUBSET ToSet(gathered) /\ \A q, r \in known : q.tuple = r.tuple
    BY <2>2, <2>4 DEF ok
  <2>7. ASSUME NEW c PROVE Ordered(R(c))
    BY <2>6, FiniteElements, ClaimOrdered DEF GatheredInv
  <2> HIDE DEF known
  <2>8. \E r \in R("support") : r.support = "supported"
    <3>1. resolve("support").kind = "resolved" /\ resolve("support").support = "supported"
      BY <2>4, DraftsAssumption DEF ok, Resolved
    <3>2. R("support") # {} /\ resolve("support") = ResolveScalar(R("support"))
      BY <3>1 DEF ResolveClaim, Unresolved, ValueClaims
    <3>3. QED
      BY <2>7, <3>1, <3>2, ScalarFound
  <2>9. Cardinality({r.tuple : r \in known}) = 1
    <3>1. PICK r \in known : TRUE
      BY <2>8 DEF Known
    <3>2. {q.tuple : q \in known} = {r.tuple}
      BY <2>6, <3>1
    <3>3. QED
      BY <3>2, FS_Singleton
  <2>10. \A r \in known : r.tuple.surface = requested /\ r.tuple.surface # "unknown"
    BY <2>4 DEF ok, Gate
  <2>11. ASSUME NEW c \in {"effective", "accepted"}, resolve(c).kind = "resolved",
                NEW x \in resolve(c).values
         PROVE  \E r \in R(c) :
                  /\ x \in Listed(r.values)
                  /\ LET fixed == {e \in R(r.claim) : e.completeness = "exhaustive"} IN
                     /\ fixed # {} => r = Top(fixed)
                     /\ \A q \in R(r.claim) :
                          fixed = {} \/ q = r \/ Before(q, r) => x \notin Listed(q.negatives)
    <3>1. R(c) # {} /\ resolve(c) = ResolveValues(R(c))
      BY <2>11 DEF ResolveClaim, Unresolved, ValueClaims
    <3>2. PICK r \in R(c) :
            /\ x \in Listed(r.values)
            /\ Exhaustive(R(c)) # {} => r = Top(Exhaustive(R(c)))
            /\ \A q \in R(c) :
                 Exhaustive(R(c)) = {} \/ q = r \/ Before(q, r) => x \notin Listed(q.negatives)
      BY <2>7, <2>11, <3>1, ValueListed
    <3>3. r.claim = c
      BY <3>2 DEF Known
    <3>4. Exhaustive(R(c)) = {e \in R(r.claim) : e.completeness = "exhaustive"}
      BY <3>3 DEF Exhaustive
    <3>5. QED
      BY <3>2, <3>3, <3>4
  <2>12. ASSUME NEW x, norm # None, x \in DOMAIN norm
         PROVE  \E n \in R("normalization") :
                  n.norm # None /\ x \in DOMAIN n.norm /\ n.norm[x] = norm[x]
    <3>1. resolve("normalization").kind = "resolved" /\ norm = resolve("normalization").norm
      BY <2>12 DEF Resolved
    <3>2. R("normalization") # {} /\ resolve("normalization") = ResolveScalar(R("normalization"))
      BY <3>1 DEF ResolveClaim, Unresolved, ValueClaims
    <3>3. PICK n \in R("normalization") : norm = n.norm
      BY <2>7, <2>12, <3>1, <3>2, ScalarFound
    <3>4. QED
      BY <2>12, <3>3
  <2> HIDE DEF norm, resolve
  <2>13. ASSUME NEW v \in plan.made.variants
         PROVE  \E r \in R("effective") \cup R("accepted") : \E x \in Listed(r.values) :
                  /\ \/ x = v.effective
                     \/ \E n \in R("normalization") :
                          n.norm # None /\ x \in DOMAIN n.norm /\ n.norm[x] = v.effective
                  /\ LET fixed == {e \in R(r.claim) : e.completeness = "exhaustive"} IN
                     /\ fixed # {} => r = Top(fixed)
                     /\ \A q \in R(r.claim) :
                          fixed = {} \/ q = r \/ Before(q, r) => x \notin Listed(q.negatives)
    <3>1. v.effective \in values
      BY <2>5
    <3> DEFINE Gives(c, x) ==
                 /\ resolve(c).kind = "resolved" /\ x \in resolve(c).values
                 /\ x = v.effective \/ (norm # None /\ x \in DOMAIN norm /\ norm[x] = v.effective)
    <3>2. \E c \in {"effective", "accepted"} : \E x : Gives(c, x)
      <4>1. CASE resolve("effective").kind = "resolved" /\ resolve("effective").values # {}
        BY <3>1, <4>1 DEF values, EffectiveValues
      <4>2. CASE ~(resolve("effective").kind = "resolved" /\ resolve("effective").values # {})
        <5>1. /\ resolve("accepted").kind = "resolved"
              /\ v.effective \in {Mapped(x, norm) : x \in resolve("accepted").values}
          BY <3>1, <4>2 DEF values, EffectiveValues
        <5>2. PICK x \in resolve("accepted").values : v.effective = Mapped(x, norm)
          BY <5>1
        <5>3. QED
          BY <5>1, <5>2 DEF Mapped
      <4>3. QED
        BY <4>1, <4>2
    <3>3. PICK c \in {"effective", "accepted"} : \E x : Gives(c, x)
      BY <3>2
    <3>4. PICK x : Gives(c, x)
      BY <3>3
    <3>5. PICK r \in R(c) :
            /\ x \in Listed(r.values)
            /\ LET fixed == {e \in R(r.claim) : e.completeness = "exhaustive"} IN
               /\ fixed # {} => r = Top(fixed)
               /\ \A q \in R(r.claim) :
                    fixed = {} \/ q = r \/ Before(q, r) => x \notin Listed(q.negatives)
      BY <2>11, <3>4
    <3>6. \/ x = v.effective
          \/ \E n \in R("normalization") :
               n.norm # None /\ x \in DOMAIN n.norm /\ n.norm[x] = v.effective
      BY <2>12, <3>4
    <3>7. r \in R("effective") \cup R("accepted") /\ x \in Listed(r.values)
      BY <3>4, <3>5
    <3> HIDE DEF R
    <3>8. QED
      BY <3>5, <3>6, <3>7
  <2>14. plan.from = known /\ plan.eligible = eligible /\ plan.requested = requested
    BY <2>2 DEF known
  <2>15. QED
    BY <2>4, <2>8, <2>9, <2>10, <2>13, <2>14 DEF VariantsAreEarned, ok
<1>2. QED
  BY <1>1, EvidenceHolds, PTL

-----------------------------------------------------------------------------
(* An exhaustive record before the other exhaustive ones fixes the values. *)
LEMMA ExhaustiveFixes ==
  ASSUME NEW R, NEW r, Ordered(R \cup {r}), r.completeness = "exhaustive",
         \A e \in Exhaustive(R) : Before(r, e), ~Contested(R \cup {r})
  PROVE  ResolveValues(R \cup {r}).values
           = Net(r) \ UNION {Listed(q.negatives) : q \in {p \in R : Before(p, r)}}
<1> DEFINE S == R \cup {r}
<1>1. Exhaustive(S) = Exhaustive(R) \cup {r}
  BY DEF Exhaustive
<1>2. Ordered(Exhaustive(S))
  <2>1. Exhaustive(S) \subseteq S
    BY DEF Exhaustive
  <2>2. QED
    BY <2>1, OrderedSubset
<1>3. IsTop(r, Exhaustive(S))
  BY <1>1 DEF IsTop
<1>4. Top(Exhaustive(S)) = r
  BY <1>2, <1>3, TopUnique
<1>5. Exhaustive(S) # {}
  BY <1>1
<1> HIDE DEF S
<1>6. ResolveValues(S).values = Positives(S) \ UNION {Listed(q.negatives) : q \in Met(S)}
  BY ResolvedValues DEF S
<1>7. Positives(S) = Net(r)
  BY <1>4, <1>5 DEF Positives
<1>8. Met(S) = {r} \cup {p \in R : Before(p, r)}
  <2>1. Met(S) = {q \in S : q = r \/ Before(q, r)}
    BY <1>4, <1>5 DEF Met
  <2>2. ~Before(r, r)
    BY BeforeOrder DEF Ordered
  <2>3. QED
    BY <2>1, <2>2 DEF S
<1>9. Net(r) \cap Listed(r.negatives) = {}
  BY DEF Net
<1>10. UNION {Listed(q.negatives) : q \in Met(S)}
         = Listed(r.negatives) \cup UNION {Listed(q.negatives) : q \in {p \in R : Before(p, r)}}
  <2> DEFINE P == {p \in R : Before(p, r)}
  <2>1. Met(S) = {r} \cup P
    BY <1>8
  <2> HIDE DEF P
  <2>2. UNION {Listed(q.negatives) : q \in {r} \cup P}
          = Listed(r.negatives) \cup UNION {Listed(q.negatives) : q \in P}
    OBVIOUS
  <2>3. QED
    BY <2>1, <2>2 DEF P
<1>11. PICK D : D = UNION {Listed(q.negatives) : q \in {p \in R : Before(p, r)}}
  OBVIOUS
<1>12. ResolveValues(S).values = Net(r) \ (Listed(r.negatives) \cup D)
  BY <1>6, <1>7, <1>10, <1>11
<1>13. ResolveValues(S).values = Net(r) \ D
  BY <1>9, <1>12
<1>14. QED
  BY <1>11, <1>13 DEF S

(* What one record more does to a value claim.                             *)
LEMMA OneRecordMore ==
  ASSUME NEW c \in ValueClaims, NEW old, NEW r, r.claim = c, Ordered(Known(c, old \cup {r}))
  PROVE  LET before == ResolveClaim(c, old)
             after == ResolveClaim(c, old \cup {r})
             fixed == {e \in Known(c, old) : e.completeness = "exhaustive"}
         IN /\ r.support = "unknown" => after = before
            /\ r.completeness # "exhaustive" /\ Listed(r.negatives) = {}
                 /\ before.kind = "resolved" /\ after.kind = "resolved"
                 => before.values \subseteq after.values
            /\ fixed # {} /\ before.kind = "resolved"
                 /\ r.authority # Top(fixed).authority /\ Before(Top(fixed), r)
                 => after = before
            /\ r.completeness = "exhaustive" /\ r.support # "unknown"
                 /\ (\A e \in fixed : Before(r, e)) /\ after.kind = "resolved"
                 => after.values =
                      Net(r) \ UNION {Listed(q.negatives) : q \in {p \in Known(c, old) : Before(p, r)}}
<1> DEFINE before == ResolveClaim(c, old)
           after == ResolveClaim(c, old \cup {r})
           R == Known(c, old)
<1>1. CASE r.support = "unknown"
  <2>1. Known(c, old \cup {r}) = R
    BY <1>1 DEF Known
  <2>2. after = before
    BY <2>1 DEF ResolveClaim
  <2> HIDE DEF after, before
  <2>3. r.completeness = "exhaustive" /\ r.support # "unknown" => FALSE
    BY <1>1
  <2>4. QED
    BY <1>1, <2>2 DEF after, before
<1>2. CASE r.support # "unknown"
  <2>1. Known(c, old \cup {r}) = R \cup {r}
    BY <1>2 DEF Known
  <2>2. before = (IF R = {} THEN Unresolved ELSE ResolveValues(R))
    BY DEF ResolveClaim
  <2>3. after = ResolveValues(R \cup {r})
    BY <2>1 DEF ResolveClaim
  <2>4. {e \in Known(c, old) : e.completeness = "exhaustive"} = Exhaustive(R)
    BY DEF Exhaustive
  <2>5. Ordered(R \cup {r})
    BY <2>1
  <2> HIDE DEF after, before, R
  <2>6. before.kind = "resolved" => before = ResolveValues(R) /\ ~Contested(R)
    BY <2>2, ResolvedValues DEF Unresolved
  <2>7. after.kind = "resolved" => ~Contested(R \cup {r})
    BY <2>3, ResolvedValues
  <2>8. ASSUME r.completeness # "exhaustive", Listed(r.negatives) = {},
               before.kind = "resolved", after.kind = "resolved"
        PROVE  before.values \subseteq after.values
    <3>1. before.values = Positives(R) \ UNION {Listed(q.negatives) : q \in Met(R)}
      BY <2>6, <2>8, ResolvedValues
    <3>2. after.values = Positives(R \cup {r})
                           \ UNION {Listed(q.negatives) : q \in Met(R \cup {r})}
      BY <2>3, <2>7, <2>8, ResolvedValues
    <3>3. QED
      BY <2>6, <2>8, <3>1, <3>2, PartialKeepsValues
  <2>9. ASSUME Exhaustive(R) # {}, before.kind = "resolved",
               r.authority # Top(Exhaustive(R)).authority, Before(Top(Exhaustive(R)), r)
        PROVE  after = before
    BY <2>3, <2>5, <2>6, <2>9, LaterChangesNothing
  <2>10. ASSUME r.completeness = "exhaustive", \A e \in Exhaustive(R) : Before(r, e),
                after.kind = "resolved"
         PROVE  after.values = Net(r) \ UNION {Listed(q.negatives) : q \in {p \in R : Before(p, r)}}
    BY <2>3, <2>5, <2>7, <2>10, ExhaustiveFixes
  <2>11. QED
    BY <1>2, <2>4, <2>8, <2>9, <2>10 DEF after, before, R
<1>3. QED
  BY <1>1, <1>2

(* In any order of any evidence, what is gathered later does to the values *)
(* of a claim what its kind and rank allow: nothing, an addition, or, if   *)
(* it is the first exhaustive record, a replacement (resolveValueClaim).   *)
THEOREM LaterEvidenceMerges == Spec => EvidenceAccumulates
<1>1. ASSUME GatheredInv, PlanInv, GatheredInv', [Next]_<<capVars, reasonVars>>,
             NEW c \in ValueClaims, NEW r \in ToSet(gathered') \ ToSet(gathered), r.claim = c
      PROVE  Ordered(Known(c, {q \in ToSet(gathered) : q.tuple = r.tuple} \cup {r}))
  <2> DEFINE G == ToSet(gathered')
             S == {q \in ToSet(gathered) : q.tuple = r.tuple} \cup {r}
  <2>1. ToSet(gathered) \subseteq G
    BY <1>1, EvidenceStep DEF GatheredKept
  <2>2. S \in SUBSET G /\ \A p, q \in S : p.tuple = q.tuple
    BY <2>1
  <2>3. /\ IsFiniteSet(G) /\ \A q \in G : IsEvidence(q)
        /\ \A p, q \in G : SameRecord(p, q) => p = q
    BY <1>1, FiniteElements DEF GatheredInv
  <2> HIDE DEF G, S
  <2>4. Ordered(Known(c, S))
    BY <2>2, <2>3, ClaimOrdered
  <2>5. QED
    BY <2>4 DEF S
<1>2. ASSUME GatheredInv, PlanInv, GatheredInv', [Next]_<<capVars, reasonVars>>
      PROVE  \A c \in ValueClaims : \A r \in ToSet(gathered') \ ToSet(gathered) :
               LET old == {q \in ToSet(gathered) : q.tuple = r.tuple}
                   before == ResolveClaim(c, old)
                   after == ResolveClaim(c, old \cup {r})
                   fixed == {e \in Known(c, old) : e.completeness = "exhaustive"}
               IN r.claim = c =>
                    /\ r.support = "unknown" => after = before
                    /\ r.completeness # "exhaustive" /\ Listed(r.negatives) = {}
                         /\ before.kind = "resolved" /\ after.kind = "resolved"
                         => before.values \subseteq after.values
                    /\ fixed # {} /\ before.kind = "resolved"
                         /\ r.authority # Top(fixed).authority /\ Before(Top(fixed), r)
                         => after = before
                    /\ r.completeness = "exhaustive" /\ r.support # "unknown"
                         /\ (\A e \in fixed : Before(r, e)) /\ after.kind = "resolved"
                         => after.values =
                              Net(r) \ UNION {Listed(q.negatives) :
                                                q \in {p \in Known(c, old) : Before(p, r)}}
  BY <1>1, <1>2, OneRecordMore
<1>3. QED
  BY <1>2, EvidenceHolds, PTL DEF Spec, EvidenceAccumulates

-----------------------------------------------------------------------------
(* Reasoning: what is looked up is there and is typed.                     *)

(* The snapshot's entry of an id it knows is one of its entries.           *)
LEMMA EntryOf ==
  ASSUME NEW q \in Questions, NEW k \in Ids(q.snapshot)
  PROVE  IsOptions(Entry(q.snapshot, k).options)
<1> DEFINE s == q.snapshot
<1>1. Len(s.hosted) \in Nat
  BY QuestionsAssumption
<1>2. CASE Served(s, k) # {}
  <2>1. Max(Served(s, k)) \in Served(s, k)
    BY <1>1, <1>2, LastPosition DEF Served
  <2>2. QED
    BY <1>2, <2>1, QuestionsAssumption DEF Entry, Served
<1>3. CASE Served(s, k) = {}
  <2>1. \E e \in s.models : e.id = k
    BY <1>3 DEF Ids, Served
  <2>2. (CHOOSE e \in s.models : e.id = k) \in s.models
    BY <2>1
  <2>3. QED
    BY <1>3, <2>2, QuestionsAssumption DEF Entry
<1>4. QED
  BY <1>2, <1>3

(* An id that some host serves has the entry of one of them.               *)
LEMMA ServedEntry ==
  ASSUME NEW q \in Questions, NEW k, NEW i \in Served(q.snapshot, k)
  PROVE  \E j \in Served(q.snapshot, k) : Entry(q.snapshot, k) = q.snapshot.hosted[j]
<1>1. Len(q.snapshot.hosted) \in Nat
  BY QuestionsAssumption
<1>2. Max(Served(q.snapshot, k)) \in Served(q.snapshot, k)
  BY <1>1, LastPosition DEF Served
<1>3. QED
  BY <1>2 DEF Entry

(* Without controls, or with effort values only, options are typed.        *)
LEMMA PlainOptions ==
  /\ IsOptions(NoOptions)
  /\ \A S : IsOptions(Efforts(S)) /\ Efforts(S).effort = S
  BY DEF IsOptions, NoOptions, Efforts

(* Normalized options are typed.                                           *)
LEMMA NormalizedOptions ==
  ASSUME NEW o, IsOptions(o)
  PROVE  IsOptions(Normalized(o))
  BY DEF IsOptions, Normalized, Positive

(* What a provider says of its model is typed.                             *)
LEMMA NativeOptions ==
  ASSUME NEW q \in Questions, Native(q.metadata) # Absent
  PROVE  IsOptions(Native(q.metadata))
<1>1. q.metadata.options # Absent => IsOptions(Normalized(q.metadata.options))
  BY NormalizedOptions, QuestionsAssumption
<1>2. QED
  BY <1>1, PlainOptions DEF Native

(* The official entries of a model are entries of a registry without fault *)
(* that bear one of the names asked for.                                   *)
LEMMA OfficialEntry ==
  ASSUME NEW q \in Questions, NEW e \in Official(q)
  PROVE  \E i \in 1..Len(q.registry) :
           /\ e = q.registry[i] /\ e.sourced
           /\ \E x \in {q.alias, StripTag(q.id), Base(StripTag(q.id))} :
                /\ x = e.id \/ x \in e.aliases
                /\ x = q.alias \/ x = StripTag(q.id) \/ e.revision
<1> DEFINE registry == LoadRegistry(q.registry)
           id == StripTag(q.id)
<1>1. PICK x \in {q.alias, id, Base(id)} :
        /\ e \in Entries(registry, x)
        /\ x = q.alias \/ x = id \/ e.revision
  BY Zenon DEF Official
<1>2. PICK i \in 1..Len(registry) :
        e = registry[i] /\ (x = registry[i].id \/ x \in registry[i].aliases)
  BY <1>1 DEF Entries
<1>3. \A j \in 1..Len(q.registry) : ValidEntry(q.registry, j)
  <2>1. registry # <<>>
    BY <1>2
  <2>2. QED
    BY <2>1, Zenon DEF LoadRegistry
<1>4. registry = q.registry
  BY <1>3, Zenon DEF LoadRegistry
<1>5. e.sourced
  BY <1>2, <1>3, <1>4 DEF ValidEntry
<1>6. QED
  BY <1>1, <1>2, <1>4, <1>5

(* Where controls come from, and that they are typed.                      *)
LEMMA ControlsSource ==
  ASSUME NEW q \in Questions
  PROVE  /\ IsOptions(Controls(q).options)
         /\ \/ /\ Controls(q).source = "native"
               /\ Controls(q).options = Native(q.metadata)
            \/ Controls(q).source \in {"models.dev", "none"}
               /\ Controls(q) = FromModelsDev(q, Canonical(q))
            \/ /\ Controls(q).source = "registry" /\ q.policy = "official-model"
               /\ \E e \in Official(q) : Controls(q).options = e.controls
<1> DEFINE native == Native(q.metadata)
           found == IF native # Absent THEN Capability(TRUE, native, "native")
                    ELSE FromModelsDev(q, Canonical(q))
           e == CHOOSE x \in Official(q) : TRUE
<1>1. /\ IsOptions(found.options)
      /\ \/ found.source = "native" /\ found.options = native
         \/ found.source \in {"models.dev", "none"} /\ found = FromModelsDev(q, Canonical(q))
  <2>1. CASE native # Absent
    BY <2>1, NativeOptions DEF Capability
  <2>2. CASE native = Absent
    <3> DEFINE c == Canonical(q)
               key == IF c.id # Absent THEN c.id ELSE q.id
    <3>1. key \in Ids(q.snapshot) => IsOptions(Entry(q.snapshot, key).options)
      BY EntryOf
    <3> HIDE DEF c, key
    <3>2. FromModelsDev(q, c) =
            IF key \in Ids(q.snapshot)
            THEN LET x == Entry(q.snapshot, key) IN
                 Capability(x.reasoning, IF x.reasoning THEN x.options ELSE NoOptions, "models.dev")
            ELSE Capability(c.id # Absent, NoOptions, "none")
      BY DEF FromModelsDev, key
    <3>3. IsOptions(FromModelsDev(q, c).options) /\ FromModelsDev(q, c).source \in {"models.dev", "none"}
      BY <3>1, <3>2, PlainOptions DEF Capability
    <3>4. QED
      BY <2>2, <3>3 DEF c
  <2>3. QED
    BY <2>1, <2>2
<1>2. \/ Controls(q) = found
      \/ /\ q.policy = "official-model" /\ Official(q) # {}
         /\ Controls(q) = Capability(e.reasoning, e.controls, "registry")
  BY Zenon DEF Controls
<1>3. ASSUME Official(q) # {}
      PROVE  e \in Official(q) /\ IsOptions(e.controls)
  <2>1. e \in Official(q)
    BY <1>3
  <2>2. \E i \in 1..Len(q.registry) : e = q.registry[i]
    BY <2>1, OfficialEntry
  <2>3. QED
    BY <2>1, <2>2, QuestionsAssumption
<1> HIDE DEF e, found
<1>4. CASE Controls(q) = found
  BY <1>1, <1>4
<1>5. ASSUME q.policy = "official-model", Official(q) # {},
             Controls(q) = Capability(e.reasoning, e.controls, "registry")
      PROVE  /\ IsOptions(Controls(q).options)
             /\ Controls(q).source = "registry"
             /\ \E x \in Official(q) : Controls(q).options = x.controls
  BY <1>3, <1>5 DEF Capability
<1>6. QED
  BY <1>2, <1>4, <1>5

-----------------------------------------------------------------------------
(* Budgets.                                                                *)

(* The ceiling and the room the output leaves bound both tiers.            *)
LEMMA BudgetBounds ==
  ASSUME NEW budget, budget.min \in Int, budget.max \in Int, NEW limit \in Int
  PROVE  LET m == Maximum(budget, limit)  h == HighBudget(budget, limit) IN
         /\ m \in 1..SafetyMax /\ h \in 1..SafetyMax /\ h <= m
         /\ budget.max > 0 => m <= budget.max
         /\ limit > 1 => m < limit
         /\ m \in {budget.max, SafetyMax, limit - 1}
         /\ h = m \/ h >= budget.min
<1> DEFINE c == Ceiling(budget)
           m == Maximum(budget, limit)
           top == Max({budget.min, High})
           h == HighBudget(budget, limit)
<1>0. SafetyMax \in Nat /\ SafetyMax > 0
  BY DEF SafetyMax
<1>1. c = IF budget.max > 0 THEN IF budget.max <= SafetyMax THEN budget.max ELSE SafetyMax
          ELSE SafetyMax
  BY <1>0, MinMaxOfTwo DEF Ceiling
<1>2. c \in 1..SafetyMax /\ (budget.max > 0 => c <= budget.max) /\ c \in {budget.max, SafetyMax}
  BY <1>0, <1>1
<1> HIDE DEF c
<1>3. m = IF limit > 1 THEN IF c <= limit - 1 THEN c ELSE limit - 1 ELSE c
  <2>1. m = IF limit > 1 THEN Min({c, limit - 1}) ELSE c
    BY DEF Maximum, c
  <2>2. Min({c, limit - 1}) = IF c <= limit - 1 THEN c ELSE limit - 1
    BY <1>2, MinMaxOfTwo
  <2>3. QED
    BY <2>1, <2>2
<1>4. top = IF budget.min >= High THEN budget.min ELSE High
  <2>1. High \in Int
    BY DEF High
  <2>2. QED
    BY <2>1, MinMaxOfTwo
<1>5. h = Min({top, m})
  BY DEF HighBudget
<1> HIDE DEF m, top
<1>6. /\ m \in 1..SafetyMax
      /\ budget.max > 0 => m <= budget.max
      /\ limit > 1 => m < limit
      /\ m \in {budget.max, SafetyMax, limit - 1}
  BY <1>0, <1>2, <1>3
<1>7. top \in Nat /\ top > 0 /\ top >= budget.min
  BY <1>4 DEF High
<1>8. h = IF top <= m THEN top ELSE m
  BY <1>5, <1>6, <1>7, MinMaxOfTwo
<1> HIDE DEF h
<1>9. h \in 1..SafetyMax /\ h <= m /\ (h = m \/ h >= budget.min)
  BY <1>0, <1>6, <1>7, <1>8
<1>10. QED
  BY <1>6, <1>9 DEF m, h

(* What a model is given of its budget.                                    *)
LEMMA CompiledBudgets ==
  ASSUME NEW options, IsOptions(options), NEW transport, NEW limit \in Int,
         NEW v, v = Compiled(options, transport, limit)
  PROVE  LET b == options.budget
             spending == {t \in DOMAIN v : v[t].tokens # Absent}
         IN /\ \A t \in spending :
                 /\ v[t].tokens \in 1..SafetyMax
                 /\ b.max > 0 => v[t].tokens <= b.max
                 /\ limit > 1 => v[t].tokens < limit
                 /\ v[t].tokens >= b.min \/ v[t].tokens \in {b.max, SafetyMax, limit - 1}
            /\ {"high", "max"} \subseteq spending => v["high"].tokens < v["max"].tokens
<1> DEFINE b == options.budget
           spending == {t \in DOMAIN v : v[t].tokens # Absent}
           switch == IF options.toggle /\ transport \in SendsToggle THEN CompileToggle ELSE Nothing
           spends == b # Absent /\ transport \in SendsBudget
           budget == IF spends THEN CompileBudget(b, limit, transport) ELSE Nothing
<1>1. \A t \in DOMAIN switch : switch[t].tokens = Absent
  BY DEF CompileToggle, Nothing, Setting
<1>2. DOMAIN switch \subseteq {"none", "high"}
  BY DEF CompileToggle, Nothing
<1>3. CASE options.effort # {}
  <2>1. v = CompileEffort(options.effort) \/ v = Nothing
    BY <1>3 DEF Compiled
  <2>2. spending = {}
    BY <2>1 DEF CompileEffort, Nothing, Setting
  <2> HIDE DEF spending
  <2>3. QED
    BY <2>2 DEF spending
<1>4. CASE options.effort = {} /\ ~spends
  <2>1. v = [t \in DOMAIN switch \cup DOMAIN budget |->
               IF t \in DOMAIN budget THEN budget[t] ELSE switch[t]]
    BY <1>4 DEF Compiled
  <2>2. DOMAIN budget = {}
    BY <1>4 DEF Nothing
  <2> HIDE DEF budget, switch
  <2>3. spending = {}
    BY <1>1, <2>1, <2>2
  <2> HIDE DEF spending
  <2>4. QED
    BY <2>3 DEF spending
<1>5. CASE options.effort = {} /\ spends
  <2> DEFINE m == Maximum(b, limit)
             h == HighBudget(b, limit)
  <2>1. v = [t \in DOMAIN switch \cup DOMAIN budget |->
               IF t \in DOMAIN budget THEN budget[t] ELSE switch[t]]
    BY <1>5 DEF Compiled
  <2>2. /\ DOMAIN budget = IF m = h THEN {"high"} ELSE {"high", "max"}
        /\ \A t \in DOMAIN budget : budget[t].tokens = IF t = "high" THEN h ELSE m
    BY <1>5 DEF CompileBudget, Setting
  <2>3. /\ m \in 1..SafetyMax /\ h \in 1..SafetyMax /\ h <= m
        /\ b.max > 0 => m <= b.max
        /\ limit > 1 => m < limit
        /\ m \in {b.max, SafetyMax, limit - 1}
        /\ h = m \/ h >= b.min
    BY <1>5, BudgetBounds DEF IsOptions
  <2> HIDE DEF m, h, budget, switch, b
  <2>4. \A t \in spending : /\ t \in DOMAIN budget
                            /\ v[t].tokens \in {h, m}
    BY <1>1, <2>1, <2>2
  <2>5. \A t \in spending :
          /\ v[t].tokens \in 1..SafetyMax
          /\ b.max > 0 => v[t].tokens <= b.max
          /\ limit > 1 => v[t].tokens < limit
          /\ v[t].tokens >= b.min \/ v[t].tokens \in {b.max, SafetyMax, limit - 1}
    <3> SUFFICES ASSUME NEW t \in spending
                 PROVE  /\ v[t].tokens \in 1..SafetyMax
                        /\ b.max > 0 => v[t].tokens <= b.max
                        /\ limit > 1 => v[t].tokens < limit
                        /\ v[t].tokens >= b.min \/ v[t].tokens \in {b.max, SafetyMax, limit - 1}
      OBVIOUS
    <3>1. PICK n : n = v[t].tokens
      OBVIOUS
    <3>2. n \in {h, m}
      BY <2>4, <3>1
    <3>3. b.max \in Int /\ b.min \in Int
      BY <1>5 DEF IsOptions, b
    <3>4. SafetyMax \in Nat
      BY DEF SafetyMax
    <3>5. /\ n \in 1..SafetyMax
          /\ b.max > 0 => n <= b.max
          /\ limit > 1 => n < limit
          /\ n >= b.min \/ n \in {b.max, SafetyMax, limit - 1}
      BY <2>3, <3>2, <3>3, <3>4
    <3>6. QED
      BY <3>1, <3>5
  <2>6. {"high", "max"} \subseteq spending => v["high"].tokens < v["max"].tokens
    <3> SUFFICES ASSUME "high" \in spending, "max" \in spending
                 PROVE  v["high"].tokens < v["max"].tokens
      OBVIOUS
    <3>1. "max" \in DOMAIN budget /\ "high" \in DOMAIN budget
      BY <2>4
    <3>2. m # h
      BY <2>2, <3>1
    <3>3. v["high"].tokens = h /\ v["max"].tokens = m
      BY <2>1, <2>2, <3>1
    <3>4. QED
      BY <2>3, <3>2, <3>3 DEF SafetyMax
  <2>7. QED
    BY <2>5, <2>6 DEF b
<1>6. QED
  BY <1>3, <1>4, <1>5

-----------------------------------------------------------------------------
(* The answer is what the question is given.                               *)
AnswerInv ==
  /\ question \in Questions \cup {Absent}
  /\ answer = Absent \/ (question \in Questions /\ answer = Enriched(question))

(* The answer is the one Enriched gives, in every behaviour.               *)
LEMMA AnswerHolds == Spec => []AnswerInv
<1>1. Init => AnswerInv
  BY DEF Init, ReasonInit, AnswerInv
<1>2. AnswerInv /\ [Next]_<<capVars, reasonVars>> => AnswerInv'
  <2>1. ASSUME AnswerInv, [Next]_<<capVars, reasonVars>>
        PROVE  AnswerInv'
    <3>1. CASE UNCHANGED reasonVars
      BY <2>1, <3>1 DEF AnswerInv, reasonVars
    <3>2. CASE question # Absent /\ Enrich
      BY <2>1, <3>2 DEF AnswerInv, Enrich
    <3>3. QED
      BY <2>1, <3>1, <3>2 DEF Next, reasonVars
  <2>2. QED
    BY <2>1
<1>3. QED
  BY <1>1, <1>2, PTL DEF Spec

(* What an answer with automatic variants is made of.                      *)
LEMMA AutomaticAnswer ==
  ASSUME AnswerInv, Automatic
  PROVE  /\ question \in Questions
         /\ answer.capability = Controls(question)
         /\ answer.transport = Transport(question, Controls(question))
         /\ answer.transport # "unknown"
         /\ answer.capability.reasoning /\ answer.capability.options # NoOptions
         /\ answer.variants = Compiled(answer.capability.options, answer.transport, question.limit)
<1> DEFINE c == Controls(question)
           t == Transport(question, c)
           usable == question.enabled /\ t # "unknown" /\ c.reasoning /\ c.options # NoOptions
           v == Compiled(c.options, t, question.limit)
<1>1. question \in Questions /\ answer = Enriched(question)
  BY DEF AnswerInv, Automatic
<1>2. answer = [capability |-> c, transport |-> t, variants |-> IF usable THEN v ELSE Nothing]
  BY <1>1 DEF Enriched
<1> HIDE DEF c, t, v
<1>3. usable
  BY <1>2 DEF Automatic, Nothing
<1>4. QED
  BY <1>1, <1>2, <1>3 DEF c, t, v

(* No variant spends more tokens than the ceiling, the declared maximum or *)
(* the output limit allow, none spends nothing, more effort is more tokens *)
(* (compileBudget).                                                        *)
THEOREM BudgetsHold == Spec => []BudgetsWithinCaps
<1>1. AnswerInv => BudgetsWithinCaps
  <2> SUFFICES ASSUME AnswerInv, Automatic PROVE BudgetsWithinCaps
    BY DEF BudgetsWithinCaps
  <2> DEFINE o == answer.capability.options
  <2>1. IsOptions(o) /\ question.limit \in Int
    BY AutomaticAnswer, ControlsSource, QuestionsAssumption
  <2>2. answer.variants = Compiled(o, answer.transport, question.limit)
    BY AutomaticAnswer
  <2> HIDE DEF o
  <2>3. QED
    BY <2>1, <2>2, CompiledBudgets DEF BudgetsWithinCaps, o
<1>2. QED
  BY <1>1, AnswerHolds, PTL

-----------------------------------------------------------------------------
(* Identity.                                                               *)

(* A snapshot knows finitely many ids.                                     *)
LEMMA FiniteIds ==
  ASSUME NEW q \in Questions
  PROVE  IsFiniteSet(Ids(q.snapshot))
<1> DEFINE s == q.snapshot
           n == Len(s.hosted)
           A == {s.hosted[i].id : i \in 1..n}
           B == {e.id : e \in s.models}
           f == [i \in 1..n |-> s.hosted[i].id]
           g == [e \in s.models |-> e.id]
<1>1. IsFiniteSet(1..n) /\ IsFiniteSet(s.models)
  BY QuestionsAssumption, FS_Interval
<1>2. f \in Surjection(1..n, A)
  BY DEF Surjection
<1>3. g \in Surjection(s.models, B)
  BY DEF Surjection
<1> HIDE DEF A, B, f, g
<1>4. PICK P : P = 1..n
  OBVIOUS
<1>5. IsFiniteSet(A)
  BY <1>1, <1>2, <1>4, FS_Surjection
<1>6. IsFiniteSet(B)
  BY <1>1, <1>3, FS_Surjection
<1>7. Ids(s) = A \cup B
  BY DEF Ids, A, B
<1>8. QED
  BY <1>5, <1>6, <1>7, FS_Union

(* There is a first match in the order of the index: the one whose host    *)
(* comes first, or any when nobody serves them.                            *)
LEMMA FirstMatch ==
  ASSUME NEW q \in Questions, NEW ids, ids # {}
  PROVE  FirstOf(q.snapshot, ids) \in ids
<1> DEFINE s == q.snapshot
           n == Len(s.hosted)
           I == {i \in 1..n : s.hosted[i].id \in ids}
<1>1. n \in Nat
  BY QuestionsAssumption
<1>2. \E k \in ids : \A j \in ids : j = k \/ Served(s, j) = {}
                       \/ (Served(s, k) # {} /\ Min(Served(s, k)) < Min(Served(s, j)))
  <2>1. CASE I = {}
    <3>1. \A j \in ids : Served(s, j) = {}
      BY <2>1 DEF Served
    <3>2. QED
      BY <3>1
  <2>2. CASE I # {}
    <3> DEFINE i == Min(I)
               k == s.hosted[i].id
    <3>1. i \in I /\ \A y \in I : i <= y
      BY <1>1, <2>2, LeastPosition
    <3> HIDE DEF i
    <3>2. k \in ids /\ i \in Served(s, k)
      BY <3>1 DEF Served
    <3>3. \A x \in ids : Served(s, x) # {} =>
            /\ Min(Served(s, x)) \in Served(s, x)
            /\ \A y \in Served(s, x) : Min(Served(s, x)) <= y
      <4> SUFFICES ASSUME NEW x \in ids, Served(s, x) # {}
                   PROVE  /\ Min(Served(s, x)) \in Served(s, x)
                          /\ \A y \in Served(s, x) : Min(Served(s, x)) <= y
        OBVIOUS
      <4>1. Served(s, x) \subseteq 1..n
        BY DEF Served
      <4>2. QED
        BY <1>1, <4>1, LeastPosition
    <3>4. \A x \in ids : Served(s, x) \subseteq I
      BY DEF Served
    <3>5. \A x \in ids : \A y \in Served(s, x) : s.hosted[y].id = x /\ y \in 1..n
      BY DEF Served
    <3> HIDE DEF k, I
    <3>6. ASSUME NEW j \in ids, j # k, Served(s, j) # {}
          PROVE  Served(s, k) # {} /\ Min(Served(s, k)) < Min(Served(s, j))
      <4> DEFINE a == Min(Served(s, k))
                 b == Min(Served(s, j))
      <4>1. a \in Served(s, k) /\ a <= i /\ b \in Served(s, j)
        BY <3>2, <3>3, <3>6
      <4>2. i <= b /\ a \in 1..n /\ b \in 1..n /\ i \in 1..n
        BY <3>1, <3>2, <3>4, <3>5, <4>1
      <4>3. a # b
        BY <3>2, <3>5, <3>6, <4>1
      <4> HIDE DEF a, b
      <4>4. a < b
        BY <1>1, <4>1, <4>2, <4>3
      <4>5. QED
        BY <3>2, <4>4 DEF a, b
    <3>7. QED
      BY <3>2, <3>6
  <2>3. QED
    BY <2>1, <2>2
<1>3. QED
  BY <1>2, Zenon DEF FirstOf

(* What Among finds is a candidate that agrees with all the others.        *)
LEMMA AmongAgrees ==
  ASSUME NEW q \in Questions, NEW ids \in SUBSET Ids(q.snapshot), ids # {},
         Among(q.snapshot, ids).id # Absent
  PROVE  LET k == Among(q.snapshot, ids).id IN
         k \in ids /\ \A j \in ids : Entry(q.snapshot, j).options = Entry(q.snapshot, k).options
<1> DEFINE s == q.snapshot
<1>1. CASE Cardinality(ids) = 1
  <2>1. IsFiniteSet(ids)
    BY FiniteIds, FS_Subset
  <2>2. PICK x : ids = {x}
    BY <1>1, <2>1, OneElement
  <2>3. (CHOOSE k \in ids : TRUE) = x
    BY <2>2
  <2>4. Among(s, ids).id = x
    BY <1>1, <2>3 DEF Among, Sure
  <2>5. QED
    BY <2>2, <2>4
<1>2. CASE Cardinality(ids) # 1
  <2>1. Agreeing(s, ids) /\ Among(s, ids).id = FirstOf(s, ids)
    BY <1>2 DEF Among, Sure, Unclear
  <2>2. FirstOf(s, ids) \in ids
    BY FirstMatch
  <2>3. QED
    BY <2>1, <2>2 DEF Agreeing
<1>3. QED
  BY <1>1, <1>2

(* The id an entry is looked up by may speak for the model asked about.    *)
LEMMA CanonicalSpeaks ==
  ASSUME NEW q \in Questions,
         NEW key, key = IF Canonical(q).id # Absent THEN Canonical(q).id ELSE q.id,
         key \in Ids(q.snapshot)
  PROVE  SpeaksFor(q, key)
<1> DEFINE s == q.snapshot
           id == StripTag(q.id)
           part == SamePart(s, Part(id))
           combos == {k \in part : Namespaced(k)}
           bases == IF Base(id) \in Ids(s) THEN {Base(id)} ELSE SamePart(s, Base(id))
           c == Canonical(q)
<1>1. CASE q.alias # Absent
  <2>1. c = ByAlias(s, q.alias)
    BY <1>1 DEF Canonical
  <2>2. Absent \notin Ids(s)
    BY QuestionsAssumption
  <2>3. c.id = q.alias \/ (c.id = LastSegment(q.alias) /\ c.id \in Ids(s))
    BY <2>1 DEF ByAlias, Sure
  <2>4. key = c.id
    BY <1>1, <2>2, <2>3
  <2>5. QED
    BY <1>1, <2>3, <2>4 DEF SpeaksFor
<1>2. CASE q.alias = Absent /\ c.id = Absent
  BY <1>2 DEF SpeaksFor
<1>3. CASE q.alias = Absent /\ c.id # Absent
  <2>1. key = c.id
    BY <1>3
  <2>2. \/ c = Sure(id, "exact")
        \/ c = Sure(Part(id), "high")
        \/ /\ ~(Namespaced(id) /\ Part(id) \in Ids(s))
           /\ Namespaced(id) /\ combos # {}
           /\ c = Among(s, combos)
        \/ part # {} /\ c = Among(s, part)
        \/ Cardinality(bases) = 1 /\ c = Among(s, bases)
        \/ c = Unclear
    BY <1>3 DEF Canonical
  <2>3. ASSUME NEW i, SamePart(s, i) # {}, c = Among(s, SamePart(s, i)), i \in {Part(id), Base(id)}
        PROVE  SpeaksFor(q, key)
    <3>1. SamePart(s, i) \subseteq Ids(s)
      BY DEF SamePart
    <3>2. /\ key \in SamePart(s, i)
          /\ \A j \in SamePart(s, i) : Entry(s, j).options = Entry(s, key).options
      BY <1>3, <2>1, <2>3, <3>1, AmongAgrees
    <3>3. Part(key) = i
      BY <3>2 DEF SamePart
    <3>4. QED
      BY <1>3, <2>3, <3>2, <3>3 DEF SpeaksFor
  <2>4. CASE c = Sure(id, "exact") \/ c = Sure(Part(id), "high")
    BY <1>3, <2>1, <2>4 DEF SpeaksFor, Sure
  <2>5. CASE part # {} /\ c = Among(s, part)
    BY <2>3, <2>5
  <2>6. CASE /\ ~(Namespaced(id) /\ Part(id) \in Ids(s))
             /\ Namespaced(id) /\ combos # {}
             /\ c = Among(s, combos)
    <3>1. combos = part
      <4>1. \A k \in part : k \in Ids(s) /\ Part(k) = Part(id)
        BY DEF SamePart
      <4>2. \A k \in part : ~Namespaced(k) => k = Part(id)
        BY <4>1 DEF Part
      <4>3. QED
        BY <2>6, <4>1, <4>2
    <3>2. QED
      BY <2>3, <2>6, <3>1
  <2>7. CASE Cardinality(bases) = 1 /\ c = Among(s, bases)
    <3>1. CASE Base(id) \in Ids(s)
      <4>1. bases = {Base(id)} /\ bases \subseteq Ids(s)
        BY <3>1
      <4>2. key = Base(id)
        BY <1>3, <2>1, <2>7, <4>1, AmongAgrees
      <4>3. QED
        BY <1>3, <4>2 DEF SpeaksFor
    <3>2. CASE Base(id) \notin Ids(s)
      <4>1. bases = SamePart(s, Base(id))
        BY <3>2
      <4>2. bases # {}
        BY <2>7, FS_EmptySet
      <4>3. QED
        BY <2>3, <2>7, <4>1, <4>2
    <3>3. QED
      BY <3>1, <3>2
  <2>8. CASE c = Unclear
    BY <1>3, <2>8 DEF Unclear
  <2>9. QED
    BY <2>2, <2>4, <2>5, <2>6, <2>7, <2>8
<1>4. QED
  BY <1>1, <1>2, <1>3

(* A transport is configured, of a known provider, or the generic one for  *)
(* official efforts.                                                       *)
LEMMA TransportSource ==
  ASSUME NEW q, NEW c, Transport(q, c) # "unknown"
  PROVE  \/ Transport(q, c) = Explicit(q)
         \/ \E p \in Profiles : q[p.signal] = p.is /\ p.transport = Transport(q, c)
         \/ c.source = "registry" /\ c.options.effort # {}
<1> DEFINE matches == {p \in Profiles : q[p.signal] = p.is}
           best == {p \in matches : \A o \in matches : o.rank <= p.rank}
           sent == {p.transport : p \in best}
<1>1. ASSUME Profile(q) # "unknown"
      PROVE  \E p \in Profiles : q[p.signal] = p.is /\ p.transport = Profile(q)
  <2>1. Cardinality(sent) = 1 /\ Profile(q) = (CHOOSE p \in best : TRUE).transport
    BY <1>1 DEF Profile
  <2>2. sent # {}
    BY <2>1, FS_EmptySet
  <2>3. best # {}
    BY <2>2
  <2>4. (CHOOSE p \in best : TRUE) \in best
    BY <2>3
  <2>5. best \subseteq matches
    OBVIOUS
  <2> HIDE DEF best
  <2>6. QED
    BY <2>1, <2>4, <2>5
<1>2. \/ Transport(q, c) = Explicit(q)
      \/ Transport(q, c) = Profile(q)
      \/ c.source = "registry" /\ c.options.effort # {}
  BY DEF Transport
<1>3. QED
  BY <1>1, <1>2

(* No control is guessed: the provider declared it, an entry that may      *)
(* speak for the model did, or a sound official entry of its name under    *)
(* the policy that asks for it (resolveReasoningForModel).                 *)
THEOREM ControlsHold == Spec => []ControlsAreNotGuessed
<1>1. AnswerInv => ControlsAreNotGuessed
  <2> SUFFICES ASSUME AnswerInv, Automatic PROVE ControlsAreNotGuessed
    BY DEF ControlsAreNotGuessed
  <2> DEFINE q == question
             c == answer.capability
  <2>1. /\ q \in Questions /\ c = Controls(q)
        /\ answer.transport = Transport(q, c) /\ answer.transport # "unknown"
        /\ c.reasoning /\ c.options # NoOptions
        /\ answer.variants = Compiled(c.options, answer.transport, q.limit)
    BY AutomaticAnswer
  <2>2. c.source = "native" => c.options = Native(q.metadata)
    BY <2>1, ControlsSource
  <2>3. c.source = "models.dev"
          /\ (\A k \in Ids(q.snapshot) : Names(q, k) => Unanimous(q.snapshot, k)) =>
          \E k \in Ids(q.snapshot) :
            /\ SpeaksFor(q, k)
            /\ Entry(q.snapshot, k).options = c.options
            /\ \A i \in Served(q.snapshot, k) : q.snapshot.hosted[i].options = c.options
    <3> SUFFICES ASSUME c.source = "models.dev",
                        \A k \in Ids(q.snapshot) : Names(q, k) => Unanimous(q.snapshot, k)
                 PROVE  \E k \in Ids(q.snapshot) :
                          /\ SpeaksFor(q, k)
                          /\ Entry(q.snapshot, k).options = c.options
                          /\ \A i \in Served(q.snapshot, k) : q.snapshot.hosted[i].options = c.options
      OBVIOUS
    <3> DEFINE key == IF Canonical(q).id # Absent THEN Canonical(q).id ELSE q.id
    <3>1. c = FromModelsDev(q, Canonical(q))
      BY <2>1, ControlsSource
    <3>2. key \in Ids(q.snapshot)
      BY <3>1 DEF FromModelsDev, Capability
    <3>3. c.options = Entry(q.snapshot, key).options
      BY <2>1, <3>1, <3>2 DEF FromModelsDev, Capability
    <3>4. SpeaksFor(q, key)
      BY <2>1, <3>2, CanonicalSpeaks
    <3> HIDE DEF key, q, c
    <3>5. Names(q, key)
      BY <3>4 DEF SpeaksFor, Names
    <3>6. Unanimous(q.snapshot, key)
      BY <3>2, <3>5
    <3>7. \A i \in Served(q.snapshot, key) : q.snapshot.hosted[i].options = c.options
      BY <2>1, <3>3, <3>6, ServedEntry DEF Unanimous
    <3>8. QED
      BY <3>2, <3>3, <3>4, <3>7
  <2>4. c.source = "registry" =>
          /\ q.policy = "official-model"
          /\ \E i \in 1..Len(q.registry) :
               LET e == q.registry[i] IN
               /\ e.controls = c.options /\ e.sourced
               /\ \E x \in {q.alias, StripTag(q.id), Base(StripTag(q.id))} :
                    /\ x = e.id \/ x \in e.aliases
                    /\ x = q.alias \/ x = StripTag(q.id) \/ e.revision
    <3> SUFFICES ASSUME c.source = "registry"
                 PROVE  /\ q.policy = "official-model"
                        /\ \E i \in 1..Len(q.registry) :
                             LET e == q.registry[i] IN
                             /\ e.controls = c.options /\ e.sourced
                             /\ \E x \in {q.alias, StripTag(q.id), Base(StripTag(q.id))} :
                                  /\ x = e.id \/ x \in e.aliases
                                  /\ x = q.alias \/ x = StripTag(q.id) \/ e.revision
      OBVIOUS
    <3>1. q.policy = "official-model" /\ \E e \in Official(q) : c.options = e.controls
      BY <2>1, ControlsSource
    <3>2. PICK e \in Official(q) : c.options = e.controls
      BY <3>1
    <3>3. QED
      BY <2>1, <3>1, <3>2, OfficialEntry
  <2>5. \/ answer.transport = Explicit(q)
        \/ \E p \in Profiles : q[p.signal] = p.is /\ p.transport = answer.transport
        \/ c.source = "registry" /\ c.options.effort # {}
    BY <2>1, TransportSource
  <2>6. c.options.effort # {} => DOMAIN answer.variants \subseteq c.options.effort
    BY <2>1 DEF Compiled, CompileEffort, Nothing
  <2> HIDE DEF q, c
  <2>7. QED
    BY <2>2, <2>3, <2>4, <2>5, <2>6 DEF ControlsAreNotGuessed, q, c
<1>2. QED
  BY <1>1, AnswerHolds, PTL

=============================================================================
