--------------------------- MODULE Capabilities ---------------------------
(***************************************************************************)
(* Evidence is gathered for routes, bound in the catalogue                 *)
(* (src/src/capabilities/catalog.ts, indexes.ts) and compiled into a plan  *)
(* of variants (src/src/reasoning/variant-plan.ts).  Two official sources  *)
(* are modelled with their parsers, DeepSeek's contract                    *)
(* (deepseek-plan.ts) and OpenRouter's model objects                       *)
(* (openrouter-reasoning-parser.ts); the others are the drafts Drafts.     *)
(***************************************************************************)
EXTENDS Evidence, Sequences, SequencesExt

CONSTANTS Drafts,        \* drafts of evidence, each with the class that offers it
          RouterObjects, \* reasoning objects of OpenRouter's models
          Surfaces,      \* surfaces a plan is asked for
          MaxRecords     \* bound on the evidence gathered before a plan

(* A draft has every field, and its source and time tell it from the others*)
(* of its claim; 10 and 20 are the ids of the two official sources below.  *)
ASSUME DraftsAssumption ==
  /\ None \notin Authorities \cup {"supported"}
  /\ \A d \in Drafts : IsDraft(d) /\ d.class \in Classes /\ d.id \notin {10, 20}
  /\ \A d, e \in Drafts :
       d.tuple = e.tuple /\ d.claim = e.claim /\ d.id = e.id /\ d.received = e.received => d = e

VARIABLES gathered,      \* the records so far, in order
          catalog,       \* the records bound, one per tuple and claim
          plan           \* the last plan and what it was made from, or None

capVars == <<gathered, catalog, plan>>

Tuple(provider, surface, model) == [provider |-> provider, surface |-> surface, model |-> model]

Draft(claim, tuple, completeness, id) ==
  [claim |-> claim, tuple |-> tuple, support |-> "supported", completeness |-> completeness,
   values |-> None, negatives |-> None, norm |-> None, wire |-> None, scalar |-> None,
   budget |-> None, authority |-> None, class |-> None, curated |-> FALSE,
   revision |-> 0, received |-> 0, id |-> id]

---------------------------------------------------------------------------
(* DeepSeek: four records per exact model and surface.                     *)
DeepSeekModels == {"flash", "flash-0731"}
DeepSeekNormalization ==
  [v \in {"low", "medium", "high", "xhigh", "max"} |->
     IF v \in {"medium", "xhigh"} THEN "high" ELSE v]

DeepSeek(model, surface) ==
  LET of(claim) == Draft(claim, Tuple("deepseek-direct", surface, model), "exhaustive", 10) IN
  {of("support"),
   [of("accepted") EXCEPT !.values = DOMAIN DeepSeekNormalization],
   [of("normalization") EXCEPT !.norm = DeepSeekNormalization,
                               !.wire = [v \in {"low", "high", "max"} |-> v]],
   [of("toggle") EXCEPT !.values = {"off"}, !.scalar = surface]}

(* OpenRouter: what one reasoning object says of the gateway's surface.    *)
(* The selector is omitted, open ("any", a null) or lists efforts.         *)
(* A dynamic alias without declared efforts gives no accepted record.      *)
OpenRouter(model, object, received) ==
  LET of(claim, completeness) ==
        [Draft(claim, Tuple("openrouter-gateway", "chat", model), completeness, 20)
           EXCEPT !.received = received]
      guarded == object.selector # "listed" /\ object.dynamic
      accepted ==
        IF object.selector = "any" /\ ~guarded THEN <<of("accepted", "unknown")>>
        ELSE IF object.selector = "listed" /\ object.efforts # {}
        THEN <<[of("accepted", "exhaustive") EXCEPT !.values = object.efforts]>>
        ELSE <<>>
      default == IF object.default = None THEN <<>>
                 ELSE <<[of("default", "exhaustive") EXCEPT !.scalar = object.default]>>
      mandatory == IF object.mandatory = None THEN <<>>
                   ELSE <<[of("mandatory", "exhaustive") EXCEPT !.scalar = object.mandatory]>>
      transport == IF ~object.maxTokens THEN <<>>
                   ELSE <<[of("transport", "exhaustive") EXCEPT !.values = {"max_tokens"},
                                                                !.scalar = "yes"]>>
  IN accepted \o default \o mandatory \o transport

---------------------------------------------------------------------------
(* The catalogue.                                                          *)

(* CapabilityCatalog.add, for the records of one source, which are about   *)
(* different claims: the first record of a claim keeps its place.          *)
Add(bound, records) ==
  bound \cup {r \in records :
               Valid(r) /\ ~\E q \in bound : q.tuple = r.tuple /\ q.claim = r.claim}

(* satisfiesSurfaceGate                                                    *)
GateOpen(stored, requested) == stored # "unknown" => stored = requested
Gate(stored, requested) == stored # "unknown" /\ stored = requested

LookupExact(tuple, requested) ==
  IF requested # None /\ ~Gate(tuple.surface, requested) THEN {}
  ELSE {q \in catalog : q.tuple = tuple}

Take(records) ==
  /\ gathered' = gathered \o records
  /\ catalog' = Add(catalog, ToSet(records))
  /\ plan' = None

Observe ==
  /\ Len(gathered) < MaxRecords
  /\ \E d \in Drafts : LET r == Finish(d.class, d) IN r # None /\ Take(<<r>>)

ObserveDeepSeek ==
  /\ Len(gathered) < MaxRecords
  /\ \E m \in DeepSeekModels, s \in {"chat", "responses"} :
       \E d \in DeepSeek(m, s) : Take(<<Finish("native", d)>>)

ObserveOpenRouter ==
  /\ Len(gathered) < MaxRecords
  /\ \E m \in {"flash"}, o \in RouterObjects :
       LET drafts == OpenRouter(m, o, Len(gathered)) IN
       drafts # <<>> /\ Take([i \in 1..Len(drafts) |-> Finish("native", drafts[i])])

---------------------------------------------------------------------------
(* The plan.                                                               *)

(* topSourceId: of the known records with the newest revision, the last.   *)
TopSource(claim, records) ==
  LET known == {i \in 1..Len(records) : records[i] \in Known(claim, ToSet(records))}
      newest == {i \in known : \A j \in known : records[j].revision <= records[i].revision}
  IN IF known = {} THEN None ELSE records[CHOOSE i \in newest : \A j \in newest : j <= i].id

(* What an accepted input amounts to: its mapping, itself, or nothing.     *)
Mapped(v, norm) ==
  IF norm # None /\ v \in DOMAIN norm THEN norm[v] ELSE v

EffectiveValues(effective, accepted, norm) ==
  Effective \cap
    (IF effective.kind = "resolved" /\ effective.values # {} THEN effective.values
     ELSE IF accepted.kind = "resolved" THEN {Mapped(v, norm) : v \in accepted.values}
     ELSE {})

Resolved(r, field) == IF r.kind = "resolved" THEN r[field] ELSE None
Preferred(r, v) ==
  LET wire == Resolved(r, "wire") IN IF wire # None /\ v \in DOMAIN wire THEN wire[v] ELSE None

Empty == [kind |-> "empty", variants |-> {}, default |-> None, sources |-> None]

(* buildVariantPlan; records of several tuples make it throw, which leaves *)
(* its caller without a plan as well.                                      *)
BuildVariantPlan(eligible, requested, records) ==
  LET known == ToSet(records)
      resolve(claim) == ResolveClaim(claim, known)
      norm == Resolved(resolve("normalization"), "norm")
      wire(v) == IF Preferred(resolve("normalization"), v) # None
                 THEN Preferred(resolve("normalization"), v)
                 ELSE Preferred(resolve("transport"), v)
      values == EffectiveValues(resolve("effective"), resolve("accepted"), norm)
      scalar == Resolved(resolve("default"), "scalar")
  IN IF /\ eligible
        /\ \A q, r \in known : q.tuple = r.tuple
        /\ \A r \in known : Gate(r.tuple.surface, requested)
        /\ Resolved(resolve("support"), "support") = "supported"
        /\ \A c \in {"accepted", "effective", "normalization", "default"} :
             resolve(c).kind # "ambiguous"
        /\ values # {}
     THEN [kind |-> "planned",
           variants |-> {[effective |-> v, explicit |-> wire(v) # None,
                          wire |-> IF wire(v) # None THEN wire(v) ELSE v] : v \in values},
           default |-> IF scalar \in Effective THEN scalar ELSE None,
           sources |-> [c \in {"support", "accepted", "effective"} |-> TopSource(c, records)]]
     ELSE Empty

(* A plan from everything gathered, or from the catalogue's bucket of one  *)
(* tuple.                                                                  *)
Compile ==
  /\ plan = None
  /\ \E eligible \in BOOLEAN, requested \in Surfaces :
       \E records \in {gathered} \cup
                      {SetToSeq(LookupExact(q.tuple, requested)) : q \in catalog} :
         plan' = [from |-> ToSet(records), eligible |-> eligible, requested |-> requested,
                  made |-> BuildVariantPlan(eligible, requested, records)]
  /\ UNCHANGED <<gathered, catalog>>

CapInit == gathered = <<>> /\ catalog = {} /\ plan = None
CapNext == Observe \/ ObserveDeepSeek \/ ObserveOpenRouter \/ Compile

---------------------------------------------------------------------------
(* What may not make variants by the rule of sources/models-dev.ts ("can   *)
(* never auto-activate"), but does: public evidence about a surface.  And   *)
(* what lists values of a claim that it denies.                              *)
Unearned(r) ==
  /\ r.support # "unknown"
  /\ \/ r.class = "public" /\ r.claim \in {"support", "accepted", "effective", "normalization"}
     \/ r.support = "unsupported" /\ r.claim \in {"accepted", "effective", "normalization"}

(* An automatic variant is earned.  Of every plan: the route is callable    *)
(* and all evidence, public or not, is about one tuple on the surface asked *)
(* for, a known one.  Of a plan without unearned evidence, moreover:        *)
(* somebody says that the model reasons, each tier is a declared value or   *)
(* the declared meaning of one, and none of the records that were added up  *)
(* denies it.  A plan with public evidence on a known surface, or with      *)
(* values from a record that denies support, is not said to be earned.      *)
VariantsAreEarned ==
  plan # None /\ plan.made.kind = "planned" =>
    LET R(c) == Known(c, plan.from) IN
    /\ plan.eligible
    /\ Cardinality({r.tuple : r \in plan.from}) = 1
    /\ \A r \in plan.from : r.tuple.surface = plan.requested /\ r.tuple.surface # "unknown"
    /\ (\A r \in plan.from : ~Unearned(r)) =>
         /\ \E r \in R("support") : r.support = "supported"
         /\ \A v \in plan.made.variants :
              \E r \in R("effective") \cup R("accepted") : \E x \in Listed(r.values) :
                /\ \/ x = v.effective
                   \/ \E n \in R("normalization") :
                        n.norm # None /\ x \in DOMAIN n.norm /\ n.norm[x] = v.effective
                /\ LET fixed == {e \in R(r.claim) : e.completeness = "exhaustive"} IN
                   /\ fixed # {} => r = Top(fixed)
                   /\ \A q \in R(r.claim) :
                        fixed = {} \/ q = r \/ Before(q, r) => x \notin Listed(q.negatives)

(* What one record more does to the values of a claim.  One that knows      *)
(* nothing changes nothing; a partial one without denials keeps every value *)
(* (or leaves the claim ambiguous); one that ranks after the exhaustive     *)
(* record of another authority changes nothing.  An exhaustive record that  *)
(* ranks before the other exhaustive ones does take values away, silently:  *)
(* what is left is what it lists less what records before it deny, also of  *)
(* what a partial record before it listed.                                  *)
EvidenceAccumulates ==
  [][\A c \in ValueClaims : \A r \in ToSet(gathered') \ ToSet(gathered) :
       LET old == {q \in ToSet(gathered) : q.tuple = r.tuple}
           before == ResolveClaim(c, old)
           after == ResolveClaim(c, old \cup {r})
           fixed == {e \in Known(c, old) : e.completeness = "exhaustive"}
       IN r.claim = c =>
            /\ r.support = "unknown" => after = before
            /\ r.completeness # "exhaustive" /\ Listed(r.negatives) = {}
                 /\ before.kind = "resolved" /\ after.kind = "resolved"
                 => before.values \subseteq after.values
            /\ fixed # {} /\ before.kind = "resolved"
                 /\ r.authority # Top(fixed).authority /\ Before(Top(fixed), r)
                 => after = before
            /\ r.completeness = "exhaustive" /\ r.support # "unknown"
                 /\ (\A e \in fixed : Before(r, e)) /\ after.kind = "resolved"
                 => after.values =
                      Net(r) \ UNION {Listed(q.negatives) : q \in {p \in Known(c, old) : Before(p, r)}}
     ]_gathered
=============================================================================
