----------------------------- MODULE Reasoning -----------------------------
(***************************************************************************)
(* src/src/reasoning: from a discovered model and everything known of it   *)
(* to the variants written into its configuration.  A question holds all   *)
(* inputs; enriching is one call.                                          *)
(*                                                                         *)
(* An id is its path of segments, whether a revision (-v2, a date) ends it *)
(* and whether a tag (:free) follows; case is left out, as every lookup    *)
(* but the last ignores it.  Reasoning options are one record: the effort  *)
(* values, whether there is a toggle, and the budget (0 for an absent end).*)
(***************************************************************************)
EXTENDS Integers, FiniteSets, Sequences, FiniteSetsExt

CONSTANTS Absent,        \* what is not given
          Questions      \* the inputs tried

VARIABLES question, answer

reasonVars == <<question, answer>>

Efforts(values) == [effort |-> values, toggle |-> FALSE, budget |-> Absent]
NoOptions == Efforts({})

---------------------------------------------------------------------------
(* Identity.                                                               *)

StripTag(id) == [id EXCEPT !.tag = FALSE]
Base(id) == [id EXCEPT !.rev = FALSE]
Namespaced(id) == Len(id.path) > 1
Part(id) == IF Namespaced(id) THEN [id EXCEPT !.path = Tail(@)] ELSE id
LastSegment(id) == [id EXCEPT !.path = <<@[Len(@)]>>]

(* buildMapFromSnapshot: by id, the last host that serves it; facts about  *)
(* models as such fill the gaps.                                           *)
Served(s, id) == {i \in 1..Len(s.hosted) : s.hosted[i].id = id}
Ids(s) == {s.hosted[i].id : i \in 1..Len(s.hosted)} \cup {e.id : e \in s.models}
Entry(s, id) ==
  IF Served(s, id) # {} THEN s.hosted[Max(Served(s, id))]
  ELSE CHOOSE e \in s.models : e.id = id

(* The matches in the order of the index.                                  *)
FirstOf(s, ids) ==
  CHOOSE k \in ids : \A j \in ids : j = k \/ Served(s, j) = {}
                       \/ (Served(s, k) # {} /\ Min(Served(s, k)) < Min(Served(s, j)))

SamePart(s, id) == {k \in Ids(s) : Part(k) = id}

Unclear == [id |-> Absent, confidence |-> "none"]
Sure(id, confidence) == [id |-> id, confidence |-> confidence]

(* resolveCanonicalModel                                                   *)
ByAlias(s, target) ==
  IF target \in Ids(s) THEN Sure(target, "exact")
  ELSE IF LastSegment(target) \in Ids(s) THEN Sure(LastSegment(target), "exact")
  ELSE Sure(target, "high")

(* Candidates of other names: of one it is the one, of several it is none, *)
(* unless the controls of all are the same and there are any.              *)
Agreeing(s, ids) ==
  /\ Entry(s, FirstOf(s, ids)).options # NoOptions
  /\ \A j, k \in ids : Entry(s, j).options = Entry(s, k).options

AmongAny(s, ids) == Sure(FirstOf(s, ids), "medium")
Among(s, ids) ==
  IF Cardinality(ids) = 1 THEN Sure(CHOOSE k \in ids : TRUE, "high")
  ELSE IF Agreeing(s, ids) THEN Sure(FirstOf(s, ids), "medium") ELSE Unclear

Canonical(q) ==
  LET s == q.snapshot
      id == StripTag(q.id)
      combos == {k \in SamePart(s, Part(id)) : Namespaced(k)}
      bases == IF Base(id) \in Ids(s) THEN {Base(id)} ELSE SamePart(s, Base(id))
  IN IF q.alias # Absent THEN ByAlias(s, q.alias)
     ELSE IF id \in Ids(s) THEN Sure(id, "exact")
     ELSE IF Namespaced(id) /\ Part(id) \in Ids(s) THEN Sure(Part(id), "high")
     ELSE IF Namespaced(id) /\ combos # {}
     THEN IF Cardinality(combos) = 1 THEN Among(s, combos) ELSE Unclear
     ELSE IF SamePart(s, Part(id)) # {} THEN Among(s, SamePart(s, Part(id)))
     ELSE IF id.rev /\ Cardinality(bases) = 1 THEN Among(s, bases)
     ELSE Unclear

(* What the questions are about: ids are records, options have their three *)
(* parts, and the ends of a budget are numbers.                            *)
IsOptions(o) ==
  /\ o = [effort |-> o.effort, toggle |-> o.toggle, budget |-> o.budget]
  /\ o.budget # Absent => o.budget.min \in Int /\ o.budget.max \in Int

ASSUME QuestionsAssumption ==
  \A q \in Questions :
    /\ q.limit \in Int
    /\ Len(q.snapshot.hosted) \in Nat /\ IsFiniteSet(q.snapshot.models)
    /\ Absent \notin Ids(q.snapshot)
    /\ \A i \in 1..Len(q.snapshot.hosted) : IsOptions(q.snapshot.hosted[i].options)
    /\ \A e \in q.snapshot.models : IsOptions(e.options)
    /\ q.metadata.options # Absent => IsOptions(q.metadata.options)
    /\ \A i \in 1..Len(q.registry) : IsOptions(q.registry[i].controls)

---------------------------------------------------------------------------
(* Controls.                                                               *)

(* normalizeReasoningOptions: one malformed effort value ("") spoils the   *)
(* option; ends that are not positive are absent.                          *)
Positive(n) == IF n > 0 THEN n ELSE 0
Normalized(o) ==
  [effort |-> IF "" \in o.effort THEN {} ELSE o.effort,
   toggle |-> o.toggle,
   budget |-> IF o.budget = Absent \/ (o.budget.min <= 0 /\ o.budget.max <= 0) THEN Absent
              ELSE [min |-> Positive(o.budget.min), max |-> Positive(o.budget.max)]]

(* normalizeProviderNativeReasoningMetadata: the first shape recognised in *)
(* what the provider's model list says, Absent without one.                *)
Native(raw) ==
  IF raw.options # Absent THEN Normalized(raw.options)
  ELSE IF raw.litellm # Absent
  THEN Efforts(IF raw.litellm.tiers = {} /\ raw.litellm.effortParam THEN {"medium", "high"}
               ELSE raw.litellm.tiers)
  ELSE IF raw.lmstudio # {} THEN Efforts(raw.lmstudio)
  ELSE IF raw.grok # {} THEN Efforts(raw.grok)
  ELSE IF raw.generic # {} THEN Efforts(raw.generic)
  ELSE Absent

Capability(reasoning, options, source) ==
  [reasoning |-> reasoning, options |-> options, source |-> source]

(* resolveReasoningCapability, over the entry of the canonical id or, with *)
(* none, of the id as it came.                                             *)
FromModelsDev(q, canonical) ==
  LET key == IF canonical.id # Absent THEN canonical.id ELSE q.id IN
  IF key \in Ids(q.snapshot)
  THEN LET e == Entry(q.snapshot, key) IN
       Capability(e.reasoning, IF e.reasoning THEN e.options ELSE NoOptions, "models.dev")
  ELSE Capability(canonical.id # Absent, NoOptions, "none")

(* validateRegistry and loadRegistry: a registry with a fault is no        *)
(* registry.                                                               *)
ValidEntry(registry, i) ==
  LET e == registry[i] IN
  /\ \A j \in 1..i - 1 : registry[j].id # e.id /\ registry[j].aliases \cap e.aliases = {}
  /\ \A j \in 1..i : registry[j].id \notin e.aliases
  /\ e.reasoning <=> e.controls # NoOptions
  /\ e.sourced
  /\ e.controls.effort # {} => e.default \in e.controls.effort \cup {Absent}
  /\ LET b == e.controls.budget IN b # Absent /\ b.min > 0 /\ b.max > 0 => b.min <= b.max

LoadRegistry(registry) ==
  IF \A i \in 1..Len(registry) : ValidEntry(registry, i) THEN registry ELSE <<>>

(* resolveOfficialModelCapability: ids before aliases, a revision only of  *)
(* an entry that declares it.                                              *)
Entries(registry, id) ==
  LET named == {i \in 1..Len(registry) : registry[i].id = id}
      aliased == {i \in 1..Len(registry) : id \in registry[i].aliases}
  IN {registry[i] : i \in IF named # {} THEN named ELSE aliased}

Official(q) ==
  LET registry == LoadRegistry(q.registry)
      id == StripTag(q.id)
  IN IF q.alias # Absent /\ Entries(registry, q.alias) # {} THEN Entries(registry, q.alias)
     ELSE IF Entries(registry, id) # {} THEN Entries(registry, id)
     ELSE IF id.rev THEN {e \in Entries(registry, Base(id)) : e.revision}
     ELSE {}

(* resolveReasoningForModel, up to the transport.                          *)
Controls(q) ==
  LET native == Native(q.metadata)
      found == IF native # Absent THEN Capability(TRUE, native, "native")
               ELSE FromModelsDev(q, Canonical(q))
      unsure == ~found.reasoning \/ found.options = NoOptions
  IN IF q.policy = "official-model" /\ unsure /\ Official(q) # {}
     THEN LET e == CHOOSE x \in Official(q) : TRUE IN
          Capability(e.reasoning, e.controls, "registry")
     ELSE found

---------------------------------------------------------------------------
(* Transport.                                                              *)

(* KNOWN_PROVIDER_PROFILES, with the rank of their confidence.             *)
Profiles ==
  LET Sdk(npm, transport) == [signal |-> "npm", is |-> npm, transport |-> transport, rank |-> 4]
      Dash(signal, is) == [signal |-> signal, is |-> is, transport |-> "dashscope-chat", rank |-> 3]
  IN {Sdk("@openrouter/ai-sdk-provider", "openrouter"), Sdk("@ai-sdk/openai", "openai"),
      Sdk("@ai-sdk/alibaba", "alibaba-sdk"), Sdk("@ai-sdk/anthropic", "anthropic"),
      Sdk("@ai-sdk/google", "google"), Sdk("@ai-sdk/google-vertex", "google"),
      Dash("baseURL", "dashscope"), Dash("baseURL", "dashscope-intl"),
      Dash("providerId", "dashscope")}

(* matchKnownProviderProfile                                               *)
Profile(q) ==
  LET matches == {p \in Profiles : q[p.signal] = p.is}
      best == {p \in matches : \A o \in matches : o.rank <= p.rank}
  IN IF Cardinality({p.transport : p \in best}) = 1
     THEN (CHOOSE p \in best : TRUE).transport ELSE "unknown"

(* normalizeExplicitTransport                                              *)
Transports == {"openai-compatible-effort", "openai", "openrouter", "dashscope-chat",
               "anthropic", "google", "alibaba-sdk"}
Explicit(q) ==
  IF q.transport = "dashscope" THEN "dashscope-chat"
  ELSE IF q.transport \in Transports THEN q.transport ELSE "unknown"

(* resolveReasoningTransport                                               *)
Transport(q, capability) ==
  IF Explicit(q) # "unknown" THEN Explicit(q)
  ELSE IF Profile(q) # "unknown" THEN Profile(q)
  ELSE IF /\ q.npm = "@ai-sdk/openai-compatible"
          /\ capability.source = "registry" /\ capability.reasoning
          /\ capability.options.effort # {}
  THEN "openai-compatible-effort"
  ELSE "unknown"

---------------------------------------------------------------------------
(* Variants: a function from tiers to what they set.                       *)

SafetyMax == 32768
High == 16000

(* What the adapters can express.                                          *)
SendsEffort == Transports \ {"dashscope-chat", "alibaba-sdk"}
SendsToggle == {"dashscope-chat", "alibaba-sdk", "anthropic"}
SendsBudget == Transports \ {"openai-compatible-effort", "openai"}

Setting(effort, thinking, tokens) == [effort |-> effort, thinking |-> thinking, tokens |-> tokens]

CompileEffort(values) == [v \in values |-> Setting(v, Absent, Absent)]

(* compileBudget: an output limit of one token or less is no limit.        *)
Ceiling(budget) == IF budget.max > 0 THEN Min({budget.max, SafetyMax}) ELSE SafetyMax
Maximum(budget, limit) == IF limit > 1 THEN Min({Ceiling(budget), limit - 1}) ELSE Ceiling(budget)
HighBudgetUncapped(budget, limit) == Max({budget.min, High})
HighBudget(budget, limit) == Min({Max({budget.min, High}), Maximum(budget, limit)})

CompileBudget(budget, limit, transport) ==
  LET high == HighBudget(budget, limit)
      tokens(n) == Setting(Absent, IF transport \in SendsToggle THEN "on" ELSE Absent, n)
  IN [tier \in IF Maximum(budget, limit) = high THEN {"high"} ELSE {"high", "max"} |->
        tokens(IF tier = "high" THEN high ELSE Maximum(budget, limit))]

CompileToggle ==
  [tier \in {"none", "high"} |-> Setting(Absent, IF tier = "high" THEN "on" ELSE "off", Absent)]

(* compileReasoningVariants: efforts if there are any, whether or not the  *)
(* transport can send them; else the switch, the budget, or both in one.   *)
Nothing == [tier \in {} |-> Setting(Absent, Absent, Absent)]
Compiled(options, transport, limit) ==
  LET switch == IF options.toggle /\ transport \in SendsToggle THEN CompileToggle ELSE Nothing
      budget == IF options.budget # Absent /\ transport \in SendsBudget
                THEN CompileBudget(options.budget, limit, transport) ELSE Nothing
  IN IF options.effort # {}
     THEN IF transport \in SendsEffort THEN CompileEffort(options.effort) ELSE Nothing
     ELSE [tier \in DOMAIN switch \cup DOMAIN budget |->
             IF tier \in DOMAIN budget THEN budget[tier] ELSE switch[tier]]

(* applyReasoningEnrichment on a fresh model configuration.                *)
Enriched(q) ==
  LET capability == Controls(q)
      transport == Transport(q, capability)
      usable == /\ q.enabled
                /\ transport # "unknown" /\ capability.reasoning
                /\ capability.options # NoOptions
  IN [capability |-> capability, transport |-> transport,
      variants |-> IF usable THEN Compiled(capability.options, transport, q.limit) ELSE Nothing]

Enrich == answer = Absent /\ answer' = Enriched(question) /\ UNCHANGED question

ReasonInit == question \in Questions /\ answer = Absent

---------------------------------------------------------------------------
Automatic == answer # Absent /\ DOMAIN answer.variants # {}

(* Why the entry of an id may speak for the model asked about: the user    *)
(* says so, it is its very id, or with its namespace off, or without the   *)
(* revision, or no other entry of its name says otherwise.                 *)
SpeaksFor(q, k) ==
  \/ q.alias # Absent /\ (q.alias = k \/ LastSegment(q.alias) = k)
  \/ q.alias = Absent
     /\ \/ k \in {q.id, StripTag(q.id), Part(StripTag(q.id)), Base(StripTag(q.id))}
        \/ /\ Part(k) \in {Part(StripTag(q.id)), Base(StripTag(q.id))}
           /\ \A j \in SamePart(q.snapshot, Part(k)) :
                Entry(q.snapshot, j).options = Entry(q.snapshot, k).options

(* The ids that name the model asked about, in this namespace or another.  *)
Names(q, k) ==
  IF q.alias # Absent THEN k \in {q.alias, LastSegment(q.alias)}
  ELSE LET id == StripTag(q.id) IN
       k \in {q.id, id, Part(id), Base(id)} \/ Part(k) \in {Part(id), Base(id)}

(* The hosts that serve an id under it declare the same controls.          *)
Unanimous(s, k) ==
  \A i, j \in Served(s, k) : s.hosted[i].options = s.hosted[j].options

(* No control is guessed.  Whatever variants a model gets, its provider    *)
(* declared their controls; or an entry that may speak for it did, and so  *)
(* did every host that serves that entry's id; or a sound official entry   *)
(* of its own name under the policy that asks for it.  How they are sent   *)
(* is configured, known of the provider, or the generic way for official   *)
(* efforts.  Where hosts of one id that names the model differ, nothing is *)
(* said: there the code takes the last listed, against consensus.ts.       *)
ControlsAreNotGuessed ==
  Automatic =>
    LET q == question  c == answer.capability IN
    /\ c.source = "native" => c.options = Native(q.metadata)
    /\ c.source = "models.dev"
         /\ (\A k \in Ids(q.snapshot) : Names(q, k) => Unanimous(q.snapshot, k)) =>
         \E k \in Ids(q.snapshot) :
           /\ SpeaksFor(q, k)
           /\ Entry(q.snapshot, k).options = c.options
           /\ \A i \in Served(q.snapshot, k) : q.snapshot.hosted[i].options = c.options
    /\ c.source = "registry" =>
         /\ q.policy = "official-model"
         /\ \E i \in 1..Len(q.registry) :
              LET e == q.registry[i] IN
              /\ e.controls = c.options /\ e.sourced
              /\ \E x \in {q.alias, StripTag(q.id), Base(StripTag(q.id))} :
                   /\ x = e.id \/ x \in e.aliases
                   /\ x = q.alias \/ x = StripTag(q.id) \/ e.revision
    /\ \/ answer.transport = Explicit(q)
       \/ \E p \in Profiles : q[p.signal] = p.is /\ p.transport = answer.transport
       \/ c.source = "registry" /\ c.options.effort # {}
    /\ c.options.effort # {} => DOMAIN answer.variants \subseteq c.options.effort

(* No variant spends more tokens than the ceiling, than the model declares *)
(* or than its output leaves room for, none spends nothing, more effort is *)
(* more tokens, and less than the declared minimum only where a cap asks.  *)
BudgetsWithinCaps ==
  Automatic =>
    LET v == answer.variants
        budget == answer.capability.options.budget
        spending == {t \in DOMAIN v : v[t].tokens # Absent}
    IN /\ \A t \in spending :
            /\ v[t].tokens \in 1..SafetyMax
            /\ budget.max > 0 => v[t].tokens <= budget.max
            /\ question.limit > 1 => v[t].tokens < question.limit
            /\ \/ v[t].tokens >= budget.min
               \/ v[t].tokens \in {budget.max, SafetyMax, question.limit - 1}
       /\ {"high", "max"} \subseteq spending => v["high"].tokens < v["max"].tokens
=============================================================================
