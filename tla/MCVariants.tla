---------------------------- MODULE MCVariants ----------------------------
(* Evidence about one relay's model from every class of source, on a known *)
(* and on an unknown surface.  Questions about g7 of two namespaces, by    *)
(* its ids bare, prefixed, revised and tagged, against snapshots in which  *)
(* no host, one, several that agree and several that differ serve it.      *)
EXTENDS Variants

T == Tuple("relay", "chat", "m")
U == Tuple("relay", "unknown", "m")
By(class, authority, d) == [d EXCEPT !.class = class, !.authority = authority]

MCDrafts ==
  {By("native", None, [Draft("support", T, "partial", 1) EXCEPT !.received = 1]),
   By("native", None, [Draft("accepted", T, "partial", 2) EXCEPT !.values = {"low", "high"},
                                                                 !.negatives = {"max"}]),
   By("native", None, [Draft("accepted", T, "partial", 3) EXCEPT !.values = {"max"}, !.received = 1]),
   By("registry", None, [Draft("accepted", T, "exhaustive", 4)
                           EXCEPT !.values = {"low", "xhigh"}, !.curated = TRUE, !.revision = 1]),
   By("registry", "exact", [Draft("accepted", T, "exhaustive", 5)
                              EXCEPT !.values = {"low"}, !.curated = TRUE, !.revision = 1]),
   By("manual", None, [Draft("accepted", T, "partial", 6) EXCEPT !.values = {"medium"}]),
   By("manual", None, [Draft("accepted", T, "partial", 7) EXCEPT !.support = "unknown",
                                                                 !.values = {"minimal"}]),
   By("manual", None, [Draft("support", T, "partial", 8) EXCEPT !.support = "unsupported",
                                                                !.received = 2]),
   By("public", None, Draft("support", U, "partial", 9)),
   By("public", None, [Draft("effective", U, "exhaustive", 11) EXCEPT !.values = {"high"}]),
   By("public", None, [Draft("effective", T, "partial", 12) EXCEPT !.values = {"high"}]),
   By("public", None, [Draft("accepted", T, "partial", 13) EXCEPT !.values = {"high"}]),
   By("manual", None, [Draft("normalization", T, "exhaustive", 14)
                         EXCEPT !.norm = [v \in {"xhigh"} |-> "high"],
                                !.wire = [v \in {"high"} |-> "x"]])}

MCRouter ==
  {[selector |-> s, efforts |-> {"low", "max"}, default |-> d, dynamic |-> y,
    mandatory |-> None, maxTokens |-> FALSE] :
     s \in {"omitted", "any", "listed"}, d \in {None, "max"}, y \in BOOLEAN}

---------------------------------------------------------------------------
Id(path, rev, tag) == [path |-> path, rev |-> rev, tag |-> tag]
Bare == Id(<<"g7">>, FALSE, FALSE)
In(host) == Id(<<host, "g7">>, FALSE, FALSE)

Levels == Efforts({"low", "high"})
Fewer == Efforts({"high"})
Switch == [NoOptions EXCEPT !.toggle = TRUE]
Budget(min, max) == [NoOptions EXCEPT !.budget = [min |-> min, max |-> max]]
Both == [Budget(0, 24000) EXCEPT !.toggle = TRUE]

Host(name, id, options) == [host |-> name, id |-> id, reasoning |-> options # NoOptions, options |-> options]
Fact(id, options) == [id |-> id, reasoning |-> options # NoOptions, options |-> options]

MCSnapshots ==
  {[hosted |-> <<>>, models |-> {}],
   [hosted |-> <<Host("h1", In("a"), Levels), Host("h2", In("b"), Levels)>>, models |-> {}],
   [hosted |-> <<Host("h1", In("a"), Levels), Host("h2", In("b"), Fewer)>>, models |-> {}],
   [hosted |-> <<Host("h1", In("a"), Levels), Host("h2", In("a"), Fewer)>>, models |-> {}],
   [hosted |-> <<Host("h1", In("a"), NoOptions)>>, models |-> {Fact(In("b"), NoOptions)}]}
  \cup {[hosted |-> <<>>, models |-> {Fact(Bare, o)}] :
          o \in {Switch, Both, Budget(0, 24000), Budget(20000, 0), Budget(40000, 0)}}

Nowhere == [options |-> Absent, litellm |-> Absent, lmstudio |-> {}, grok |-> {}, generic |-> {}]
MCMetadata ==
  {Nowhere,
   [Nowhere EXCEPT !.options = [Both EXCEPT !.effort = {"low", ""}]],
   [Nowhere EXCEPT !.litellm = [tiers |-> {}, effortParam |-> TRUE]],
   [Nowhere EXCEPT !.generic = {"low"}]}

Curated(id, aliases, revision, controls, sourced) ==
  [id |-> id, aliases |-> aliases, revision |-> revision, reasoning |-> controls # NoOptions,
   controls |-> controls, default |-> Absent, sourced |-> sourced]
MCRegistries ==
  {<<>>,
   <<Curated(Bare, {In("b")}, FALSE, Fewer, TRUE)>>,
   <<Curated(Bare, {}, TRUE, Levels, TRUE), Curated(In("a"), {}, FALSE, NoOptions, TRUE)>>,
   <<Curated(Bare, {}, TRUE, Levels, FALSE)>>}

MCProviders ==
  {[transport |-> t, npm |-> n, baseURL |-> b, providerId |-> "relay"] :
     t \in {"", "google"},
     n \in {"@ai-sdk/openai-compatible", "@ai-sdk/anthropic"},
     b \in {"", "dashscope"}}

MCQuestions ==
  {[id |-> id, alias |-> alias, enabled |-> use # "off", policy |-> use, transport |-> p.transport,
    npm |-> p.npm, baseURL |-> p.baseURL, providerId |-> p.providerId, metadata |-> metadata,
    snapshot |-> snapshot, registry |-> registry, limit |-> limit] :
     id \in {Bare, In("b"), In("c"), Id(<<"g7">>, TRUE, FALSE), Id(<<"a", "g7">>, FALSE, TRUE)},
     alias \in {Absent, In("a")}, use \in {"official-model", "host", "off"},
     p \in MCProviders, metadata \in MCMetadata, snapshot \in MCSnapshots,
     registry \in MCRegistries, limit \in {0, 1, 2, 8000}}
=============================================================================
