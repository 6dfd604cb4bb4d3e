-------------------------- MODULE ConfigHookProofs --------------------------
(***************************************************************************)
(* Theorems about ConfigHook for any number of providers, models, config   *)
(* objects, endpoints, fingerprints and calls.                             *)
(*                                                                         *)
(* What a config object shows is assembled from a file, an answer and the  *)
(* config itself, over several steps.  The invariant therefore follows the *)
(* origin of every field through the places it passes: the files, the      *)
(* workers that hold an inventory, and the config objects.                 *)
(***************************************************************************)
EXTENDS ConfigHook, TLAPS

Layer == {Unset, "authored", "saved"}

(* The reasoning configurations that fingerprint fp does not tell apart.   *)
Told(fp) == {r \in Reasoning : FingerprintOf[r] = fp}

(* A map whose fields come from the user or from endpoint u and fingerprint fp. *)
From(u, fp, map) ==
  \A m \in Model : map[m] # None =>
    /\ map[m]["facts"] \in Layer \cup {u}
    /\ map[m]["variants"] \in Layer \cup Told(fp)

FromConfig(x, map) == From(settings[x].url, CurrentFingerprint(x), map)

(* A map whose models go by the ids they were discovered under.            *)
OwnIds(map) == \A m \in Model : map[m] # None => map[m]["id"] = "own"

(* A map in which the models of another go by the ids they were discovered under. *)
FoundIds(found, map) == \A m \in Model : found[m] # None => map[m]["id"] = "own"

SavedOnly(map) ==
  \A m \in Model : map[m] # None => \A f \in Field : map[m][f] \in {Unset, "saved"}

(* A map in which the models authored for provider p are what the user wrote. *)
Keeps(p, map) ==
  \A m \in Model : Authored[p][m] # None =>
    /\ map[m] # None
    /\ map[m]["id"] \in {Authored[p][m]["id"], "own"}
    /\ \A f \in Field \ {"id"} : Authored[p][m][f] # Unset => map[m][f] = Authored[p][m][f]

FilesInv ==
  \A p \in Provider : store[p] # None =>
    /\ From(store[p].url, store[p].fp, store[p].models)
    /\ OwnIds(store[p].models)
    /\ SavedOnly(store[p].overrides)

ConfigsInv ==
  \A x \in Config, p \in Provider :
    /\ FromConfig(x, models[x][p])
    /\ Keeps(p, models[x][p])
    /\ \A m \in Model : Authored[p][m] # None => m \notin injected[x][p]

(* What a worker of call c for provider p may hold. *)
Holds(c, p, w) ==
  /\ w.pc # "off" => hook[c] # "idle"
  /\ w.cached # None => SavedOnly(w.cached.overrides)
  /\ w.pc \in {"info", "save"} => FromConfig(conf[c], w.found) /\ OwnIds(w.found)
  /\ w.pc = "save" => /\ FromConfig(conf[c], w.existing)
                      /\ Keeps(p, w.existing)

CallsInv ==
  \A c \in Call :
    /\ hook[c] = "returned" => aborted[c] = TRUE
    /\ hook[c] # "idle" => conf[c] \in Config
    /\ \A p \in Provider : Holds(c, p, worker[c][p])

HookInv == ConfigHookTypeOK /\ FilesInv /\ ConfigsInv /\ CallsInv

-----------------------------------------------------------------------------
(* The layers                                                              *)

(* The empty map is a map of models. *)
LEMMA NoModelsType == NoModels \in ModelMap
BY DEF NoModels, ModelMap

(* A model's configuration is not the absent one. *)
LEMMA ConfigIsNotNone == \A k \in ModelConfig : k # None
BY ConfigHookAssumption

(* A file is not the absent one. *)
LEMMA FileIsNotNone == \A k \in File : k # None
BY ConfigHookAssumption

(* One configuration over another has its fields from the two. *)
LEMMA MergeFields ==
  ASSUME NEW k \in ModelConfig, NEW l \in ModelConfig
  PROVE  /\ Merge(k, l) \in ModelConfig
         /\ Merge(k, l) # None
         /\ Merge(k, l)["id"] = k["id"]
         /\ \A f \in Field \ {"id"} : /\ l[f] # Unset => Merge(k, l)[f] = l[f]
                                      /\ Merge(k, l)[f] \in {k[f], l[f]}
<1>1. Merge(k, l) \in ModelConfig
  BY DEF Merge, ModelConfig
<1>2. QED
  BY <1>1, ConfigIsNotNone DEF Merge, Field

(* Saved overrides laid over a map keep its origin. *)
LEMMA OverlayFrom ==
  ASSUME NEW u, NEW fp, NEW found \in ModelMap, NEW over \in ModelMap,
         From(u, fp, found), SavedOnly(over)
  PROVE  /\ Overlay(found, over) \in ModelMap
         /\ From(u, fp, Overlay(found, over))
         /\ OwnIds(found) => OwnIds(Overlay(found, over))
<1> DEFINE o == Overlay(found, over)
<1>1. ASSUME NEW m \in Model
      PROVE  /\ o[m] \in ModelConfig \cup {None}
             /\ o[m] # None => /\ o[m]["facts"] \in Layer \cup {u}
                               /\ o[m]["variants"] \in Layer \cup Told(fp)
                               /\ found[m] # None /\ o[m]["id"] = found[m]["id"]
  <2>1. CASE found[m] = None \/ over[m] = None
    <3>1. o[m] = found[m]
      BY <2>1 DEF Overlay
    <3>2. QED
      BY <3>1 DEF ModelMap, From
  <2>2. CASE found[m] # None /\ over[m] # None
    <3>1. found[m] \in ModelConfig /\ over[m] \in ModelConfig
      BY <2>2 DEF ModelMap
    <3>2. o[m] = Merge(found[m], over[m])
      BY <2>2 DEF Overlay
    <3>3. /\ \A f \in Field \ {"id"} : o[m][f] \in {found[m][f], over[m][f]}
          /\ o[m]["id"] = found[m]["id"]
      BY <3>1, <3>2, MergeFields
    <3>4. /\ found[m]["facts"] \in Layer \cup {u}
          /\ found[m]["variants"] \in Layer \cup Told(fp)
          /\ \A f \in Field : over[m][f] \in Layer
      BY <2>2 DEF From, SavedOnly, Layer
    <3>5. QED
      BY <2>2, <3>1, <3>2, <3>3, <3>4, MergeFields DEF Field
  <2>3. QED
    BY <2>1, <2>2
<1>2. o \in ModelMap
  BY <1>1 DEF ModelMap, Overlay
<1>3. QED
  BY <1>1, <1>2 DEF From, OwnIds

(* The explicit configuration laid over a map keeps its origin and the user's *)
(* own configuration.                                                          *)
LEMMA WithExplicitFrom ==
  ASSUME NEW u, NEW fp, NEW p \in Provider,
         NEW found \in ModelMap, NEW existing \in ModelMap,
         From(u, fp, found), OwnIds(found), From(u, fp, existing), Keeps(p, existing)
  PROVE  /\ WithExplicit(found, existing) \in ModelMap
         /\ From(u, fp, WithExplicit(found, existing))
         /\ Keeps(p, WithExplicit(found, existing))
         /\ FoundIds(found, WithExplicit(found, existing))
<1> DEFINE o == WithExplicit(found, existing)
<1>1. ASSUME NEW m \in Model
      PROVE  /\ o[m] \in ModelConfig \cup {None}
             /\ o[m] # None => /\ o[m]["facts"] \in Layer \cup {u}
                               /\ o[m]["variants"] \in Layer \cup Told(fp)
             /\ found[m] # None => o[m]["id"] = "own"
             /\ existing[m] # None =>
                  /\ o[m] # None
                  /\ o[m]["id"] \in {existing[m]["id"], "own"}
                  /\ \A f \in Field \ {"id"} : existing[m][f] # Unset => o[m][f] = existing[m][f]
  <2>1. CASE existing[m] = None
    <3>1. o[m] = found[m]
      BY <2>1 DEF WithExplicit
    <3>2. QED
      BY <2>1, <3>1 DEF ModelMap, From, OwnIds
  <2>2. CASE existing[m] # None /\ found[m] = None
    <3>1. o[m] = existing[m]
      BY <2>2 DEF WithExplicit
    <3>2. QED
      BY <2>2, <3>1 DEF ModelMap, From
  <2>3. CASE existing[m] # None /\ found[m] # None
    <3>1. found[m] \in ModelConfig /\ existing[m] \in ModelConfig
      BY <2>3 DEF ModelMap
    <3>2. o[m] = Merge(found[m], existing[m])
      BY <2>3 DEF WithExplicit
    <3>3. /\ \A f \in Field \ {"id"} : o[m][f] \in {found[m][f], existing[m][f]}
          /\ \A f \in Field \ {"id"} : existing[m][f] # Unset => o[m][f] = existing[m][f]
          /\ o[m]["id"] = found[m]["id"]
          /\ o[m] \in ModelConfig
          /\ o[m] # None
      BY <3>1, <3>2, MergeFields
    <3>4. /\ found[m]["facts"] \in Layer \cup {u}
          /\ found[m]["variants"] \in Layer \cup Told(fp)
          /\ found[m]["id"] = "own"
          /\ existing[m]["facts"] \in Layer \cup {u}
          /\ existing[m]["variants"] \in Layer \cup Told(fp)
      BY <2>3 DEF From, OwnIds
    <3>5. /\ o[m]["facts"] \in Layer \cup {u}
          /\ o[m]["variants"] \in Layer \cup Told(fp)
      BY <3>3, <3>4 DEF Field
    <3>6. QED
      BY <3>3, <3>4, <3>5
  <2>4. QED
    BY <2>1, <2>2, <2>3
<1>2. o \in ModelMap
  BY <1>1 DEF ModelMap, WithExplicit
<1>3. From(u, fp, o)
  BY <1>1 DEF From
<1>4. Keeps(p, o)
  <2> SUFFICES ASSUME NEW m \in Model, Authored[p][m] # None
               PROVE  /\ o[m] # None
                      /\ o[m]["id"] \in {Authored[p][m]["id"], "own"}
                      /\ \A f \in Field \ {"id"} :
                           Authored[p][m][f] # Unset => o[m][f] = Authored[p][m][f]
    BY DEF Keeps
  <2>1. /\ existing[m] # None
        /\ existing[m]["id"] \in {Authored[p][m]["id"], "own"}
        /\ \A f \in Field \ {"id"} :
             Authored[p][m][f] # Unset => existing[m][f] = Authored[p][m][f]
    BY DEF Keeps
  <2> HIDE DEF o
  <2>2. QED
    BY <1>1, <2>1
<1>5. FoundIds(found, o)
  BY <1>1 DEF FoundIds
<1>6. QED
  BY <1>2, <1>3, <1>4, <1>5

(* The explicit part of a config object. *)
LEMMA ExplicitFrom ==
  ASSUME ConfigHookTypeOK, ConfigsInv, NEW x \in Config, NEW p \in Provider
  PROVE  /\ Explicit(x, p) \in ModelMap
         /\ FromConfig(x, Explicit(x, p))
         /\ Keeps(p, Explicit(x, p))
<1>1. models[x][p] \in ModelMap /\ injected[x][p] \subseteq Model
  BY DEF ConfigHookTypeOK
<1>2. /\ FromConfig(x, models[x][p])
      /\ Keeps(p, models[x][p])
      /\ \A m \in Model : Authored[p][m] # None => m \notin injected[x][p]
  BY DEF ConfigsInv
<1>3. \A m \in Model : Explicit(x, p)[m] = IF m \in injected[x][p] THEN None ELSE models[x][p][m]
  BY DEF Explicit
<1>4. Explicit(x, p) \in ModelMap
  BY <1>1 DEF Explicit, ModelMap
<1>5. FromConfig(x, Explicit(x, p))
  BY <1>2, <1>3 DEF FromConfig, From
<1>6. Keeps(p, Explicit(x, p))
  BY <1>2, <1>3 DEF Keeps
<1>7. QED
  BY <1>4, <1>5, <1>6

(* What a provider answers to one who asks on behalf of config object x.   *)
LEMMA DiscoveredFrom ==
  ASSUME ConfigHookTypeOK, NEW x \in Config, NEW ids
  PROVE  /\ Discovered(x, ids) \in ModelMap
         /\ FromConfig(x, Discovered(x, ids))
         /\ OwnIds(Discovered(x, ids))
<1>1. settings[x].url \in Url /\ settings[x].reasoning \in Reasoning
  BY DEF ConfigHookTypeOK
<1> DEFINE k == Built(x)
<1>2. k \in ModelConfig
  BY <1>1 DEF Built, ModelConfig, Value, Field
<1>3. /\ k["id"] = "own" /\ k["facts"] = settings[x].url
      /\ k["variants"] \in Told(CurrentFingerprint(x))
  BY <1>1 DEF Built, Field, Told, CurrentFingerprint
<1>4. \A m \in Model : Discovered(x, ids)[m] = IF m \in ids THEN k ELSE None
  BY DEF Discovered
<1> HIDE DEF k
<1>5. Discovered(x, ids) \in ModelMap
  BY <1>2, <1>4 DEF ModelMap, Discovered
<1>6. QED
  BY <1>3, <1>4, <1>5 DEF FromConfig, From, OwnIds

(* A cached inventory of the same endpoint, less the variants of another    *)
(* fingerprint.                                                             *)
LEMMA CurrentVariantsFrom ==
  ASSUME ConfigHookTypeOK, NEW x \in Config, NEW file \in File,
         file.url = settings[x].url, From(file.url, file.fp, file.models), OwnIds(file.models)
  PROVE  /\ CurrentVariants(x, file) \in ModelMap
         /\ FromConfig(x, CurrentVariants(x, file))
         /\ OwnIds(CurrentVariants(x, file))
<1>1. file.models \in ModelMap
  BY DEF File
<1>2. CASE file.fp = CurrentFingerprint(x)
  BY <1>1, <1>2 DEF CurrentVariants, FromConfig
<1>3. CASE file.fp # CurrentFingerprint(x)
  <2> DEFINE o == CurrentVariants(x, file)
  <2>1. ASSUME NEW m \in Model
        PROVE  /\ o[m] \in ModelConfig \cup {None}
               /\ o[m] # None => /\ o[m]["facts"] \in Layer \cup {file.url}
                                 /\ o[m]["variants"] \in Layer
                                 /\ o[m]["id"] = "own"
    <3>1. CASE file.models[m] = None
      BY <1>3, <3>1 DEF CurrentVariants
    <3>2. CASE file.models[m] # None
      <4>1. o[m] = [file.models[m] EXCEPT !["variants"] = Unset]
        BY <1>3, <3>2 DEF CurrentVariants
      <4>2. file.models[m] \in [Field -> Value]
        BY <1>1, <3>2 DEF ModelMap, ModelConfig
      <4>3. Unset \in Value /\ Unset \in Layer
        BY DEF Value, Layer
      <4>4. /\ o[m] \in [Field -> Value]
            /\ o[m]["variants"] = Unset
            /\ o[m]["facts"] = file.models[m]["facts"]
            /\ o[m]["id"] = file.models[m]["id"]
        BY <4>1, <4>2, <4>3 DEF Field
      <4>5. QED
        BY <3>2, <4>3, <4>4 DEF From, ModelConfig, OwnIds
    <3>3. QED
      BY <3>1, <3>2
  <2>2. o \in ModelMap
    BY <1>3, <2>1 DEF ModelMap, CurrentVariants
  <2>3. QED
    BY <2>1, <2>2 DEF FromConfig, From, OwnIds
<1>4. QED
  BY <1>2, <1>3

(* The empty map comes from anywhere and overrides nothing. *)
LEMMA NoModelsFrom ==
  /\ SavedOnly(NoModels)
  /\ OwnIds(NoModels)
  /\ \A u, fp : From(u, fp, NoModels)
BY DEF SavedOnly, OwnIds, From, NoModels

-----------------------------------------------------------------------------
(* What the steps are made of                                              *)

(* A worker that has not begun is a worker. *)
LEMMA OffType == Off \in Worker
BY NoModelsType DEF Off, Worker

(* A worker goes on with what it may hold. *)
LEMMA GotoInv ==
  ASSUME ConfigHookTypeOK, CallsInv, NEW c \in Call, NEW p \in Provider, NEW w \in Worker,
         Goto(c, p, w), Holds(c, p, w), UNCHANGED <<hook, conf, aborted, settings>>
  PROVE  /\ worker' \in [Call -> [Provider -> Worker]]
         /\ CallsInv'
<1>1. worker \in [Call -> [Provider -> Worker]]
  BY DEF ConfigHookTypeOK
<1>2. worker' = [worker EXCEPT ![c][p] = w]
  BY DEF Goto
<1>3. worker' \in [Call -> [Provider -> Worker]]
  BY <1>1, <1>2
<1>4. \A d \in Call, q \in Provider : worker'[d][q] = worker[d][q] \/ (d = c /\ q = p /\ worker'[d][q] = w)
  BY <1>1, <1>2
<1>5. ASSUME NEW d \in Call, NEW q \in Provider
      PROVE  Holds(d, q, worker'[d][q])
  <2>1. Holds(d, q, worker[d][q])
    BY DEF CallsInv
  <2>2. QED
    BY <1>4, <2>1
<1>6. \A d, q, v : Holds(d, q, v) => Holds(d, q, v)'
  BY DEF Holds, FromConfig, CurrentFingerprint, From, OwnIds, Keeps, SavedOnly
<1>7. CallsInv'
  BY <1>5, <1>6 DEF CallsInv
<1>8. QED
  BY <1>3, <1>7

(* A settled worker holds nothing of consequence. *)
LEMMA SettleInv ==
  ASSUME ConfigHookTypeOK, CallsInv, NEW c \in Call, NEW p \in Provider,
         NEW kind \in Outcome, NEW found \in ModelMap, hook[c] # "idle",
         Settle(c, p, kind, found), UNCHANGED <<hook, conf, aborted, settings>>
  PROVE  /\ worker' \in [Call -> [Provider -> Worker]]
         /\ CallsInv'
<1> DEFINE w == [pc |-> kind, cached |-> None, found |-> found, existing |-> NoModels]
<1>1. w \in Worker
  BY NoModelsType DEF Worker
<1>2. Holds(c, p, w)
  BY DEF Holds, Outcome
<1>3. Goto(c, p, w)
  BY DEF Settle
<1>4. QED
  BY <1>1, <1>2, <1>3, GotoInv

(* One provider's models replaced in one config object. *)
LEMMA SetModels ==
  ASSUME ConfigHookTypeOK, ConfigsInv, NEW x \in Config, NEW p \in Provider,
         NEW map \in ModelMap, FromConfig(x, map), Keeps(p, map),
         NEW own \in SUBSET Model, \A m \in own : Authored[p][m] = None,
         models' = [models EXCEPT ![x][p] = map],
         injected' = [injected EXCEPT ![x][p] = own],
         UNCHANGED settings
  PROVE  /\ models' \in [Config -> [Provider -> ModelMap]]
         /\ injected' \in [Config -> [Provider -> SUBSET Model]]
         /\ ConfigsInv'
<1>1. /\ models \in [Config -> [Provider -> ModelMap]]
      /\ injected \in [Config -> [Provider -> SUBSET Model]]
  BY DEF ConfigHookTypeOK
<1>2. /\ models' \in [Config -> [Provider -> ModelMap]]
      /\ injected' \in [Config -> [Provider -> SUBSET Model]]
  BY <1>1
<1>3. \A y \in Config, q \in Provider :
         \/ models'[y][q] = models[y][q] /\ injected'[y][q] = injected[y][q]
         \/ y = x /\ q = p /\ models'[y][q] = map /\ injected'[y][q] = own
  BY <1>1
<1>4. ASSUME NEW y \in Config, NEW q \in Provider
      PROVE  /\ FromConfig(y, models'[y][q])
             /\ Keeps(q, models'[y][q])
             /\ \A m \in Model : Authored[q][m] # None => m \notin injected'[y][q]
  <2>1. /\ FromConfig(y, models[y][q])
        /\ Keeps(q, models[y][q])
        /\ \A m \in Model : Authored[q][m] # None => m \notin injected[y][q]
    BY DEF ConfigsInv
  <2>2. QED
    BY <1>3, <2>1
<1>5. \A y, k : FromConfig(y, k) => FromConfig(y, k)'
  BY DEF FromConfig, CurrentFingerprint, From
<1>6. \A q, k : Keeps(q, k) => Keeps(q, k)'
  BY DEF Keeps
<1>7. ConfigsInv'
  BY <1>4, <1>5, <1>6 DEF ConfigsInv
<1>8. QED
  BY <1>2, <1>7

(* Publication, or its refusal. *)
LEMMA PublishInv ==
  ASSUME HookInv, NEW c \in Call, NEW p \in Provider, hook[c] # "idle",
         NEW found \in ModelMap, FromConfig(conf[c], found), OwnIds(found),
         NEW overrides \in ModelMap, SavedOnly(overrides),
         NEW existing \in ModelMap, FromConfig(conf[c], existing), Keeps(p, existing),
         Publish(c, p, found, overrides, existing),
         UNCHANGED <<hook, conf, aborted, settings>>
  PROVE  /\ store' \in [Provider -> File \cup {None}] => ConfigHookTypeOK'
         /\ ConfigsInv'
         /\ CallsInv'
<1>1. ConfigHookTypeOK /\ ConfigsInv /\ CallsInv
  BY DEF HookInv
<1>2. conf[c] \in Config
  BY <1>1 DEF CallsInv
<1> DEFINE own == Overlay(found, overrides)
           map == WithExplicit(own, existing)
           ids == {m \in Model : own[m] # None /\ existing[m] = None}
<1>3. /\ own \in ModelMap
      /\ FromConfig(conf[c], own)
      /\ OwnIds(own)
  BY OverlayFrom DEF FromConfig
<1>4. /\ map \in ModelMap
      /\ FromConfig(conf[c], map)
      /\ Keeps(p, map)
  BY <1>3, WithExplicitFrom DEF FromConfig
<1>5. ids \in SUBSET Model /\ \A m \in ids : Authored[p][m] = None
  BY DEF Keeps
<1>6. CASE MayPublish(c)
  <2>1. /\ Settle(c, p, "publish", found)
        /\ models' = [models EXCEPT ![conf[c]][p] = map]
        /\ injected' = [injected EXCEPT ![conf[c]][p] = ids]
    BY <1>6 DEF Publish
  <2>2. "publish" \in Outcome
    BY DEF Outcome
  <2>3. worker' \in [Call -> [Provider -> Worker]] /\ CallsInv'
    BY <1>1, <2>1, <2>2, SettleInv
  <2> HIDE DEF map, ids, own
  <2>4. /\ models' \in [Config -> [Provider -> ModelMap]]
        /\ injected' \in [Config -> [Provider -> SUBSET Model]]
        /\ ConfigsInv'
    BY <1>1, <1>2, <1>4, <1>5, <2>1, SetModels
  <2>5. QED
    BY <1>1, <2>3, <2>4 DEF ConfigHookTypeOK
<1>7. CASE ~MayPublish(c)
  <2>1. Settle(c, p, "aborted", NoModels) /\ UNCHANGED <<models, injected>>
    BY <1>7 DEF Publish
  <2>2. "aborted" \in Outcome
    BY DEF Outcome
  <2>3. worker' \in [Call -> [Provider -> Worker]] /\ CallsInv'
    BY <1>1, <2>1, <2>2, SettleInv, NoModelsType
  <2>4. ConfigsInv'
    BY <1>1, <2>1 DEF ConfigsInv, FromConfig, CurrentFingerprint, From, Keeps
  <2>5. QED
    BY <1>1, <2>1, <2>3, <2>4 DEF ConfigHookTypeOK
<1>8. QED
  BY <1>6, <1>7

(* The end of the loop over the models. *)
LEMMA AssembleInv ==
  ASSUME HookInv, NEW c \in Call, NEW p \in Provider, worker[c][p].pc \in {"models", "info"},
         NEW found \in ModelMap, FromConfig(conf[c], found), OwnIds(found),
         Assemble(c, p, worker[c][p], found),
         UNCHANGED <<hook, conf, aborted, store, settings>>
  PROVE  ConfigHookTypeOK' /\ ConfigsInv' /\ CallsInv'
<1> DEFINE w == worker[c][p]
           v == [w EXCEPT !.pc = "save", !.found = found, !.existing = Explicit(conf[c], p)]
<1>1. ConfigHookTypeOK /\ ConfigsInv /\ CallsInv /\ w \in Worker
  BY DEF HookInv, ConfigHookTypeOK
<1>2. Holds(c, p, w) /\ hook[c] # "idle" /\ conf[c] \in Config
  BY <1>1 DEF CallsInv, Holds
<1>3. /\ Explicit(conf[c], p) \in ModelMap
      /\ FromConfig(conf[c], Explicit(conf[c], p))
      /\ Keeps(p, Explicit(conf[c], p))
  BY <1>1, <1>2, ExplicitFrom
<1>4. store' \in [Provider -> File \cup {None}]
  BY <1>1 DEF ConfigHookTypeOK
<1>5. CASE p \in Cached
  <2>1. Goto(c, p, v) /\ UNCHANGED <<models, injected>>
    BY <1>5 DEF Assemble
  <2>2. v \in Worker
    BY <1>1, <1>3 DEF Worker
  <2>3. Holds(c, p, v)
    BY <1>1, <1>2, <1>3 DEF Holds, Worker
  <2> HIDE DEF v
  <2>4. worker' \in [Call -> [Provider -> Worker]] /\ CallsInv'
    BY <1>1, <2>1, <2>2, <2>3, GotoInv
  <2>5. ConfigsInv'
    BY <1>1, <2>1 DEF ConfigsInv, FromConfig, CurrentFingerprint, From, Keeps
  <2>6. QED
    BY <1>1, <2>1, <2>4, <2>5 DEF ConfigHookTypeOK
<1>6. CASE p \notin Cached
  <2>1. Publish(c, p, found, NoModels, Explicit(conf[c], p))
    BY <1>6 DEF Assemble
  <2>2. QED
    BY <1>2, <1>3, <1>4, <2>1, PublishInv, NoModelsType, NoModelsFrom
<1>7. QED
  BY <1>5, <1>6

-----------------------------------------------------------------------------
(* The invariant                                                           *)

(* Initially there is no file, no worker runs and every config object holds *)
(* what the user wrote.                                                      *)
LEMMA HookInvInit == ConfigHookInit => HookInv
<1> SUFFICES ASSUME ConfigHookInit
             PROVE  HookInv
  OBVIOUS
<1> USE DEF ConfigHookInit
<1>1. /\ hook \in [Call -> {"idle", "running", "returned"}]
      /\ conf \in [Call -> Config \cup {None}]
      /\ aborted \in [Call -> BOOLEAN]
      /\ store \in [Provider -> File \cup {None}]
      /\ injected \in [Config -> [Provider -> SUBSET Model]]
  OBVIOUS
<1>2. worker \in [Call -> [Provider -> Worker]]
  BY OffType
<1>3. models \in [Config -> [Provider -> ModelMap]]
  BY ConfigHookAssumption
<1>4. settings \in [Config -> [url : Url, reasoning : Reasoning]]
  BY ConfigHookAssumption
<1>5. FilesInv
  BY DEF FilesInv
<1>6. ASSUME NEW x \in Config, NEW p \in Provider
      PROVE  /\ FromConfig(x, models[x][p])
             /\ Keeps(p, models[x][p])
             /\ \A m \in Model : Authored[p][m] # None => m \notin injected[x][p]
  <2>1. models[x][p] = Authored[p] /\ injected[x][p] = {}
    OBVIOUS
  <2>2. FromConfig(x, Authored[p])
    BY AuthoredAssumption DEF FromConfig, From, Layer, Field
  <2>3. Keeps(p, Authored[p])
    BY DEF Keeps
  <2>4. QED
    BY <2>1, <2>2, <2>3
<1>7. ConfigsInv
  BY <1>6 DEF ConfigsInv
<1>8. CallsInv
  BY DEF CallsInv, Holds, Off
<1>9. QED
  BY <1>1, <1>2, <1>3, <1>4, <1>5, <1>7, <1>8 DEF HookInv, ConfigHookTypeOK

(* The steps of a worker. *)
LEMMA WorkerStepInv ==
  ASSUME HookInv, NEW c \in Call, NEW p \in Provider, WorkerStep(c, p)
  PROVE  HookInv'
<1> DEFINE w == worker[c][p]
<1>1. /\ ConfigHookTypeOK /\ FilesInv /\ ConfigsInv /\ CallsInv
      /\ w \in Worker
      /\ store \in [Provider -> File \cup {None}]
  BY DEF HookInv, ConfigHookTypeOK
<1>2. Holds(c, p, w)
  BY <1>1 DEF CallsInv
<1>3. w.pc # "off"
  BY DEF WorkerStep, ReadStore, Authorize, ModelsAnswer, ModelsFail, InfoReturns, WorkerThrows,
         SaveReturns
<1>4. hook[c] # "idle" /\ conf[c] \in Config
  BY <1>1, <1>2, <1>3 DEF CallsInv, Holds
<1>5. /\ Explicit(conf[c], p) \in ModelMap
      /\ FromConfig(conf[c], Explicit(conf[c], p))
      /\ Keeps(p, Explicit(conf[c], p))
  BY <1>1, <1>4, ExplicitFrom
<1>6. ASSUME UNCHANGED store
      PROVE  FilesInv' /\ store' \in [Provider -> File \cup {None}]
  BY <1>1, <1>6 DEF FilesInv, From, OwnIds, SavedOnly
<1>7. ASSUME UNCHANGED <<models, injected, settings>>
      PROVE  ConfigsInv'
  BY <1>1, <1>7 DEF ConfigsInv, FromConfig, CurrentFingerprint, From, Keeps
<1>8. {"aborted", "skip", "clear"} \subseteq Outcome
  BY DEF Outcome
<1>9. CASE ReadStore(c, p)
  <2> DEFINE file == Persisted(conf[c], p)
             v == [w EXCEPT !.pc = "auth", !.cached = file]
  <2>1. file # None => /\ file = store[p]
                       /\ file \in File
                       /\ file.url = settings[conf[c]].url
    BY <1>1 DEF Persisted, SameIdentity
  <2>2. file # None => /\ From(file.url, file.fp, file.models)
                       /\ OwnIds(file.models)
                       /\ SavedOnly(file.overrides)
    BY <1>1, <2>1 DEF FilesInv
  <2>3. UNCHANGED <<hook, conf, aborted, store, settings>>
    BY <1>9 DEF ReadStore
  <2>4. CASE file # None /\ file.fresh
    <3>1. Publish(c, p, CurrentVariants(conf[c], file), file.overrides, Explicit(conf[c], p))
      BY <1>9, <2>4 DEF ReadStore
    <3>2. file.overrides \in ModelMap
      BY <2>1, <2>4 DEF File
    <3>3. /\ CurrentVariants(conf[c], file) \in ModelMap
          /\ FromConfig(conf[c], CurrentVariants(conf[c], file))
          /\ OwnIds(CurrentVariants(conf[c], file))
      BY <1>1, <1>4, <2>1, <2>2, <2>4, CurrentVariantsFrom
    <3> HIDE DEF file
    <3>4. ConfigHookTypeOK' /\ ConfigsInv' /\ CallsInv'
      BY <1>4, <1>5, <1>6, <2>2, <2>3, <2>4, <3>1, <3>2, <3>3, PublishInv
    <3>5. QED
      BY <1>6, <2>3, <3>4 DEF HookInv
  <2>5. CASE ~(file # None /\ file.fresh)
    <3>1. Goto(c, p, v) /\ UNCHANGED <<models, injected>>
      BY <1>9, <2>5 DEF ReadStore
    <3>2. v \in Worker
      BY <1>1, <2>1 DEF Worker
    <3>3. Holds(c, p, v)
      BY <1>1, <1>4, <2>2 DEF Holds, Worker
    <3> HIDE DEF v, file
    <3>4. worker' \in [Call -> [Provider -> Worker]] /\ CallsInv'
      BY <1>1, <2>3, <3>1, <3>2, <3>3, GotoInv
    <3>5. QED
      BY <1>1, <1>6, <1>7, <2>3, <3>1, <3>4 DEF HookInv, ConfigHookTypeOK
  <2>6. QED
    BY <2>4, <2>5
<1>10. CASE Authorize(c, p)
  <2> DEFINE v == [w EXCEPT !.pc = "models"]
  <2>1. UNCHANGED <<hook, conf, aborted, models, injected, store, settings>>
    BY <1>10 DEF Authorize
  <2>2. CASE aborted[c]
    <3>1. Settle(c, p, "aborted", NoModels)
      BY <1>10, <2>2 DEF Authorize
    <3>2. worker' \in [Call -> [Provider -> Worker]] /\ CallsInv'
      BY <1>1, <1>4, <1>8, <2>1, <3>1, SettleInv, NoModelsType
    <3>3. QED
      BY <1>1, <1>6, <1>7, <2>1, <3>2 DEF HookInv, ConfigHookTypeOK
  <2>3. CASE ~aborted[c]
    <3>1. Goto(c, p, v)
      BY <1>10, <2>3 DEF Authorize
    <3>2. v \in Worker
      BY <1>1 DEF Worker
    <3>3. Holds(c, p, v)
      BY <1>1, <1>2, <1>4 DEF Holds, Worker
    <3> HIDE DEF v
    <3>4. worker' \in [Call -> [Provider -> Worker]] /\ CallsInv'
      BY <1>1, <2>1, <3>1, <3>2, <3>3, GotoInv
    <3>5. QED
      BY <1>1, <1>6, <1>7, <2>1, <3>4 DEF HookInv, ConfigHookTypeOK
  <2>4. QED
    BY <2>2, <2>3
<1>11. ASSUME NEW ids \in Answers[p], ModelsAnswer(c, p, ids)
       PROVE  HookInv'
  <2> DEFINE found == Discovered(conf[c], ids)
             v == [w EXCEPT !.pc = "info", !.found = found]
  <2>1. w.pc = "models" /\ UNCHANGED <<hook, conf, aborted, store, settings>>
    BY <1>11 DEF ModelsAnswer
  <2>2. found \in ModelMap /\ FromConfig(conf[c], found) /\ OwnIds(found)
    BY <1>1, <1>4, DiscoveredFrom
  <2>3. CASE p \in WithInfo
    <3>1. Goto(c, p, v) /\ UNCHANGED <<models, injected>>
      BY <1>11, <2>3 DEF ModelsAnswer
    <3> HIDE DEF found
    <3>2. v \in Worker
      BY <1>1, <2>2 DEF Worker
    <3>3. Holds(c, p, v)
      BY <1>1, <1>2, <1>4, <2>2 DEF Holds, Worker
    <3> HIDE DEF v
    <3>4. worker' \in [Call -> [Provider -> Worker]] /\ CallsInv'
      BY <1>1, <2>1, <3>1, <3>2, <3>3, GotoInv
    <3>5. QED
      BY <1>1, <1>6, <1>7, <2>1, <3>1, <3>4 DEF HookInv, ConfigHookTypeOK
  <2>4. CASE p \notin WithInfo
    <3>1. Assemble(c, p, w, found)
      BY <1>11, <2>4 DEF ModelsAnswer
    <3> HIDE DEF found
    <3>2. ConfigHookTypeOK' /\ ConfigsInv' /\ CallsInv'
      BY <2>1, <2>2, <3>1, AssembleInv
    <3>3. QED
      BY <1>6, <2>1, <3>2 DEF HookInv
  <2>5. QED
    BY <2>3, <2>4
<1>12. CASE ModelsFail(c, p)
  <2>1. UNCHANGED <<hook, conf, aborted, store, settings>>
    BY <1>12 DEF ModelsFail
  <2>2. CASE p \in Cached /\ ~aborted[c]
    <3>1. /\ Settle(c, p, "clear", NoModels)
          /\ models' = [models EXCEPT ![conf[c]][p] = Explicit(conf[c], p)]
          /\ injected' = [injected EXCEPT ![conf[c]][p] = {}]
      BY <1>12, <2>2 DEF ModelsFail, Clear
    <3>2. worker' \in [Call -> [Provider -> Worker]] /\ CallsInv'
      BY <1>1, <1>4, <1>8, <2>1, <3>1, SettleInv, NoModelsType
    <3>3. {} \in SUBSET Model /\ \A m \in {} : Authored[p][m] = None
      OBVIOUS
    <3>4. /\ models' \in [Config -> [Provider -> ModelMap]]
          /\ injected' \in [Config -> [Provider -> SUBSET Model]]
          /\ ConfigsInv'
      BY <1>1, <1>4, <1>5, <2>1, <3>1, <3>3, SetModels
    <3>5. QED
      BY <1>1, <1>6, <2>1, <3>2, <3>4 DEF HookInv, ConfigHookTypeOK
  <2>3. CASE ~(p \in Cached /\ ~aborted[c])
    <3> DEFINE kind == IF aborted[c] THEN "aborted" ELSE "skip"
    <3>1. Settle(c, p, kind, NoModels) /\ UNCHANGED <<models, injected>>
      BY <1>12, <2>3 DEF ModelsFail
    <3>2. kind \in Outcome
      BY <1>8
    <3> HIDE DEF kind
    <3>3. worker' \in [Call -> [Provider -> Worker]] /\ CallsInv'
      BY <1>1, <1>4, <2>1, <3>1, <3>2, SettleInv, NoModelsType
    <3>4. QED
      BY <1>1, <1>6, <1>7, <2>1, <3>1, <3>3 DEF HookInv, ConfigHookTypeOK
  <2>4. QED
    BY <2>2, <2>3
<1>13. CASE InfoReturns(c, p)
  <2>1. w.pc = "info" /\ UNCHANGED <<hook, conf, aborted, store, settings>>
    BY <1>13 DEF InfoReturns
  <2>2. PICK chat : Assemble(c, p, w, [m \in Model |-> IF m \in chat THEN w.found[m] ELSE None])
    BY <1>13 DEF InfoReturns
  <2> DEFINE found == [m \in Model |-> IF m \in chat THEN w.found[m] ELSE None]
  <2>3. w.found \in ModelMap /\ FromConfig(conf[c], w.found) /\ OwnIds(w.found)
    BY <1>1, <1>2, <2>1 DEF Worker, Holds
  <2>4. found \in ModelMap
    BY <2>3 DEF ModelMap
  <2>5. FromConfig(conf[c], found) /\ OwnIds(found)
    BY <2>3 DEF FromConfig, From, OwnIds
  <2> HIDE DEF found
  <2>6. ConfigHookTypeOK' /\ ConfigsInv' /\ CallsInv'
    BY <2>1, <2>2, <2>4, <2>5, AssembleInv DEF found
  <2>7. QED
    BY <1>6, <2>1, <2>6 DEF HookInv
<1>14. CASE WorkerThrows(c, p)
  <2> DEFINE kind == IF aborted[c] THEN "aborted" ELSE "skip"
  <2>1. /\ Settle(c, p, kind, NoModels)
        /\ UNCHANGED <<hook, conf, aborted, models, injected, store, settings>>
    BY <1>14 DEF WorkerThrows
  <2>2. kind \in Outcome
    BY <1>8
  <2> HIDE DEF kind
  <2>3. worker' \in [Call -> [Provider -> Worker]] /\ CallsInv'
    BY <1>1, <1>4, <2>1, <2>2, SettleInv, NoModelsType
  <2>4. QED
    BY <1>1, <1>6, <1>7, <2>1, <2>3 DEF HookInv, ConfigHookTypeOK
<1>15. CASE SaveReturns(c, p)
  <2> DEFINE file == NewFile(conf[c], w)
  <2>1. /\ w.pc = "save"
        /\ store' = [store EXCEPT ![p] = file] \/ UNCHANGED store
        /\ Publish(c, p, w.found, Overrides(w.cached), w.existing)
        /\ UNCHANGED <<hook, conf, aborted, settings>>
    BY <1>15 DEF SaveReturns
  <2>2. /\ w.found \in ModelMap /\ FromConfig(conf[c], w.found) /\ OwnIds(w.found)
        /\ w.existing \in ModelMap /\ FromConfig(conf[c], w.existing)
        /\ Keeps(p, w.existing)
    BY <1>1, <1>2, <2>1 DEF Worker, Holds
  <2>3. Overrides(w.cached) \in ModelMap /\ SavedOnly(Overrides(w.cached))
    BY <1>1, <1>2, NoModelsType, NoModelsFrom DEF Overrides, Worker, Holds, File
  <2>4. /\ file \in File
        /\ From(file.url, file.fp, file.models)
        /\ OwnIds(file.models)
        /\ SavedOnly(file.overrides)
    BY <1>1, <1>4, <2>2, <2>3, ConfigHookAssumption
       DEF NewFile, File, FromConfig, CurrentFingerprint, ConfigHookTypeOK
  <2> HIDE DEF file
  <2>5. store' \in [Provider -> File \cup {None}]
    BY <1>1, <2>1, <2>4
  <2>6. \A q \in Provider : store'[q] = store[q] \/ (q = p /\ store'[q] = file)
    BY <1>1, <2>1
  <2>7. FilesInv'
    BY <1>1, <2>4, <2>6 DEF FilesInv, From, OwnIds, SavedOnly
  <2>8. ConfigHookTypeOK' /\ ConfigsInv' /\ CallsInv'
    BY <1>4, <2>1, <2>2, <2>3, <2>5, PublishInv
  <2>9. QED
    BY <2>7, <2>8 DEF HookInv
<1>16. QED
  BY <1>9, <1>10, <1>11, <1>12, <1>13, <1>14, <1>15 DEF WorkerStep

(* Every step of the system keeps the invariant. *)
LEMMA HookInvNext == HookInv /\ [ConfigHookNext]_vars => HookInv'
<1> SUFFICES ASSUME HookInv, [ConfigHookNext]_vars
             PROVE  HookInv'
  OBVIOUS
<1>1. ConfigHookTypeOK /\ FilesInv /\ ConfigsInv /\ CallsInv
  BY DEF HookInv
<1>2. ASSUME UNCHANGED store
      PROVE  FilesInv'
  BY <1>1, <1>2 DEF FilesInv, From, OwnIds, SavedOnly
<1>3. ASSUME UNCHANGED <<models, injected, settings>>
      PROVE  ConfigsInv'
  BY <1>1, <1>3 DEF ConfigsInv, FromConfig, CurrentFingerprint, From, Keeps
<1>4. ASSUME UNCHANGED <<hook, conf, aborted, worker, settings>>
      PROVE  CallsInv'
  <2>1. ASSUME NEW c \in Call, NEW p \in Provider
        PROVE  Holds(c, p, worker[c][p])'
    <3>1. Holds(c, p, worker[c][p])
      BY <1>1 DEF CallsInv
    <3>2. QED
      BY <1>4, <3>1 DEF Holds, FromConfig, CurrentFingerprint, From, OwnIds, SavedOnly, Keeps
  <2>2. QED
    BY <1>1, <1>4, <2>1 DEF CallsInv
<1>5. ASSUME NEW c \in Call, NEW x \in Config, StartHook(c, x)
      PROVE  HookInv'
  <2>1. /\ hook[c] = "idle"
        /\ hook' = [hook EXCEPT ![c] = "running"]
        /\ conf' = [conf EXCEPT ![c] = x]
        /\ worker' = [worker EXCEPT ![c] = [p \in Provider |-> Begin(p)]]
        /\ UNCHANGED <<aborted, models, injected, store, settings>>
    BY <1>5 DEF StartHook
  <2>2. \A p \in Provider : /\ Begin(p) \in Worker
                            /\ Begin(p).cached = None
                            /\ Begin(p).pc \notin {"info", "save"}
    BY OffType DEF Begin, Worker, Off
  <2>3. ConfigHookTypeOK'
    BY <1>1, <2>1, <2>2 DEF ConfigHookTypeOK
  <2>4. ASSUME NEW d \in Call
        PROVE  /\ hook'[d] = "returned" => aborted'[d] = TRUE
               /\ hook'[d] # "idle" => conf'[d] \in Config
               /\ \A p \in Provider : Holds(d, p, worker[d][p])'
    <3>1. CASE d = c
      <4>1. hook'[d] = "running" /\ conf'[d] = x
        BY <1>1, <2>1, <3>1 DEF ConfigHookTypeOK
      <4>2. \A p \in Provider : worker'[d][p] = Begin(p)
        BY <1>1, <2>1, <3>1 DEF ConfigHookTypeOK
      <4>3. QED
        BY <2>2, <4>1, <4>2 DEF Holds
    <3>2. CASE d # c
      <4>1. /\ hook'[d] = hook[d] /\ conf'[d] = conf[d] /\ aborted'[d] = aborted[d]
            /\ worker'[d] = worker[d]
        BY <1>1, <2>1, <3>2 DEF ConfigHookTypeOK
      <4>2. /\ hook[d] = "returned" => aborted[d] = TRUE
            /\ hook[d] # "idle" => conf[d] \in Config
            /\ \A p \in Provider : Holds(d, p, worker[d][p])
        BY <1>1 DEF CallsInv
      <4>3. \A q, v : Holds(d, q, v) => Holds(d, q, v)'
        BY <2>1, <4>1 DEF Holds, FromConfig, CurrentFingerprint, From, OwnIds, SavedOnly, Keeps
      <4>4. \A p \in Provider : Holds(d, p, worker'[d][p])
        BY <4>1, <4>2
      <4>5. QED
        BY <4>1, <4>2, <4>3, <4>4
    <3>3. QED
      BY <3>1, <3>2
  <2>5. CallsInv'
    BY <2>4 DEF CallsInv
  <2>6. QED
    BY <1>2, <1>3, <2>1, <2>3, <2>5 DEF HookInv
<1>6. ASSUME NEW c \in Call, Deadline(c) \/ HookReturns(c)
      PROVE  HookInv'
  <2>1. /\ hook[c] = "running"
        /\ hook' = [hook EXCEPT ![c] = "returned"] \/ hook' = hook
        /\ aborted' = [aborted EXCEPT ![c] = TRUE]
        /\ UNCHANGED <<conf, worker, models, injected, store, settings>>
    BY <1>6 DEF Deadline, HookReturns
  <2>2. ConfigHookTypeOK'
    BY <1>1, <2>1 DEF ConfigHookTypeOK
  <2>3. ASSUME NEW d \in Call
        PROVE  /\ hook'[d] = "returned" => aborted'[d] = TRUE
               /\ hook'[d] # "idle" => hook[d] # "idle" /\ conf'[d] \in Config
               /\ hook[d] # "idle" => hook'[d] # "idle"
    <3>1. hook[d] = "returned" => aborted[d] = TRUE
      BY <1>1 DEF CallsInv
    <3>2. hook[d] # "idle" => conf[d] \in Config
      BY <1>1 DEF CallsInv
    <3>3. /\ hook \in [Call -> {"idle", "running", "returned"}]
          /\ aborted \in [Call -> BOOLEAN]
      BY <1>1 DEF ConfigHookTypeOK
    <3>4. /\ d = c => aborted'[d] = TRUE
          /\ d # c => aborted'[d] = aborted[d]
      BY <2>1, <3>3
    <3>5. d # c => hook'[d] = hook[d]
      BY <2>1, <3>3
    <3>6. hook'[c] \in {"running", "returned"}
      BY <2>1, <3>3
    <3>7. CASE d = c
      <4>1. aborted'[d] = TRUE
        BY <3>4, <3>7
      <4>2. QED
        BY <2>1, <3>2, <3>6, <3>7, <4>1
    <3>8. CASE d # c
      <4>1. hook'[d] = hook[d] /\ conf'[d] = conf[d]
        BY <2>1, <3>5, <3>8
      <4>2. aborted'[d] = aborted[d]
        BY <3>4, <3>8
      <4>3. hook'[d] = "returned" => aborted'[d] = TRUE
        BY <3>1, <4>1, <4>2
      <4>4. QED
        BY <3>2, <4>1, <4>3
    <3>9. QED
      BY <3>7, <3>8
  <2>4. ASSUME NEW d \in Call, NEW p \in Provider
        PROVE  Holds(d, p, worker[d][p])'
    <3>1. Holds(d, p, worker'[d][p])
      BY <1>1, <2>1 DEF CallsInv
    <3>2. \A q, v : Holds(d, q, v) => Holds(d, q, v)'
      BY <2>1, <2>3 DEF Holds, FromConfig, CurrentFingerprint, From, OwnIds, SavedOnly, Keeps
    <3>3. QED
      BY <3>1, <3>2
  <2>5. CallsInv'
    BY <2>3, <2>4 DEF CallsInv
  <2>6. QED
    BY <1>2, <1>3, <2>1, <2>2, <2>5 DEF HookInv
<1>7. ASSUME NEW p \in Provider, Expire(p) \/ \E m \in Overridable : EditOverrides(p, m)
      PROVE  HookInv'
  <2>1. /\ store[p] \in File
        /\ UNCHANGED <<hook, conf, aborted, worker, models, injected, settings>>
    BY <1>1, <1>7 DEF Expire, EditOverrides, ConfigHookTypeOK
  <2>2. ASSUME NEW file \in File, store' = [store EXCEPT ![p] = file],
               From(file.url, file.fp, file.models), OwnIds(file.models),
               SavedOnly(file.overrides)
        PROVE  HookInv'
    <3>1. store' \in [Provider -> File \cup {None}]
      BY <1>1, <2>2 DEF ConfigHookTypeOK
    <3>2. \A q \in Provider : store'[q] = store[q] \/ (q = p /\ store'[q] = file)
      BY <1>1, <2>2 DEF ConfigHookTypeOK
    <3>3. FilesInv'
      BY <1>1, <2>2, <3>2 DEF FilesInv, From, OwnIds, SavedOnly
    <3>4. QED
      BY <1>1, <1>3, <1>4, <2>1, <3>1, <3>3 DEF HookInv, ConfigHookTypeOK
  <2>3. /\ From(store[p].url, store[p].fp, store[p].models)
        /\ OwnIds(store[p].models)
        /\ SavedOnly(store[p].overrides)
        /\ store[p].overrides \in ModelMap
    BY <1>1, <2>1, FileIsNotNone DEF FilesInv, File
  <2>4. CASE Expire(p)
    <3> DEFINE file == [store[p] EXCEPT !.fresh = FALSE]
    <3>1. store' = [store EXCEPT ![p] = file]
      BY <2>4 DEF Expire
    <3>2. /\ file \in File
          /\ From(file.url, file.fp, file.models)
          /\ OwnIds(file.models)
          /\ SavedOnly(file.overrides)
      BY <2>1, <2>3 DEF File
    <3> HIDE DEF file
    <3>3. QED
      BY <2>2, <3>1, <3>2
  <2>5. ASSUME NEW m \in Overridable, EditOverrides(p, m)
        PROVE  HookInv'
    <3> DEFINE over == [store[p].overrides EXCEPT ![m] = SavedOverride]
               file == [store[p] EXCEPT !.overrides = over]
    <3>1. store' = [store EXCEPT ![p] = file]
      BY <2>1, <2>5 DEF EditOverrides, File
    <3>2. SavedOverride \in ModelConfig /\ \A f \in Field : SavedOverride[f] \in {Unset, "saved"}
      BY DEF SavedOverride, ModelConfig, Value, Field
    <3>3. over \in ModelMap
      BY <2>3, <3>2 DEF ModelMap
    <3>4. SavedOnly(over)
      BY <2>3, <3>2 DEF SavedOnly, ModelMap
    <3> HIDE DEF over
    <3>5. /\ file \in File
          /\ From(file.url, file.fp, file.models)
          /\ OwnIds(file.models)
          /\ SavedOnly(file.overrides)
      BY <2>1, <2>3, <3>3, <3>4 DEF File
    <3> HIDE DEF file
    <3>6. QED
      BY <2>2, <3>1, <3>5
  <2>6. QED
    BY <1>7, <2>4, <2>5
<1>8. CASE UNCHANGED vars
  BY <1>1, <1>2, <1>3, <1>4, <1>8 DEF HookInv, ConfigHookTypeOK, vars
<1>9. QED
  BY <1>5, <1>6, <1>7, <1>8, WorkerStepInv DEF ConfigHookNext

(* The invariant holds: whatever a config object or a file shows can be     *)
(* traced to the user or to the endpoint and fingerprint it stands for,     *)
(* whichever worker of whichever call put it there.                          *)
THEOREM HookInvHolds == ConfigHookSpec => []HookInv
<1>1. ConfigHookInit => HookInv
  BY HookInvInit
<1>2. HookInv /\ [ConfigHookNext]_vars => HookInv'
  BY HookInvNext
<1>3. QED
  BY <1>1, <1>2, PTL DEF ConfigHookSpec

-----------------------------------------------------------------------------
(* What follows from it                                                    *)

(* Every variable has its type, in particular every file that saveModels    *)
(* writes is one that read accepts.                                          *)
THEOREM TypesHold == ConfigHookSpec => []ConfigHookTypeOK
<1>1. HookInv => ConfigHookTypeOK
  BY DEF HookInv
<1>2. QED
  BY <1>1, HookInvHolds, PTL

(* The user's own models and, but for the id, their fields survive any       *)
(* discovery: getExplicitModels never takes them for the plugin's, and no    *)
(* layer is laid over them.                                                  *)
THEOREM AuthoredKeptHolds == ConfigHookSpec => []AuthoredKept
<1>1. HookInv => AuthoredKept
  BY DEF HookInv, ConfigsInv, Keeps, AuthoredKept
<1>2. QED
  BY <1>1, HookInvHolds, PTL

(* A variant that is shown was authored, saved or derived from a reasoning   *)
(* configuration with the fingerprint of the one in force, though the file   *)
(* it came from may be any.  What that fingerprint leaves out is not covered. *)
THEOREM VariantsCurrentHolds == ConfigHookSpec => []VariantsCurrent
<1>1. HookInv => VariantsCurrent
  BY DEF HookInv, ConfigsInv, FromConfig, From, Layer, Told, VariantsCurrent
<1>2. QED
  BY <1>1, HookInvHolds, PTL

(* A provider shows nothing of another endpoint.                            *)
THEOREM FactsFromOwnEndpointHolds == ConfigHookSpec => []FactsFromOwnEndpoint
<1>1. HookInv => FactsFromOwnEndpoint
  BY DEF HookInv, ConfigsInv, FromConfig, From, Layer, FactsFromOwnEndpoint
<1>2. QED
  BY <1>1, HookInvHolds, PTL

(* A worker that is not stopped finds its call still running: the signal of *)
(* a call that has returned is set.                                          *)
LEMMA OnlyRunningCallsWrite ==
  ASSUME HookInv, NEW c \in Call, NEW p \in Provider, WorkerStep(c, p), models' # models
  PROVE  /\ hook[c] = "running"
         /\ hook' = hook
         /\ \A x \in Config : models'[x] # models[x] => conf[c] = x
<1>1. ConfigHookTypeOK /\ CallsInv
  BY DEF HookInv
<1>2. worker[c][p].pc # "off" /\ hook' = hook
  BY DEF WorkerStep, ReadStore, Authorize, ModelsAnswer, ModelsFail, InfoReturns, WorkerThrows,
         SaveReturns
<1>3. ~aborted[c]
  BY DEF WorkerStep, ReadStore, Authorize, ModelsAnswer, ModelsFail, InfoReturns, WorkerThrows,
         SaveReturns, Assemble, Publish, MayPublish
<1>4. hook[c] = "running"
  BY <1>1, <1>2, <1>3 DEF CallsInv, Holds, ConfigHookTypeOK
<1>5. \E map : models' = [models EXCEPT ![conf[c]][p] = map]
  BY DEF WorkerStep, ReadStore, Authorize, ModelsAnswer, ModelsFail, InfoReturns, WorkerThrows,
         SaveReturns, Assemble, Publish, Clear
<1>6. models \in [Config -> [Provider -> ModelMap]]
  BY <1>1 DEF ConfigHookTypeOK
<1>7. QED
  BY <1>2, <1>4, <1>5, <1>6

(* A config object is the host's own again once the hook has returned.       *)
THEOREM UntouchedAfterReturnHolds == ConfigHookSpec => UntouchedAfterReturn
<1> DEFINE A == \A x \in Config : models'[x] # models[x] =>
                  \E c \in Call : conf[c] = x /\ hook[c] = "running" /\ hook'[c] = "running"
<1>1. HookInv /\ [ConfigHookNext]_vars => [A]_vars
  <2> SUFFICES ASSUME HookInv, ConfigHookNext, models' # models
               PROVE  A
    BY DEF vars
  <2>1. PICK c \in Call, p \in Provider : WorkerStep(c, p)
    BY DEF ConfigHookNext, StartHook, Deadline, HookReturns, Expire, EditOverrides
  <2>2. QED
    BY <2>1, OnlyRunningCallsWrite
<1>2. QED
  BY <1>1, HookInvHolds, PTL DEF ConfigHookSpec, UntouchedAfterReturn

-----------------------------------------------------------------------------
(* What the last call settled on is what is shown                          *)

(* Calls begin in their order, and one config object's calls do not overlap. *)
OrderInv ==
  \A c \in Call :
    /\ hook[c] = "idle" => conf[c] = None
    /\ \A d \in Call : c < d =>
         /\ hook[d] # "idle" => hook[c] # "idle"
         /\ conf[d] # None /\ conf[c] = conf[d] => hook[c] = "returned"

(* A map with the models the user wrote, and no others. *)
UsersOnly(p, map) == \A m \in Model : map[m] # None <=> Authored[p][m] # None

(* Every model of a config object is the user's or on record as injected.  *)
OwnedInv ==
  \A x \in Config, p \in Provider, m \in Model :
    models[x][p][m] # None => m \in injected[x][p] \/ Authored[p][m] # None

(* What a worker remembers of the config while it saves. *)
SavingInv ==
  \A c \in Call, p \in Provider :
    worker[c][p].pc = "save" => UsersOnly(p, worker[c][p].existing)

ShownInv == OrderInv /\ OwnedInv /\ SavingInv /\ ShownIsFound

(* getExplicitModels returns the user's models and no others. *)
LEMMA ExplicitIsUsers ==
  ASSUME ConfigsInv, OwnedInv, NEW x \in Config, NEW p \in Provider
  PROVE  UsersOnly(p, Explicit(x, p))
BY DEF ConfigsInv, Keeps, OwnedInv, UsersOnly, Explicit

(* What a step of worker c, p may do: show nothing new, *)
Quiet(c, p, w) ==
  /\ w.pc \notin {"publish", "clear"}
  /\ w.pc = "save" => UsersOnly(p, w.existing)
  /\ UNCHANGED <<models, injected>>

(* or, while its call is awaited, show what it found and the user's models. *)
Shows(c, p, w) ==
  /\ w.pc \in {"publish", "clear"}
  /\ ~aborted[c]
  /\ \E map \in ModelMap, own \in SUBSET Model :
       /\ models' = [models EXCEPT ![conf[c]][p] = map]
       /\ injected' = [injected EXCEPT ![conf[c]][p] = own]
       /\ \A m \in Model : /\ map[m] # None <=> w.found[m] # None \/ Authored[p][m] # None
                           /\ w.found[m] # None => map[m]["id"] = "own"
                           /\ map[m] # None => m \in own \/ Authored[p][m] # None

(* A worker that settles holds nothing but what it found. *)
Settled(kind, found) == [pc |-> kind, cached |-> None, found |-> found, existing |-> NoModels]

(* Publication shows, or is refused. *)
LEMMA PublishShows ==
  ASSUME NEW c \in Call, NEW p \in Provider, NEW u, NEW fp,
         NEW found \in ModelMap, From(u, fp, found), OwnIds(found),
         NEW overrides \in ModelMap, SavedOnly(overrides),
         NEW existing \in ModelMap, From(u, fp, existing), Keeps(p, existing),
         UsersOnly(p, existing), Publish(c, p, found, overrides, existing)
  PROVE  \E w \in Worker : Goto(c, p, w) /\ (Quiet(c, p, w) \/ Shows(c, p, w))
<1> DEFINE own == Overlay(found, overrides)
           map == WithExplicit(own, existing)
           ids == {m \in Model : own[m] # None /\ existing[m] = None}
<1>1. own \in ModelMap /\ From(u, fp, own) /\ OwnIds(own)
  BY OverlayFrom
<1>2. /\ map \in ModelMap
      /\ \A m \in Model : own[m] # None => map[m]["id"] = "own"
  <2>1. /\ WithExplicit(own, existing) \in ModelMap
        /\ FoundIds(own, WithExplicit(own, existing))
    BY <1>1, WithExplicitFrom
  <2>2. QED
    BY <2>1 DEF FoundIds
<1>3. ASSUME NEW m \in Model
      PROVE  own[m] # None <=> found[m] # None
  <2>1. CASE found[m] = None \/ overrides[m] = None
    BY <2>1 DEF Overlay
  <2>2. CASE found[m] # None /\ overrides[m] # None
    <3>1. found[m] \in ModelConfig /\ overrides[m] \in ModelConfig
      BY <2>2 DEF ModelMap
    <3>2. own[m] = Merge(found[m], overrides[m])
      BY <2>2 DEF Overlay
    <3>3. QED
      BY <2>2, <3>1, <3>2, MergeFields
  <2>3. QED
    BY <2>1, <2>2
<1>4. ASSUME NEW m \in Model
      PROVE  map[m] # None <=> own[m] # None \/ existing[m] # None
  <2> HIDE DEF own
  <2>1. CASE own[m] = None \/ existing[m] = None
    BY <2>1 DEF WithExplicit
  <2>2. CASE own[m] # None /\ existing[m] # None
    <3>1. own[m] \in ModelConfig /\ existing[m] \in ModelConfig
      BY <1>1, <2>2 DEF ModelMap
    <3>2. map[m] = Merge(own[m], existing[m])
      BY <2>2 DEF WithExplicit
    <3>3. QED
      BY <2>2, <3>1, <3>2, MergeFields
  <2>3. QED
    BY <2>1, <2>2
<1>5. CASE MayPublish(c)
  <2> DEFINE w == Settled("publish", found)
  <2>1. /\ Goto(c, p, w)
        /\ models' = [models EXCEPT ![conf[c]][p] = map]
        /\ injected' = [injected EXCEPT ![conf[c]][p] = ids]
    BY <1>5 DEF Publish, Settle, Settled
  <2>2. w \in Worker /\ w.pc = "publish" /\ w.found = found
    BY NoModelsType DEF Worker, Outcome, Settled
  <2>3. ids \in SUBSET Model
    OBVIOUS
  <2>4. \A m \in Model : /\ map[m] # None <=> w.found[m] # None \/ Authored[p][m] # None
                         /\ w.found[m] # None => map[m]["id"] = "own"
                         /\ map[m] # None => m \in ids \/ Authored[p][m] # None
    BY <1>2, <1>3, <1>4, <2>2 DEF UsersOnly
  <2> HIDE DEF w, map, ids
  <2>5. Shows(c, p, w)
    BY <1>2, <1>5, <2>1, <2>2, <2>3, <2>4 DEF Shows, MayPublish
  <2>6. QED
    BY <2>1, <2>2, <2>5
<1>6. CASE ~MayPublish(c)
  <2> DEFINE w == Settled("aborted", NoModels)
  <2>1. Goto(c, p, w) /\ UNCHANGED <<models, injected>>
    BY <1>6 DEF Publish, Settle, Settled
  <2>2. w \in Worker /\ w.pc = "aborted"
    BY NoModelsType DEF Worker, Outcome, Settled
  <2> HIDE DEF w
  <2>3. QED
    BY <2>1, <2>2 DEF Quiet
<1>7. QED
  BY <1>5, <1>6

(* A worker that settles without publishing shows nothing new. *)
LEMMA SettleIsQuiet ==
  ASSUME NEW c \in Call, NEW p \in Provider, NEW kind \in {"aborted", "skip"},
         Settle(c, p, kind, NoModels), UNCHANGED <<models, injected>>
  PROVE  \E w \in Worker : Goto(c, p, w) /\ (Quiet(c, p, w) \/ Shows(c, p, w))
<1> DEFINE w == Settled(kind, NoModels)
<1>1. Goto(c, p, w)
  BY DEF Settle, Settled
<1>2. w \in Worker /\ w.pc = kind
  BY NoModelsType DEF Worker, Outcome, Settled
<1> HIDE DEF w
<1>3. QED
  BY <1>1, <1>2 DEF Quiet

(* The end of the loop remembers the user's models, or publishes. *)
LEMMA AssembleShows ==
  ASSUME HookInv, OwnedInv, NEW c \in Call, NEW p \in Provider, hook[c] # "idle",
         NEW found \in ModelMap, FromConfig(conf[c], found), OwnIds(found),
         Assemble(c, p, worker[c][p], found)
  PROVE  \E w \in Worker : Goto(c, p, w) /\ (Quiet(c, p, w) \/ Shows(c, p, w))
<1>1. ConfigHookTypeOK /\ ConfigsInv /\ CallsInv /\ worker[c][p] \in Worker
  BY DEF HookInv, ConfigHookTypeOK
<1>2. conf[c] \in Config
  BY <1>1 DEF CallsInv
<1>3. /\ Explicit(conf[c], p) \in ModelMap
      /\ FromConfig(conf[c], Explicit(conf[c], p))
      /\ Keeps(p, Explicit(conf[c], p))
      /\ UsersOnly(p, Explicit(conf[c], p))
  BY <1>1, <1>2, ExplicitFrom, ExplicitIsUsers
<1>4. CASE p \in Cached
  <2> DEFINE w == [worker[c][p] EXCEPT !.pc = "save", !.found = found,
                                       !.existing = Explicit(conf[c], p)]
  <2>1. Goto(c, p, w) /\ UNCHANGED <<models, injected>>
    BY <1>4 DEF Assemble
  <2>2. w \in Worker /\ w.pc = "save" /\ w.existing = Explicit(conf[c], p)
    BY <1>1, <1>3 DEF Worker
  <2> HIDE DEF w
  <2>3. QED
    BY <1>3, <2>1, <2>2 DEF Quiet
<1>5. CASE p \notin Cached
  <2>1. Publish(c, p, found, NoModels, Explicit(conf[c], p))
    BY <1>5 DEF Assemble
  <2>2. PICK u, fp : u = settings[conf[c]].url /\ fp = CurrentFingerprint(conf[c])
    OBVIOUS
  <2>3. From(u, fp, found) /\ From(u, fp, Explicit(conf[c], p))
    BY <1>3, <2>2 DEF FromConfig
  <2>4. QED
    BY <1>3, <2>1, <2>3, PublishShows, NoModelsType, NoModelsFrom
<1>6. QED
  BY <1>4, <1>5

(* Every step of a worker is quiet or shows. *)
LEMMA WorkerShows ==
  ASSUME HookInv, OwnedInv, SavingInv, NEW c \in Call, NEW p \in Provider, WorkerStep(c, p)
  PROVE  /\ hook[c] # "idle"
         /\ worker[c][p].pc \notin {"publish", "clear"}
         /\ UNCHANGED <<hook, conf, aborted>>
         /\ \E w \in Worker : Goto(c, p, w) /\ (Quiet(c, p, w) \/ Shows(c, p, w))
<1> DEFINE w == worker[c][p]
           Done == \E v \in Worker : Goto(c, p, v) /\ (Quiet(c, p, v) \/ Shows(c, p, v))
<1>1. /\ ConfigHookTypeOK /\ FilesInv /\ ConfigsInv /\ CallsInv
      /\ w \in Worker
      /\ store \in [Provider -> File \cup {None}]
  BY DEF HookInv, ConfigHookTypeOK
<1>2. Holds(c, p, w)
  BY <1>1 DEF CallsInv
<1>3. w.pc \notin {"off", "publish", "clear"} /\ UNCHANGED <<hook, conf, aborted>>
  BY DEF WorkerStep, ReadStore, Authorize, ModelsAnswer, ModelsFail, InfoReturns, WorkerThrows,
         SaveReturns
<1>4. hook[c] # "idle" /\ conf[c] \in Config
  BY <1>1, <1>2, <1>3 DEF CallsInv, Holds
<1>5. /\ Explicit(conf[c], p) \in ModelMap
      /\ FromConfig(conf[c], Explicit(conf[c], p))
      /\ Keeps(p, Explicit(conf[c], p))
      /\ UsersOnly(p, Explicit(conf[c], p))
  BY <1>1, <1>4, ExplicitFrom, ExplicitIsUsers
<1>6. PICK u, fp : u = settings[conf[c]].url /\ fp = CurrentFingerprint(conf[c])
  OBVIOUS
<1>7. ASSUME NEW v \in Worker, Goto(c, p, v), v.pc \notin {"publish", "clear", "save"},
             UNCHANGED <<models, injected>>
      PROVE  Done
  BY <1>7 DEF Quiet
<1>8. ASSUME ReadStore(c, p) PROVE Done
  <2> DEFINE file == Persisted(conf[c], p)
             v == [w EXCEPT !.pc = "auth", !.cached = file]
  <2>1. file # None => /\ file = store[p]
                       /\ file \in File
                       /\ file.url = settings[conf[c]].url
    BY <1>1 DEF Persisted, SameIdentity
  <2>2. file # None => /\ From(file.url, file.fp, file.models)
                       /\ OwnIds(file.models)
                       /\ SavedOnly(file.overrides)
    BY <1>1, <2>1 DEF FilesInv
  <2>3. CASE file # None /\ file.fresh
    <3>1. Publish(c, p, CurrentVariants(conf[c], file), file.overrides, Explicit(conf[c], p))
      BY <1>8, <2>3 DEF ReadStore
    <3>2. file.overrides \in ModelMap
      BY <2>1, <2>3 DEF File
    <3>3. /\ CurrentVariants(conf[c], file) \in ModelMap
          /\ FromConfig(conf[c], CurrentVariants(conf[c], file))
          /\ OwnIds(CurrentVariants(conf[c], file))
      BY <1>1, <1>4, <2>1, <2>2, <2>3, CurrentVariantsFrom
    <3> HIDE DEF file
    <3>4. PICK found, existing : /\ found = CurrentVariants(conf[c], file)
                                 /\ existing = Explicit(conf[c], p)
      OBVIOUS
    <3>5. From(u, fp, found) /\ From(u, fp, existing)
      BY <1>5, <1>6, <3>3, <3>4 DEF FromConfig
    <3>6. /\ found \in ModelMap /\ OwnIds(found)
          /\ existing \in ModelMap /\ Keeps(p, existing) /\ UsersOnly(p, existing)
          /\ Publish(c, p, found, file.overrides, existing)
      BY <1>5, <3>1, <3>3, <3>4
    <3>7. QED
      BY <2>2, <2>3, <3>2, <3>5, <3>6, PublishShows
  <2>4. CASE ~(file # None /\ file.fresh)
    <3>1. Goto(c, p, v) /\ UNCHANGED <<models, injected>>
      BY <1>8, <2>4 DEF ReadStore
    <3>2. v \in Worker /\ v.pc = "auth"
      BY <1>1, <2>1 DEF Worker
    <3> HIDE DEF v
    <3>3. QED
      BY <1>7, <3>1, <3>2
  <2>5. QED
    BY <2>3, <2>4
<1>9. ASSUME Authorize(c, p) PROVE Done
  <2> DEFINE v == [w EXCEPT !.pc = "models"]
  <2>1. CASE aborted[c]
    BY <1>9, <2>1, SettleIsQuiet DEF Authorize
  <2>2. CASE ~aborted[c]
    <3>1. Goto(c, p, v) /\ UNCHANGED <<models, injected>>
      BY <1>9, <2>2 DEF Authorize
    <3>2. v \in Worker /\ v.pc = "models"
      BY <1>1 DEF Worker
    <3> HIDE DEF v
    <3>3. QED
      BY <1>7, <3>1, <3>2
  <2>3. QED
    BY <2>1, <2>2
<1>10. ASSUME NEW ids \in Answers[p], ModelsAnswer(c, p, ids)
       PROVE  Done
  <2> DEFINE found == Discovered(conf[c], ids)
             v == [w EXCEPT !.pc = "info", !.found = found]
  <2>1. found \in ModelMap /\ FromConfig(conf[c], found) /\ OwnIds(found)
    BY <1>1, <1>4, DiscoveredFrom
  <2>2. CASE p \in WithInfo
    <3>1. Goto(c, p, v) /\ UNCHANGED <<models, injected>>
      BY <1>10, <2>2 DEF ModelsAnswer
    <3> HIDE DEF found
    <3>2. v \in Worker /\ v.pc = "info"
      BY <1>1, <2>1 DEF Worker
    <3> HIDE DEF v
    <3>3. QED
      BY <1>7, <3>1, <3>2
  <2>3. CASE p \notin WithInfo
    <3>1. Assemble(c, p, w, found)
      BY <1>10, <2>3 DEF ModelsAnswer
    <3> HIDE DEF found
    <3>2. QED
      BY <1>4, <2>1, <3>1, AssembleShows
  <2>4. QED
    BY <2>2, <2>3
<1>11. ASSUME ModelsFail(c, p) PROVE Done
  <2>1. CASE p \in Cached /\ ~aborted[c]
    <3> DEFINE v == Settled("clear", NoModels)
               map == Explicit(conf[c], p)
    <3>1. /\ Goto(c, p, v)
          /\ models' = [models EXCEPT ![conf[c]][p] = map]
          /\ injected' = [injected EXCEPT ![conf[c]][p] = {}]
      BY <1>11, <2>1 DEF ModelsFail, Clear, Settle, Settled
    <3>2. v \in Worker /\ v.pc = "clear" /\ v.found = NoModels
      BY NoModelsType DEF Worker, Outcome, Settled
    <3>3. \A m \in Model : /\ map[m] # None <=> v.found[m] # None \/ Authored[p][m] # None
                           /\ v.found[m] # None => map[m]["id"] = "own"
                           /\ map[m] # None => m \in {} \/ Authored[p][m] # None
      BY <1>5, <3>2 DEF UsersOnly, NoModels
    <3>4. map \in ModelMap /\ {} \in SUBSET Model
      BY <1>5
    <3> HIDE DEF v, map
    <3>5. Shows(c, p, v)
      BY <2>1, <3>1, <3>2, <3>3, <3>4 DEF Shows
    <3>6. QED
      BY <3>1, <3>2, <3>5
  <2>2. CASE ~(p \in Cached /\ ~aborted[c])
    BY <1>11, <2>2, SettleIsQuiet DEF ModelsFail
  <2>3. QED
    BY <2>1, <2>2
<1>12. ASSUME InfoReturns(c, p) PROVE Done
  <2>1. w.pc = "info"
    BY <1>12 DEF InfoReturns
  <2>2. PICK chat : Assemble(c, p, w, [m \in Model |-> IF m \in chat THEN w.found[m] ELSE None])
    BY <1>12 DEF InfoReturns
  <2> DEFINE found == [m \in Model |-> IF m \in chat THEN w.found[m] ELSE None]
  <2>3. w.found \in ModelMap /\ FromConfig(conf[c], w.found) /\ OwnIds(w.found)
    BY <1>1, <1>2, <2>1 DEF Worker, Holds
  <2>4. found \in ModelMap
    BY <2>3 DEF ModelMap
  <2>5. FromConfig(conf[c], found) /\ OwnIds(found)
    BY <2>3 DEF FromConfig, From, OwnIds
  <2> HIDE DEF found
  <2>6. QED
    BY <1>4, <2>2, <2>4, <2>5, AssembleShows DEF found
<1>13. ASSUME WorkerThrows(c, p) PROVE Done
  BY <1>13, SettleIsQuiet DEF WorkerThrows
<1>14. ASSUME SaveReturns(c, p) PROVE Done
  <2>1. w.pc = "save" /\ Publish(c, p, w.found, Overrides(w.cached), w.existing)
    BY <1>14 DEF SaveReturns
  <2>2. /\ w.found \in ModelMap /\ FromConfig(conf[c], w.found) /\ OwnIds(w.found)
        /\ w.existing \in ModelMap /\ FromConfig(conf[c], w.existing)
        /\ Keeps(p, w.existing) /\ UsersOnly(p, w.existing)
    BY <1>1, <1>2, <2>1 DEF Worker, Holds, SavingInv
  <2>3. Overrides(w.cached) \in ModelMap /\ SavedOnly(Overrides(w.cached))
    BY <1>1, <1>2, NoModelsType, NoModelsFrom DEF Overrides, Worker, Holds, File
  <2>4. From(u, fp, w.found) /\ From(u, fp, w.existing)
    BY <1>6, <2>2 DEF FromConfig
  <2>5. PICK found, existing, over : found = w.found /\ existing = w.existing /\ over = Overrides(w.cached)
    OBVIOUS
  <2>6. QED
    BY <2>1, <2>2, <2>3, <2>4, <2>5, PublishShows
<1>15. Done
  BY <1>8, <1>9, <1>10, <1>11, <1>12, <1>13, <1>14 DEF WorkerStep
<1>16. QED
  BY <1>3, <1>4, <1>15

(* A worker's step leaves the calls alone, and only what it shows is new.  *)
LEMMA WorkerKeepsShown ==
  ASSUME HookInv, ShownInv, NEW c \in Call, NEW p \in Provider, WorkerStep(c, p)
  PROVE  ShownInv'
<1>1. /\ ConfigHookTypeOK /\ CallsInv
      /\ OrderInv /\ OwnedInv /\ SavingInv /\ ShownIsFound
  BY DEF HookInv, ShownInv
<1>2. /\ hook[c] # "idle"
      /\ worker[c][p].pc \notin {"publish", "clear"}
      /\ UNCHANGED <<hook, conf, aborted>>
  BY <1>1, WorkerShows
<1>3. PICK w \in Worker : Goto(c, p, w) /\ (Quiet(c, p, w) \/ Shows(c, p, w))
  BY <1>1, WorkerShows
<1>4. /\ worker \in [Call -> [Provider -> Worker]]
      /\ models \in [Config -> [Provider -> ModelMap]]
      /\ injected \in [Config -> [Provider -> SUBSET Model]]
      /\ conf[c] \in Config
  BY <1>1, <1>2 DEF ConfigHookTypeOK, CallsInv
<1>5. /\ worker'[c][p] = w
      /\ \A d \in Call, q \in Provider : d # c \/ q # p => worker'[d][q] = worker[d][q]
  BY <1>3, <1>4 DEF Goto
<1>6. OrderInv'
  BY <1>1, <1>2 DEF OrderInv
<1>7. SavingInv'
  <2>1. w.pc = "save" => UsersOnly(p, w.existing)
    BY <1>3 DEF Quiet, Shows
  <2>2. \A q, map : UsersOnly(q, map) => UsersOnly(q, map)'
    BY DEF UsersOnly
  <2>3. ASSUME NEW d \in Call, NEW q \in Provider, worker'[d][q].pc = "save"
        PROVE  UsersOnly(q, worker'[d][q].existing)
    BY <1>1, <1>5, <2>1, <2>3 DEF SavingInv
  <2>4. QED
    BY <2>2, <2>3 DEF SavingInv
<1>8. CASE Quiet(c, p, w)
  <2>1. UNCHANGED <<models, injected>> /\ w.pc \notin {"publish", "clear"}
    BY <1>8 DEF Quiet
  <2>2. OwnedInv'
    BY <1>1, <2>1 DEF OwnedInv
  <2>3. ASSUME NEW d \in Call, NEW q \in Provider,
               worker'[d][q].pc \in {"publish", "clear"}, LastWord(d, q)'
        PROVE  worker'[d][q] = worker[d][q] /\ LastWord(d, q)
    BY <1>2, <1>5, <2>1, <2>3 DEF LastWord
  <2>4. ShownIsFound'
    BY <1>1, <1>2, <2>1, <2>3 DEF ShownIsFound
  <2>5. QED
    BY <1>6, <1>7, <2>2, <2>4 DEF ShownInv
<1>9. CASE Shows(c, p, w)
  <2>1. PICK map \in ModelMap, own \in SUBSET Model :
          /\ models' = [models EXCEPT ![conf[c]][p] = map]
          /\ injected' = [injected EXCEPT ![conf[c]][p] = own]
          /\ \A m \in Model : /\ map[m] # None <=> w.found[m] # None \/ Authored[p][m] # None
                              /\ w.found[m] # None => map[m]["id"] = "own"
                              /\ map[m] # None => m \in own \/ Authored[p][m] # None
    BY <1>9 DEF Shows
  <2>2. /\ models'[conf[c]][p] = map /\ injected'[conf[c]][p] = own
        /\ \A x \in Config, q \in Provider : x # conf[c] \/ q # p =>
             models'[x][q] = models[x][q] /\ injected'[x][q] = injected[x][q]
    BY <1>4, <2>1
  <2>3. OwnedInv'
    BY <1>1, <2>1, <2>2 DEF OwnedInv
  <2>4. w.pc \in {"publish", "clear"} /\ ~aborted[c]
    BY <1>9 DEF Shows
  <2>5. ASSUME NEW d \in Call, d # c, conf[d] = conf[c], LastWord(d, p)'
        PROVE  FALSE
    <3>1. c \in Nat /\ d \in Nat
      BY ConfigHookAssumption DEF Call
    <3>2. CASE d < c
      BY <1>2, <1>5, <2>4, <2>5, <3>2 DEF LastWord
    <3>3. CASE c < d
      <4>1. conf[d] # None
        BY <1>4, <2>5, ConfigHookAssumption
      <4>2. hook[c] = "returned"
        BY <1>1, <2>5, <3>3, <4>1 DEF OrderInv
      <4>3. QED
        BY <1>1, <2>4, <4>2 DEF CallsInv
    <3>4. QED
      BY <2>5, <3>1, <3>2, <3>3
  <2>6. ASSUME NEW d \in Call, NEW q \in Provider,
               worker'[d][q].pc \in {"publish", "clear"}, LastWord(d, q)',
               NEW m \in Model
        PROVE  /\ models'[conf'[d]][q][m] # None
                    <=> worker'[d][q].found[m] # None \/ Authored[q][m] # None
               /\ worker'[d][q].found[m] # None => models'[conf'[d]][q][m]["id"] = "own"
    <3>1. CASE d = c /\ q = p
      BY <1>2, <1>5, <2>1, <2>2, <3>1
    <3>2. CASE ~(d = c /\ q = p)
      <4>1. worker'[d][q] = worker[d][q]
        BY <1>5, <3>2
      <4>2. hook[d] # "idle"
        BY <1>1, <2>6, <4>1 DEF CallsInv, Holds
      <4>3. conf[d] \in Config
        BY <1>1, <4>2 DEF CallsInv
      <4>4. conf[d] # conf[c] \/ q # p
        BY <2>5, <2>6, <3>2
      <4>5. models'[conf'[d]][q] = models[conf[d]][q]
        BY <1>2, <2>2, <4>3, <4>4
      <4>6. LastWord(d, q)
        <5> SUFFICES ASSUME NEW e \in Call, e > d, conf[e] = conf[d]
                     PROVE  worker[e][q].pc \notin {"publish", "clear"}
          BY DEF LastWord
        <5>1. worker'[e][q].pc \notin {"publish", "clear"}
          BY <1>2, <2>6 DEF LastWord
        <5>2. QED
          BY <1>2, <1>5, <5>1
      <4>7. QED
        BY <1>1, <2>6, <4>1, <4>5, <4>6 DEF ShownIsFound
    <3>3. QED
      BY <3>1, <3>2
  <2>7. ShownIsFound'
    BY <2>6 DEF ShownIsFound
  <2>8. QED
    BY <1>6, <1>7, <2>3, <2>7 DEF ShownInv
<1>10. QED
  BY <1>3, <1>8, <1>9

(* A call that begins has no later one, and has shown nothing yet. *)
LEMMA StartKeepsShown ==
  ASSUME HookInv, ShownInv, NEW c \in Call, NEW x \in Config, StartHook(c, x)
  PROVE  ShownInv'
<1>1. /\ ConfigHookTypeOK /\ CallsInv
      /\ OrderInv /\ OwnedInv /\ SavingInv /\ ShownIsFound
  BY DEF HookInv, ShownInv
<1>2. /\ hook[c] = "idle"
      /\ \A d \in Call : /\ d < c => hook[d] # "idle"
                         /\ conf[d] = x => hook[d] = "returned"
      /\ hook' = [hook EXCEPT ![c] = "running"]
      /\ conf' = [conf EXCEPT ![c] = x]
      /\ worker' = [worker EXCEPT ![c] = [p \in Provider |-> Begin(p)]]
      /\ UNCHANGED <<aborted, models, injected, store, settings>>
  BY DEF StartHook
<1>3. /\ hook'[c] = "running" /\ conf'[c] = x /\ conf[c] = None
      /\ \A p \in Provider : worker'[c][p].pc \in {"read", "auth"}
      /\ \A d \in Call : d # c => /\ hook'[d] = hook[d]
                                  /\ conf'[d] = conf[d]
                                  /\ worker'[d] = worker[d]
  <2>1. conf[c] = None
    BY <1>1, <1>2 DEF OrderInv
  <2>2. \A p \in Provider : Begin(p).pc \in {"read", "auth"}
    BY DEF Begin, Off
  <2>3. QED
    BY <1>1, <1>2, <2>1, <2>2 DEF ConfigHookTypeOK
<1>4. OrderInv'
  <2>1. ASSUME NEW d \in Call, hook'[d] = "idle"
        PROVE  conf'[d] = None
    BY <1>1, <1>3, <2>1 DEF OrderInv
  <2>2. ASSUME NEW d \in Call, NEW e \in Call, d < e
        PROVE  /\ hook'[e] # "idle" => hook'[d] # "idle"
               /\ conf'[e] # None /\ conf'[d] = conf'[e] => hook'[d] = "returned"
    <3>1. d # e /\ d \in Nat /\ e \in Nat
      BY <2>2, ConfigHookAssumption DEF Call
    <3>2. CASE d = c
      <4>1. hook[e] = "idle" /\ conf[e] = None
        BY <1>1, <1>2, <2>2, <3>2 DEF OrderInv
      <4>2. QED
        BY <1>3, <3>1, <3>2, <4>1
    <3>3. CASE e = c
      BY <1>2, <1>3, <2>2, <3>1, <3>3
    <3>4. CASE d # c /\ e # c
      BY <1>1, <1>3, <2>2, <3>4 DEF OrderInv
    <3>5. QED
      BY <3>2, <3>3, <3>4
  <2>3. QED
    BY <2>1, <2>2 DEF OrderInv
<1>5. OwnedInv'
  BY <1>1, <1>2 DEF OwnedInv
<1>6. SavingInv'
  <2>1. ASSUME NEW d \in Call, NEW p \in Provider, worker'[d][p].pc = "save"
        PROVE  worker'[d][p] = worker[d][p]
    BY <1>3, <2>1
  <2>2. QED
    BY <1>1, <2>1 DEF SavingInv, UsersOnly
<1>7. ShownIsFound'
  <2>1. ASSUME NEW d \in Call, NEW p \in Provider,
               worker'[d][p].pc \in {"publish", "clear"}, LastWord(d, p)'
        PROVE  d # c /\ LastWord(d, p)
    <3>1. d # c
      BY <1>3, <2>1
    <3>2. worker[d][p].pc \in {"publish", "clear"}
      BY <1>3, <2>1, <3>1
    <3>3. conf[d] \in Config /\ conf[d] # None
      BY <1>1, <3>2, ConfigHookAssumption DEF CallsInv, Holds
    <3> SUFFICES ASSUME NEW e \in Call, e > d, conf[e] = conf[d]
                 PROVE  worker[e][p].pc \notin {"publish", "clear"}
      BY <3>1 DEF LastWord
    <3>4. e # c
      BY <1>3, <3>3
    <3>5. QED
      BY <1>3, <2>1, <3>1, <3>4 DEF LastWord
  <2>2. QED
    BY <1>1, <1>2, <1>3, <2>1 DEF ShownIsFound
<1>8. QED
  BY <1>4, <1>5, <1>6, <1>7 DEF ShownInv

(* A call that is stopped or returns stays in its place. *)
LEMMA EndKeepsShown ==
  ASSUME HookInv, ShownInv, NEW c \in Call, Deadline(c) \/ HookReturns(c)
  PROVE  ShownInv'
<1>1. /\ ConfigHookTypeOK
      /\ OrderInv /\ OwnedInv /\ SavingInv /\ ShownIsFound
  BY DEF HookInv, ShownInv
<1>2. /\ hook[c] = "running"
      /\ hook' = [hook EXCEPT ![c] = "returned"] \/ hook' = hook
      /\ UNCHANGED <<conf, worker, models, injected>>
  BY DEF Deadline, HookReturns
<1>3. \A d \in Call : /\ hook'[d] = "idle" <=> hook[d] = "idle"
                      /\ hook[d] = "returned" => hook'[d] = "returned"
  BY <1>1, <1>2 DEF ConfigHookTypeOK
<1>4. OrderInv'
  BY <1>1, <1>2, <1>3 DEF OrderInv
<1>5. OwnedInv' /\ SavingInv'
  BY <1>1, <1>2 DEF OwnedInv, SavingInv, UsersOnly
<1>6. ShownIsFound'
  BY <1>1, <1>2 DEF ShownIsFound, LastWord
<1>7. QED
  BY <1>4, <1>5, <1>6 DEF ShownInv

(* Steps that touch no call and no config object change nothing of this. *)
LEMMA RestKeepsShown ==
  ASSUME ShownInv, UNCHANGED <<hook, conf, worker, models, injected>>
  PROVE  ShownInv'
BY DEF ShownInv, OrderInv, OwnedInv, SavingInv, UsersOnly, ShownIsFound, LastWord

(* Nothing has been found or shown at first. *)
LEMMA ShownInvInit == ConfigHookInit => ShownInv
<1> SUFFICES ASSUME ConfigHookInit
             PROVE  ShownInv
  OBVIOUS
<1>1. \A c \in Call : hook[c] = "idle" /\ conf[c] = None
  BY DEF ConfigHookInit
<1>2. \A c \in Call, p \in Provider : worker[c][p].pc = "off"
  BY DEF ConfigHookInit, Off
<1>3. \A x \in Config, p \in Provider : models[x][p] = Authored[p]
  BY DEF ConfigHookInit
<1>4. QED
  BY <1>1, <1>2, <1>3 DEF ShownInv, OrderInv, OwnedInv, SavingInv, ShownIsFound

(* What a worker settled on last is what its config object shows, together  *)
(* with the user's own models: a result that comes after the hook has       *)
(* returned, a slower provider or an earlier call do not get in its way.    *)
THEOREM ShownIsFoundHolds == ConfigHookSpec => []ShownIsFound
<1>1. HookInv /\ ShownInv /\ [ConfigHookNext]_vars => ShownInv'
  <2> SUFFICES ASSUME HookInv, ShownInv, [ConfigHookNext]_vars
               PROVE  ShownInv'
    OBVIOUS
  <2>1. ASSUME NEW p \in Provider, Expire(p) \/ \E m \in Overridable : EditOverrides(p, m)
        PROVE  ShownInv'
    BY <2>1, RestKeepsShown DEF Expire, EditOverrides
  <2>2. CASE UNCHANGED vars
    BY <2>2, RestKeepsShown DEF vars
  <2>3. QED
    BY <2>1, <2>2, WorkerKeepsShown, StartKeepsShown, EndKeepsShown DEF ConfigHookNext
<1>2. ShownInv => ShownIsFound
  BY DEF ShownInv
<1>3. QED
  BY <1>1, <1>2, ShownInvInit, HookInvHolds, PTL DEF ConfigHookSpec

=============================================================================
