----------------------------- MODULE ConfigHook -----------------------------
(***************************************************************************)
(* The plugin's startup path: the config hook of src/src/plugin, its       *)
(* enhanceConfig with one worker per provider, and the ProviderModelStore  *)
(* the workers share.                                                      *)
(*                                                                         *)
(* Each call of the hook runs on one config object, under one deadline.    *)
(* Workers run concurrently and are split at every await that leaves the   *)
(* process (file or socket); calls on different config objects, of one or  *)
(* of several processes, share nothing but the files.  A process may stop  *)
(* anywhere: no step of a worker is obliged to happen.                     *)
(*                                                                         *)
(* A model's configuration is a function of three fields that stand for    *)
(* all the leaves: "id"; "facts", what the provider's answer and its       *)
(* metadata say; and "variants", what the reasoning pipeline derives.  A   *)
(* value is Unset, the endpoint or the reasoning configuration it came     *)
(* from, the name of the layer that set it, or "own", the id the model was *)
(* discovered under.  A reasoning configuration is everything variants are *)
(* derived from; its fingerprint tells some of it.  Fields named like a    *)
(* credential, which saving drops, are not among them.                     *)
(***************************************************************************)
EXTENDS Naturals

CONSTANTS
  Provider,    \* providers that are configured and not delegated to the host
  Cached,      \* those with cache.enabled
  WithInfo,    \* those whose modelInfoFormat asks a second endpoint
  Model,       \* model ids
  Config,      \* config objects handed to the hook
  Url,         \* endpoints (base URL and models path)
  Reasoning,   \* reasoning configurations, with policy, SDK, limits and metadata
  Fingerprint, \* what computeReasoningFingerprint returns
  FingerprintOf, \* [Reasoning -> Fingerprint]; several may share one
  Authored,    \* [Provider -> ModelMap]: models the user wrote in the config
  Answers,     \* per provider: the sets of ids a request may be answered with
  Overridable, \* the models the user gives an override
  Settings,    \* what the config objects may imply, see "settings"
  None,        \* no file, no model, no config
  Unset,       \* an absent field
  MaxCalls     \* bound of the model on calls of the hook

Call  == 1..MaxCalls
Field == {"id", "facts", "variants"}
Value == {Unset, "own", "authored", "saved"} \cup Url \cup Reasoning

ModelConfig == [Field -> Value]
ModelMap    == [Model -> ModelConfig \cup {None}]
NoModels    == [m \in Model |-> None]

File == [url : Url, fresh : BOOLEAN, models : ModelMap, overrides : ModelMap, fp : Fingerprint]

Outcome == {"publish", "clear", "skip", "aborted"}
Worker  == [pc : {"off", "read", "auth", "models", "info", "save"} \cup Outcome,
            cached : File \cup {None}, found : ModelMap, existing : ModelMap]

ASSUME ConfigHookAssumption ==
  /\ MaxCalls \in Nat
  /\ None \notin ModelConfig \cup File \cup Config
  /\ Cached \subseteq Provider
  /\ WithInfo \subseteq Provider
  /\ Authored \in [Provider -> ModelMap]
  /\ Answers \in [Provider -> SUBSET SUBSET Model]
  /\ Overridable \subseteq Model
  /\ FingerprintOf \in [Reasoning -> Fingerprint]
  /\ Settings \subseteq [Config -> [url : Url, reasoning : Reasoning]]
  /\ Unset \notin {"own", "authored", "saved"} \cup Url \cup Reasoning
  /\ \A u \in Url, r \in Reasoning :
       /\ u \notin {"own", "authored", "saved"}
       /\ r \notin {"own", "authored", "saved"}

ASSUME AuthoredAssumption ==
  \A p \in Provider, m \in Model :
    Authored[p][m] # None => \A f \in Field : Authored[p][m][f] \in {Unset, "authored"}

VARIABLES
  hook,     \* per call: "idle", "running" or "returned"
  conf,     \* per call: the config object it was given
  aborted,  \* per call: the signal of its AbortController
  worker,   \* per call and provider
  models,   \* per config object: provider.models
  injected, \* per config object: the models that are the plugin's own objects
  store,    \* per provider: its file
  settings  \* per config object: the endpoint and the reasoning it implies

vars == <<hook, conf, aborted, worker, models, injected, store, settings>>

Off == [pc |-> "off", cached |-> None, found |-> NoModels, existing |-> NoModels]

ConfigHookTypeOK ==
  /\ hook \in [Call -> {"idle", "running", "returned"}]
  /\ conf \in [Call -> Config \cup {None}]
  /\ aborted \in [Call -> BOOLEAN]
  /\ worker \in [Call -> [Provider -> Worker]]
  /\ models \in [Config -> [Provider -> ModelMap]]
  /\ injected \in [Config -> [Provider -> SUBSET Model]]
  /\ store \in [Provider -> File \cup {None}]
  /\ settings \in [Config -> [url : Url, reasoning : Reasoning]]

ConfigHookInit ==
  /\ hook = [c \in Call |-> "idle"]
  /\ conf = [c \in Call |-> None]
  /\ aborted = [c \in Call |-> FALSE]
  /\ worker = [c \in Call |-> [p \in Provider |-> Off]]
  /\ models = [x \in Config |-> Authored]
  /\ injected = [x \in Config |-> [p \in Provider |-> {}]]
  /\ store = [p \in Provider |-> None]
  /\ settings \in Settings

-----------------------------------------------------------------------------
(* The assembly of a provider's models                                     *)

(* mergeModelOverride: the upper layer wins field by field, but the id is  *)
(* the lower one's.                                                        *)
Merge(base, over) ==
  [f \in Field |-> IF f = "id" \/ over[f] = Unset THEN base[f] ELSE over[f]]

(* A layer laid over the models that are there; it adds none. *)
Overlay(found, over) ==
  [m \in Model |-> IF found[m] = None \/ over[m] = None THEN found[m]
                   ELSE Merge(found[m], over[m])]

(* Mutant: the discovered configuration is laid over the explicit one. *)
WithExplicitBelow(found, existing) ==
  [m \in Model |-> IF existing[m] = None THEN found[m]
                   ELSE IF found[m] = None THEN existing[m]
                   ELSE Merge(existing[m], found[m])]

(* The explicit configuration last; explicit models not found stay.        *)
WithExplicit(found, existing) ==
  [m \in Model |-> IF existing[m] = None THEN found[m]
                   ELSE IF found[m] = None THEN existing[m]
                   ELSE Merge(found[m], existing[m])]

(* Mutant: whatever is in the config is taken for the user's. *)
ExplicitAll(x, p) == models[x][p]

(* getExplicitModels: whatever is not an object the plugin put there.      *)
Explicit(x, p) == [m \in Model |-> IF m \in injected[x][p] THEN None ELSE models[x][p][m]]

(* The configurations the worker builds for the ids that passed the filters. *)
Built(x) == [f \in Field |-> IF f = "id" THEN "own"
                             ELSE IF f = "facts" THEN settings[x].url ELSE settings[x].reasoning]

Discovered(x, ids) == [m \in Model |-> IF m \in ids THEN Built(x) ELSE None]

(* computeCurrentReasoningFingerprint *)
CurrentFingerprint(x) == FingerprintOf[settings[x].reasoning]

(* Mutant: cached variants are trusted. *)
KeepVariants(x, file) == file.models

(* invalidateStaleReasoningVariants: variants of another fingerprint go,   *)
(* those of another configuration with the same fingerprint stay.          *)
CurrentVariants(x, file) ==
  IF file.fp = CurrentFingerprint(x) THEN file.models
  ELSE [m \in Model |-> IF file.models[m] = None THEN None
                        ELSE [file.models[m] EXCEPT !["variants"] = Unset]]

Overrides(file) == IF file = None THEN NoModels ELSE file.overrides

-----------------------------------------------------------------------------
(* The ProviderModelStore                                                  *)

(* Mutant: the file is chosen by the provider's name only. *)
AnyIdentity(x, file) == TRUE

SameIdentity(x, file) == file.url = settings[x].url

(* read: a file of another endpoint, or none, is a miss. *)
Persisted(x, p) ==
  IF store[p] # None /\ SameIdentity(x, store[p]) THEN store[p] ELSE None

(* Mutant: no state read earlier, no overrides at all. *)
NewFileUnset(x, w) ==
  [url |-> settings[x].url, fresh |-> TRUE, models |-> w.found,
   overrides |-> IF w.cached = None THEN None ELSE w.cached.overrides, fp |-> CurrentFingerprint(x)]

(* saveModels: the overrides are those of the state read earlier. *)
NewFile(x, w) ==
  [url |-> settings[x].url, fresh |-> TRUE, models |-> w.found,
   overrides |-> Overrides(w.cached), fp |-> CurrentFingerprint(x)]

-----------------------------------------------------------------------------
(* The workers                                                             *)

Goto(c, p, w) == worker' = [worker EXCEPT ![c][p] = w]

Settle(c, p, kind, found) ==
  Goto(c, p, [pc |-> kind, cached |-> None, found |-> found, existing |-> NoModels])

(* Mutant: nobody looks at the signal. *)
MayPublishLate(c) == TRUE

(* The checks of the signal before and at publication.  Both are made in   *)
(* one turn of the event loop, in which the signal cannot change.          *)
MayPublish(c) == ~aborted[c]

(* A settled worker with its models and what was in the config before. *)
Publish(c, p, found, overrides, existing) ==
  LET own == Overlay(found, overrides) IN
  IF MayPublish(c)
  THEN /\ Settle(c, p, "publish", found)
       /\ models' = [models EXCEPT ![conf[c]][p] = WithExplicit(own, existing)]
       /\ injected' = [injected EXCEPT ![conf[c]][p] =
                         {m \in Model : own[m] # None /\ existing[m] = None}]
  ELSE /\ Settle(c, p, "aborted", NoModels)
       /\ UNCHANGED <<models, injected>>

(* The state is read; a fresh one is published without any request.        *)
ReadStore(c, p) ==
  /\ worker[c][p].pc = "read"
  /\ LET file == Persisted(conf[c], p) IN
       IF file # None /\ file.fresh
       THEN Publish(c, p, CurrentVariants(conf[c], file), file.overrides, Explicit(conf[c], p))
       ELSE /\ Goto(c, p, [worker[c][p] EXCEPT !.pc = "auth", !.cached = file])
            /\ UNCHANGED <<models, injected>>
  /\ UNCHANGED <<hook, conf, aborted, store, settings>>

(* getProviderApiKey; the last look at the signal before the request.      *)
Authorize(c, p) ==
  /\ worker[c][p].pc = "auth"
  /\ IF aborted[c] THEN Settle(c, p, "aborted", NoModels)
     ELSE Goto(c, p, [worker[c][p] EXCEPT !.pc = "models"])
  /\ UNCHANGED <<hook, conf, aborted, models, injected, store, settings>>

(* The loop over the models and, with a cache, the file written after it.  *)
Assemble(c, p, w, found) ==
  IF p \in Cached
  THEN /\ Goto(c, p, [w EXCEPT !.pc = "save", !.found = found, !.existing = Explicit(conf[c], p)])
       /\ UNCHANGED <<models, injected>>
  ELSE Publish(c, p, found, NoModels, Explicit(conf[c], p))

(* The provider answers; once the signal has fired a request only fails.   *)
ModelsAnswer(c, p, ids) ==
  /\ worker[c][p].pc = "models"
  /\ ~aborted[c]
  /\ IF p \in WithInfo
     THEN /\ Goto(c, p, [worker[c][p] EXCEPT !.pc = "info", !.found = Discovered(conf[c], ids)])
          /\ UNCHANGED <<models, injected>>
     ELSE Assemble(c, p, worker[c][p], Discovered(conf[c], ids))
  /\ UNCHANGED <<hook, conf, aborted, store, settings>>

(* clear-explicit: an expired inventory is not shown any longer. *)
Clear(c, p) ==
  /\ Settle(c, p, "clear", NoModels)
  /\ models' = [models EXCEPT ![conf[c]][p] = Explicit(conf[c], p)]
  /\ injected' = [injected EXCEPT ![conf[c]][p] = {}]

ModelsFail(c, p) ==
  /\ worker[c][p].pc = "models"
  /\ IF p \in Cached /\ ~aborted[c] THEN Clear(c, p)
     ELSE /\ Settle(c, p, IF aborted[c] THEN "aborted" ELSE "skip", NoModels)
          /\ UNCHANGED <<models, injected>>
  /\ UNCHANGED <<hook, conf, aborted, store, settings>>

(* The metadata endpoint answers, and takes out the models that are no chat *)
(* models, or fails, and everything stays.                                   *)
InfoReturns(c, p) ==
  /\ worker[c][p].pc = "info"
  /\ \E chat \in IF aborted[c] THEN {Model} ELSE Answers[p] \cup {Model} :
       Assemble(c, p, worker[c][p],
                [m \in Model |-> IF m \in chat THEN worker[c][p].found[m] ELSE None])
  /\ UNCHANGED <<hook, conf, aborted, store, settings>>

(* The catch of the worker: an exception while models are assembled. *)
WorkerThrows(c, p) ==
  /\ worker[c][p].pc \in {"models", "info"}
  /\ Settle(c, p, IF aborted[c] THEN "aborted" ELSE "skip", NoModels)
  /\ UNCHANGED <<hook, conf, aborted, models, injected, store, settings>>

(* Temporary file and rename; a failure of either is reported and ignored. *)
SaveReturns(c, p) ==
  LET w == worker[c][p] IN
  /\ w.pc = "save"
  /\ \/ store' = [store EXCEPT ![p] = NewFile(conf[c], w)]
     \/ UNCHANGED store
  /\ Publish(c, p, w.found, Overrides(w.cached), w.existing)
  /\ UNCHANGED <<hook, conf, aborted, settings>>

-----------------------------------------------------------------------------
(* The hook                                                                *)

Begin(p) == [Off EXCEPT !.pc = IF p \in Cached THEN "read" ELSE "auth"]

(* A call on config object x.  The host waits for a call to return before  *)
(* it hands the same object to another.                                     *)
StartHook(c, x) ==
  /\ hook[c] = "idle"
  /\ \A d \in Call : /\ d < c => hook[d] # "idle"
                     /\ conf[d] = x => hook[d] = "returned"
  /\ hook' = [hook EXCEPT ![c] = "running"]
  /\ conf' = [conf EXCEPT ![c] = x]
  /\ worker' = [worker EXCEPT ![c] = [p \in Provider |-> Begin(p)]]
  /\ UNCHANGED <<aborted, models, injected, store, settings>>

(* The deadline's timer. *)
Deadline(c) ==
  /\ hook[c] = "running"
  /\ ~aborted[c]
  /\ aborted' = [aborted EXCEPT ![c] = TRUE]
  /\ UNCHANGED <<hook, conf, worker, models, injected, store, settings>>

AllSettled(c) == \A p \in Provider : worker[c][p].pc \in Outcome

(* Mutant: the hook awaits the workers and no timer. *)
AwaitsWorkers(c) == AllSettled(c)

(* The race of the workers and the second timer, which the deadline's      *)
(* precedes.                                                                *)
RaceOver(c) == AllSettled(c) \/ aborted[c]

HookReturns(c) ==
  /\ hook[c] = "running"
  /\ RaceOver(c)
  /\ hook' = [hook EXCEPT ![c] = "returned"]
  /\ aborted' = [aborted EXCEPT ![c] = TRUE]
  /\ UNCHANGED <<conf, worker, models, injected, store, settings>>

-----------------------------------------------------------------------------
(* The world around the plugin                                             *)

(* The time to live of a file runs out, or the user invalidates it. *)
Expire(p) ==
  /\ store[p] # None
  /\ store[p].fresh
  /\ store' = [store EXCEPT ![p].fresh = FALSE]
  /\ UNCHANGED <<hook, conf, aborted, worker, models, injected, settings>>

(* An override may name an id, which merging passes over. *)
SavedOverride == [f \in Field |-> IF f = "facts" THEN Unset ELSE "saved"]

(* The user, guided by /models-discovery:config, sets a model's override.  *)
EditOverrides(p, m) ==
  /\ store[p] # None
  /\ store' = [store EXCEPT ![p].overrides[m] = SavedOverride]
  /\ UNCHANGED <<hook, conf, aborted, worker, models, injected, settings>>

WorkerStep(c, p) ==
  \/ ReadStore(c, p)
  \/ Authorize(c, p)
  \/ \E ids \in Answers[p] : ModelsAnswer(c, p, ids)
  \/ ModelsFail(c, p)
  \/ InfoReturns(c, p)
  \/ WorkerThrows(c, p)
  \/ SaveReturns(c, p)

ConfigHookNext ==
  \/ \E c \in Call, x \in Config : StartHook(c, x)
  \/ \E c \in Call : Deadline(c)
  \/ \E c \in Call : HookReturns(c)
  \/ \E c \in Call, p \in Provider : WorkerStep(c, p)
  \/ \E p \in Provider : Expire(p)
  \/ \E p \in Provider, m \in Overridable : EditOverrides(p, m)

(* The timers fire.  No provider has to answer and no file to be written.  *)
TimersFire == \A c \in Call : WF_vars(Deadline(c)) /\ WF_vars(HookReturns(c))

ConfigHookSpec == ConfigHookInit /\ [][ConfigHookNext]_vars /\ TimersFire

-----------------------------------------------------------------------------
(* Properties                                                              *)

(* The models the user wrote are in the config at all times, with every     *)
(* field the user wrote but the id, whatever was discovered, cached,        *)
(* overridden, failed or came too late.  The id is the user's, or the one   *)
(* the model was discovered under, never that of another layer.             *)
AuthoredKept ==
  \A x \in Config, p \in Provider, m \in Model :
    Authored[p][m] # None =>
      /\ models[x][p][m] # None
      /\ models[x][p][m]["id"] \in {Authored[p][m]["id"], "own"}
      /\ \A f \in Field \ {"id"} :
           Authored[p][m][f] # Unset => models[x][p][m][f] = Authored[p][m][f]

(* "Late results must never mutate config": a config object changes only    *)
(* while a call on it has yet to return.                                     *)
UntouchedAfterReturn ==
  [][ \A x \in Config : models'[x] # models[x] =>
        \E c \in Call : conf[c] = x /\ hook[c] = "running" /\ hook'[c] = "running" ]_vars

(* No later call has replaced what call c did to provider p. *)
LastWord(c, p) ==
  \A d \in Call : d > c /\ conf[d] = conf[c] => worker[d][p].pc \notin {"publish", "clear"}

(* What a worker settled on is what its config shows, with the user's own   *)
(* models and nothing else, whether the other workers have settled or hang; *)
(* after a failed refresh no model of an expired inventory is left.  A model *)
(* that was found goes by the id it was found under: neither an explicit nor *)
(* a saved id renames it.                                                    *)
ShownIsFound ==
  \A c \in Call, p \in Provider :
    worker[c][p].pc \in {"publish", "clear"} /\ LastWord(c, p) =>
      \A m \in Model :
        /\ models[conf[c]][p][m] # None
             <=> worker[c][p].found[m] # None \/ Authored[p][m] # None
        /\ worker[c][p].found[m] # None => models[conf[c]][p][m]["id"] = "own"

(* No automatic variant is shown that was derived under a configuration of   *)
(* another fingerprint: through files that change hands between config       *)
(* objects, a change of anything the fingerprint tells (transport, aliases,  *)
(* metadata source and content, registry) takes the old variants with it.    *)
(* What the fingerprint does not tell (capability policy, SDK, output limit, *)
(* the provider's own metadata) is not covered: those variants stay, against *)
(* the header of cache-fingerprint.ts (see the README).                      *)
VariantsCurrent ==
  \A x \in Config, p \in Provider, m \in Model :
    models[x][p][m] # None =>
      models[x][p][m]["variants"] \in
        {Unset, "authored", "saved"}
          \cup {r \in Reasoning : FingerprintOf[r] = CurrentFingerprint(x)}

(* No provider shows what was discovered at another endpoint, though both   *)
(* endpoints' inventories go to the one file of the provider.                *)
FactsFromOwnEndpoint ==
  \A x \in Config, p \in Provider, m \in Model :
    models[x][p][m] # None =>
      models[x][p][m]["facts"] \in {Unset, "authored", "saved", settings[x].url}

(* The hook returns by its deadline, though no provider ever answers and no *)
(* file system call returns.                                                 *)
HookEnds == \A c \in Call : hook[c] = "running" ~> hook[c] = "returned"

=============================================================================
