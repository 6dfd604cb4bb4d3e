# Verification of opencode-models-discovery

TLA+ models of the plugin and of its V3 discovery runtime, TLC runs that check them on
small instances, and TLAPS proofs that hold for every value of the constants.

Run a model with `tlc -config MCX.cfg MCX.tla` and a proof with `tlapm XProofs.tla`.
Source paths below are relative to the repository.

## 1. Inventory

The repository holds two discovery systems that share little code.

**The plugin** (`src/plugin`, what OpenCode 1.x loads). The host calls its `config`
hook with a config object; `enhanceConfig` starts one worker per provider, each
asks the provider which models it has, and publishes them into
`provider.<id>.models`. An optional file per provider caches the inventory and
holds the user's overrides.

**The V3 runtime** (`src/discovery`, `src/cache`, `src/entrypoints`, `src/host`).
A runtime owns a coordinator, which decides what may be shown for the identity of
the moment, and persists what the coordinator accepted; inventories, tombstones,
a lock and an installation secret are on disk.

| Component | State | Operations | Interacts with | Hard |
|---|---|---|---|---|
| state machine (`state-machine.ts`) | projection × refresh | `reduceDiscovery` | called by the coordinator | every event in every state |
| projector (`projector.ts`) | none | `projectRoutes` | called by the coordinator | which routes are callable |
| coordinator (`coordinator.ts`) | identity, epoch, active job, projection | `observeIdentity`, `applyLocalLkg`, `beginRefresh`, `completeRefresh`, `dispose` | reducer, projector; callers keep tokens across awaits | late, repeated and refused completions |
| runtime (`promise-runtime.ts`) | context, active token, `lastCompleteAtMs` | `initialize`, `refreshNow`, `runActiveRefresh`, `maybeBeginTtlRefresh`, `dispose` | coordinator, adapter, stores, barrier, scheduler | every await; crash; credential rotation |
| persistence and stores (`refresh-persistence.ts`, `inventory-store.ts`, `tombstone-store.ts`) | files | `applyRefreshCompletion`, `loadStartupCacheState` | runtime | order of writes |
| scheduler, startup barrier | last success; setup time | `classifySchedulePhase`, `canStartFetch` | runtime | phases, grace |
| entrypoints (`v2-promise.ts`, `v2-effect.ts`) | none | set-up, `refreshNow`, finalisers | runtime | what runs in one stretch |
| cache lock (`lock.ts`) | a directory and its manifest | `acquireCacheLock`, `release` | other processes | takeover, crash, expiry |
| installation secret | one file | `loadOrCreateInstallationSecret` | other processes | creation race, crash |
| config hook, `enhanceConfig` | config objects, injected objects, abort signals | the hook, its workers | providers, store, host | deadline against late results; partial results |
| provider model store | one file per provider | `read`, `saveModels` | workers, the user | files of another endpoint or fingerprint |
| adapters, HTTP clients | none | one fetch per refresh | runtime, workers | what counts as complete |
| host backends, whitelists | owned entries; snapshot | `applyProjection`, `publish`, `transform` | projector, host | ownership over time |
| credentials, identity, provider plan | none | resolution, hashing | runtime | precedence |
| metadata revisions, quarantine, projections, migration | files | save, load, prune | scripts, persistence | acceptance, pruning |
| capabilities, reasoning, relay, registry | indexes | pure resolution | `enhanceConfig`, CLI | precedence, conflicts |
| shell: CLI, commands, logger, toasts, scripts | little | reports | user | none of it concurrent |

What makes each correct is stated with its model below; section 7 says what is not
modelled and why.

## 2. Modules

| Module | Models | Code it stands for |
|---|---|---|
| `DiscoveryMachine` | the reducer, one operator per event | `discovery/state-machine.ts` |
| `Projector` | `projectRoutes` on sets of routes | `discovery/projector.ts` |
| `PublicationGate` | abstract: what a coordinator promises its host | — |
| `Coordinator` | the class, one action per method; extends the first two; refines the gate | `discovery/coordinator.ts` |
| `Runtime` | the runtime around a coordinator, disk, clock, crashes; extends `Coordinator` | `entrypoints/*`, `refresh-persistence.ts`, `scheduler.ts`, `startup-barrier.ts`, both stores |
| `DirectHttp` | one HTTP exchange, one action per socket event | `utils/direct-http.ts` |
| `HttpClient` | the request loop over hops; extends `DirectHttp` | `discovery/http-client.ts` |
| `Inventory` | the adapters over the client, and the startup path's list; extends `HttpClient` | `discovery/adapters/*`, `utils/openai-compatible-api.ts` |
| `Hosts` | what V1, V2 and fresh-draft hosts show; instantiates `Projector` | `host/*`, `discovery/visibility/*` |
| `SafeFile` | a JSON file written aside and renamed | `cache/safe-file.ts` |
| `Stores` | metadata revisions, quarantine, projections; extends `SafeFile` | `metadata/*`, `cache/quarantine-store.ts`, `cache/projection-store.ts` |
| `CacheLock` | the lock, one action per file system call | `cache/lock.ts` |
| `InstallationSecret` | the key file, one action per call | `cache/installation-secret.ts` |
| `ConfigHook` | the hook, its workers and the provider files | `plugin/config-hook.ts`, `enhance-config.ts`, `provider-model-store.ts` |
| `Evidence` | records of evidence, their sources and their merging | `capabilities/evidence*.ts`, `capabilities/sources/*` |
| `Capabilities` | the catalogue, two official parsers, the plan of variants; extends `Evidence` | `capabilities/catalog.ts`, `indexes.ts`, `reasoning/variant-plan.ts` and the parsers |
| `Reasoning` | identity, controls, transport and variants of one discovered model | `reasoning/*`, `reasoning/registry/*` |
| `Variants` | both ways to variants side by side; extends the two above | — |
| `*Proofs` | theorems about the module they are named after; `RuntimeProofs` also about `Coordinator`, `VariantsProofs` about the three modules it extends | |
| `MC*` | instances for TLC | |

How they correspond to the code:

*Coordinator.* The methods are synchronous, so a method is an action. A call that
returns early and changes nothing is a stuttering step. The history variable
`issued` holds every token ever handed out, and any of them may be completed at
any time, so that lateness, repetition and disposal need no modelling of callers.
Route lists are sets of `[key, ready]`; hashes are model values, so hashing is
taken to be injective. The `reply` is the result of the last `completeRefresh`.

*Runtime.* `initialize()` and `runActiveRefresh()` are cut at their awaits:
resolving, two file reads in either order, activation; fetching, persisting. The
two reads of `loadStartupCacheState` and the writes of other runs interleave
freely. `beginRefresh` and the start of the run are one action, because both
entrypoints make the two calls without an await in between. `Restart` keeps only the disk.

*DirectHttp, HttpClient.* A body arrives in units, whose size is nobody's business
but the cap's, and is delimited by length, by chunks or by the close. `Verdict` is
`responseBody` and `parseChunkedBody`; an exchange settles once, on whichever of the
verdict, timer, close, error and abort comes first. A body cut short by a close is
handed over as a text that does not parse, which is what half a JSON document is.
`Hop` is the top of the loop with its gates, `Follow` the handling of one redirect,
`Continue` the rest of its body. `sent` is a history variable: what was put on the
wire with which headers.

*Inventory.* An adapter is the sequence of its requests: `inv.stage` names the one
awaited, and each action is the continuation of one `await`. The provider has a
catalogue that stands still during a fetch, and answers with it, with one of the
damages the adapters look for, with a status, a redirect or nothing. Four adapters
for plans that cannot be enumerated answer alike and are one, `stub`. `compat` is
the list request of the startup path, which does not follow redirects. The routes of a
fetch are a set: the code's arrays and `Map`s are read for what they contain and for
how many they are, which gives the next offset.

*Hosts.* No file of `src/` calls the backends yet, so any sequence of drafts with
growing epochs is taken, each made by `Projector` behind the user's whitelist. The
three kinds of host are three ways a behaviour may go. `models` is the config object
the user edits too, `record` the ownership record, `snapshot` and `reload` the
published catalogue and the advice; `wanted` and `since` are history variables.

*SafeFile, Stores.* A write is open, then rename, and a process is cut at every
access to the disk. Metadata updates come from any process, after a load, in the
order the comment of `saveVerifiedSnapshot` asks for; nobody but tests calls it yet.
A model's entry is its reasoning signature, a quarantine entry its time.

*CacheLock.* Times are ages, because the code only ever compares `now() - t` with
the time to live. The recursive removal is one step. A process stands for the
random token of its attempt.

*ConfigHook.* A worker is cut at every await that leaves the process: reading the
file, credentials, the models request, the metadata request, saving. The stretch
from the last await to the publication is one action, and the abort signal is
looked at where the code looks. A configuration of a model has three fields that
stand for all: `id`, which merging passes over; `facts` (what the provider and its
metadata say); and `variants` (what the reasoning pipeline derives). Their values name
the layer they come from. Merging is recursive in the code; the fields are its leaves.
A config object implies a reasoning configuration, everything variants are derived from,
of which the fingerprint tells some: several may share one. `injected` is the `WeakMap` of the plugin's own objects, by which
`getExplicitModels` tells them from the user's. Filters and enrichers are a
choice of ids.

*Evidence, Capabilities.* Records are the code's, with arrays of values as sets and
times and ids as numbers. `Before` is `compareRecords`; it is a total order when ids differ.
`ResolveValues` states in closed form what `resolveClaim` accumulates in a loop: the values
of the records down to the first exhaustive one; `Add` states what binding a set of
records leaves in the catalogue. Parsers of DeepSeek's and
OpenRouter's statements are modelled; every other source is a set of drafts, which
`Finish` accepts, completes or refuses as the factories do.

*Reasoning.* Enriching a model is one synchronous call, so it is one action on a
`question` that holds all inputs. An id is a path of segments, a revision and a tag,
which is what the functions of `canonical-model.ts` take apart. What an adapter can
express is kept (`SendsEffort`, `SendsToggle`, `SendsBudget`), how it spells it is not.

## 3. Runs

| Run | Instance | Checks |
|---|---|---|
| `coordinator` | 2 identities × 2 generations, one key, 3 epochs, 2 jobs, strict semantics; symmetric | `TypeOK`, `EpochFence`, `OneLiveToken`, `AppliedOnce`, `ShownIsOwned`, `IdleCanRefresh`, `NonCompleteKeepsShow`, `DisposedIsFinal`, refinement `ImplementsGate` |
| `runtime` | 2 × 2 identities, one overlapping `initialize`, one job per process, one restart, complete inventories and denials | `RuntimeTypeOK`, `FetchMatchesToken`, `ShownWasPublished`, `DiskWasPublished`, `TombstoneOutlivesCrash` |
| `runtime_live` | one generation, 2 identities, 2 jobs, clock to 3, successes and failures | `JobReleased` under `RunsEnd` |
| `lock` | 3 processes, 2 crashes, ages beyond the time to live | `MutualExclusion`, `NobodyElsesLock`, `NeverWedged` |
| `secret` | 3 processes, 2 failures | `OneSecret`, `AnsweredForGood` |
| `hook` | 2 calls on 1 or 2 config objects, a cached provider with metadata and an uncached one, each with a model of the user's; 2 endpoints, 3 reasoning configurations of 2 fingerprints | `ConfigHookTypeOK`, `AuthoredKept`, `ShownIsFound`, `VariantsCurrent`, `FactsFromOwnEndpoint`, `UntouchedAfterReturn`, `HookEnds` |
| `inventory` | 6 adapters, 5 base URLs, 5 redirect targets, 2 redirects; catalogues of 0, 3 and 5 models read 2 a page, 2 pages; a body cap of one unit | `InventoryTypeOK`, `CompleteIsWhole`, `TombstoneNeedsRejection`, `CredentialStaysHome`, `FetchSettles` |
| `hosts` | 3 keys of which the whitelist admits 2, 2 serialisations, 2 identity changes | `ShownFollowsDraft`, `UsersEntriesSurvive` |
| `stores` | 2 processes, one crash, 6 documents; 4 quarantine entries, cap 2; 2 projections of 2 identities; symmetric | `LoadsAreSound`, `QuarantineKeepsNewest` |
| `variants` | 13 drafts of evidence and OpenRouter's objects, 3 records; 153,600 questions | `VariantsAreEarned`, `EvidenceAccumulates`, `ControlsAreNotGuessed`, `BudgetsWithinCaps` |

Two runs show a documented promise that the code breaks:

| Run | Promise | What happens |
|---|---|---|
| `runtime_wedge` | a changed key is re-discovered within seconds | a rotation observed while a job runs: the completion is stale, the job is never released, no refresh begins again |
| `lock_takeover` | taken over only when provably stale | a contender renames the fresh lock of the one that took the stale one over |

What the less obvious properties say:

- `CompleteIsWhole`: whatever is damaged, cut short, refused or redirected on the
  way, an adapter that answers "complete" lists all the provider has (and all it
  granted, where grants are asked for). Two cases are left out because the code gets them
  wrong (section 6).
- `CredentialStaysHome`: through any chain of redirects a credential is sent only to
  the origin of the first hop, and a chain that leaves and returns does not carry it again.
- `ShownFollowsDraft`: of the entries injected under the identity of the last draft,
  those on show are the ones that draft wants; a V2 host that reloads on advice
  only is nevertheless current; a section has no leftover.
- `LoadsAreSound`: a load that lists a directory and reads its files one by one,
  while others rename into it, returns nothing older than what lay there throughout.
- `QuarantineKeepsNewest`: two processes that append and prune from listings of
  different ages never remove one of the newest entries.
- `UsersEntriesSurvive`: nothing the user wrote under a key that no draft wants is taken
  away. Under a wanted key it says nothing: the code rewrites those on every application.
- `VariantsCurrent`: whatever file it comes from, no variant is shown that was derived
  under another fingerprint. What the fingerprint leaves out it does not speak of.
- `VariantsAreEarned`: every plan is about one tuple on the known surface it was asked for.
  Where no public evidence bears on it and no record that denies support lists values, a
  tier is in it only if somebody declared it, or a value
  that is declared to mean it, for this model on this surface, and nobody whose
  records were added up denied it. Other plans are not said to be earned: the code makes
  them, against `sources/models-dev.ts:9` (section 6).
- `EvidenceAccumulates`: what one record more does to the values of a claim. An unknown
  one does nothing, a partial one without denials takes none away, one behind the
  exhaustive record of another authority changes nothing; an exhaustive one before the
  others replaces them all, silently and with them those of partial records that rank higher.
- `ControlsAreNotGuessed`: an entry may speak for a model by its name, and only if all
  hosts that serve its id say the same. Questions that a disputed id answers are left
  out: the code takes the last host's word there (section 6).
- `NonCompleteKeepsShow`: of the completions that are not complete inventories, none puts
  anything on show, and none but a confirmed authentication failure is said to keep what is.

### Why the bounds are enough

- *Identities.* Two semantic identities and two generations give every way two
  pairs can differ and a return to an earlier one. Three epochs allow away, back
  and disposal; two tokens allow one live and one dead, or two dead ones.
- *Keys.* The projector treats keys independently, so one key that is or is not in
  a list is every case; `Hosts` has two so that a draft may grow and shrink at once,
  and a third that the whitelist refuses.
- *Runtime.* Two jobs give reordering; one restart gives every state a disk can be
  left in. The clock passes the freshness limit and the hard limit.
- *Inventory.* Three models are a full page and a short one, five are more than two
  pages hold. A body of two units is beyond the cap and, cut after one, short.
  Two redirects allow leaving an origin and returning; the third is refused.
- *Stores.* Two processes are a reader and a writer, or two that prune; four entries
  are two beyond the cap. The documents shrink within and beyond the permitted
  share, claim tiers, claim nothing, are empty or damaged, and two share an etag.
- *Variants.* Three records are a best, a peer and one of another authority, which
  is what the merging tells apart. The snapshots have a model served by nobody, by one host,
  by several that agree, by several that differ, under one id and under two; the budgets
  stand on both sides of every cap; the output limits are none, one token, two, and enough.
- *Lock.* Three processes are a holder, one that judges and one that interferes;
  two crashes, one of the holder and one of its successor.
- *Hook.* Two calls are enough for one to see, or to overwrite, what another left,
  on the same object or through the files. The user's model is among the answers and
  is not, so both sides of every overlay are met. The second config object differs from
  the first in the fingerprint, in what it leaves out, or in the endpoint.
- Constants named `Max…` are bounds of the model, except `MaxRedirects`, `MaxPages`,
  `MaxModels`, `MaxBytes` and `MaxDeletes`, which are the code's limits made small. The
  theorems hold for all of them.

Deadlock is checked for the lock, the secret and the hosts. It is not for the others,
which really stop: disposed, with every call returned, with the fetch done, with the
clock at its bound, or with the question answered.

## 4. Fairness

Safety runs assume none. Where there is some:

- `RunsEnd` (Runtime): a fetch, a write and the stretches of `initialize()` end.
  That a fetch ends is `FetchSettles` of `Inventory`; the file system answers or
  fails; nothing is assumed of the host, which need not poll, rotate or dispose.
- `Fairness` (Inventory): the continuation of a settled promise runs (`Proceed`) and
  the timer of an exchange fires (`TimesOut`). The provider owes nothing: it may fall
  silent in the middle of any body.
- `LockFairSpec`: time passes, processes that are not dead go on, and a write that
  could succeed again and again does so once (strong fairness on `WriteManifest`:
  a disk that is always full when it matters is excluded). Nothing makes a holder
  release: `NeverWedged` rests on the takeover.
- `TimersFire` (ConfigHook): only the hook's own timers. No provider has to answer
  and no file operation to return, so `HookEnds` holds with every worker hung.

## 5. Proofs

Every theorem is checked for all constants that satisfy the named assumptions of
its module (types, and that `None`, `Unset` and the like are different from the
data). Assumptions are evaluated by the runs.

**RuntimeProofs, the coordinator.** `IInv` adds to the type invariant what ties the three
notions of "current" the code keeps apart: job numbers are dealt once and in order
(`TokensInv`); the active job was issued, in this epoch, for this semantic identity,
and has not been applied (`ActiveJobInv`); the reducer is refreshing only while there
is an active job, and disposed exactly when the coordinator is (`SlotInv`); what is
on show has a source with the subject of the moment (`SourceInv`). Without the first
two a late token could equal the live one; without the third a manual trigger could
be swallowed. One lemma per method shows `IInv` is kept. From it: `TypeCorrect`, `Fence`,
`SingleFlight`, `NoDoubleApply`, `Ownership`, `ManualRefreshPossible`, and
`Refinement`: the coordinator implements `PublicationGate`, step by step. With
"routes are on show only in a fresh draft" (`FreshInv`) also
`OnlyCompleteReplaces`; `DisposalIsFinal` needs no invariant.

**RuntimeProofs, the runtime.** A step of the runtime is one of the coordinator's, a restart, which
is `Init` again, or leaves the coordinator alone (`CoordinatorSteps`), so `IInv` is
kept without a second proof. `RestInv` adds what the awaits of the runtime must
carry over: the context is the coordinator's identity as long as it lives; what a
start has read was published for its subject, and a denial that lay on disk is known
to it once the tombstone is read (`BootInv`); a run fetches for the pair of its token,
and what it is about to persist was published or denied for that pair (`RunsInv`); a
denial found at the start is still on disk. From it: `RuntimeTypes`,
`FetchIsForToken`, `DiskIsPublished`, `ShownIsPublished`, `DenialOutlivesCrash`, and
`GateBetweenCrashes`: between two crashes the runtime, with its files, starts and runs, shows
only what `PublicationGate` allows.

How `runtime_wedge` comes about and ends is proved too. A job is `Lost` when it is
active and its run no longer fetches. `NumberInv` (the run of job *j* is for the token
numbered *j*) makes the run that could complete the active job the one of its number
(`SameNumber`), and `JobStep` lists what a step does to an active job. So a job is
lost in one way only, by a completion answered "stale-job" under a rotated
generation (`LostToRotation`), and a lost job stays, with no refresh begun, until the
epoch changes or the process restarts (`LostForGood`); `runtime_wedge` shows the
behaviour in which neither happens.

**CacheLockProofs.** `LockInv` is, as long as no lock has outlived its time to
live: nothing at the lock is stale, whoever owns the lock made the directory, nobody
is in the takeover path, and a manifest about to be written is no older than its
directory. Mutual exclusion (`LockIsExclusive`) and `LockIsRespected` (nobody
removes another's lock) follow. The
proviso is needed: after an expiry the code does not exclude (`lock_takeover`).

**InstallationSecretProofs.** One process at most is between open and write, and the
file is empty as long as one is; what callers were given is what the file holds
(`SecretIsOne`). Once a caller has been answered nobody is between the two, so nobody
is refused (`SecretIsForGood`).

**ConfigHookProofs.** `HookInv` follows the origin of every field through the
places it passes: a file's models come from its endpoint and fingerprint, a
worker's from its config object's, a config object's from the user or from its
own settings; what is found goes by its own id, and no authored model is ever
counted as injected. From it:
`TypesHold`, `AuthoredKeptHolds`, `VariantsCurrentHolds`,
`FactsFromOwnEndpointHolds`; and with "a call that has returned has its signal set"
`UntouchedAfterReturnHolds`. `ShownInv` adds the domains: calls on one config object
follow each other, every model there is the user's or on record as injected, so
`getExplicitModels` finds the user's and no others, and a step of a worker either
shows what it found or changes nothing on show. From it, with one lemma per kind of
step: `ShownIsFoundHolds`.

**HostsProofs.** V1 rewrites every wanted key on every application. `HostsInv` is what lets a removal pass tell its own entries from
the user's. V1: an injected entry written under the identity last projected is wanted
by the last draft and is on record as it stands (`RecordInv`). V2: the
snapshot's keys are the wanted ones, and the catalogue is the transform of the
snapshot unless a reload is advised (`SnapshotInv`). The section of a fresh draft is its owned and its
explicit entries. From it `ShownFollows` and, with a case per operation, the
action property `UsersSurvive`.

**InventoryProofs.** `HopInv`: while an answer is awaited, the last hop sent is the URL
and the headers of the loop's variables, `hops` counts those before it and `seen`
has them all. So a hop that passes the gates cannot repeat, exceed the limit or
carry a credential elsewhere (`CredentialIsHome`). The events of the socket are
shown not to touch the request. `TombstoneEarned` follows adapter by adapter: a
tombstone is written only by a result made from an answer, and the answer is
among the denials by then.

`WholeInv` is what makes a complete inventory the whole one (`CompleteWhole`; with the
kinds of results, `FetchesTyped`). It follows an answer from the provider to the
result: an answer under way, and one awaited, says only what the provider has at that
endpoint, and says all of it unless it is marked damaged (`Honest`, `Delivered`: a text
cut short says nothing, a redirect starts again with nothing). A page is asked
for after that many full ones, and what is held by then is the beginning of the list of that
length (`PageInv`); so the count of the models held is the offset
(`FirstCounted`), a page extends the beginning (`PageFollows`), and it is the last only
where the list ends, for any page size, any list and any number of pages. What was granted is
carried to the catalogue and from there to the deployments (`StageInv`). The
assumptions: no provider lists a model twice (`CatalogueAssumption`; the next offset is
the number of different models held, so a repetition would move it), and
`None` is no result, number or set of ids (`NoneAssumption`).

**StoresProofs.** `StoresInv` says that every file holds something its store saves,
as does every write that is open (`DiskInv`, `JobInv`), and of a load under way that
whatever lay there since it began is still to be read or no newer than the best
so far (`LoadInv`). A rename takes what it overwrites out of that set, which is why
the property speaks of what lay there all along. With `Newer` a total preorder
(`NewerOrder`) this gives `SoundLoads`. The documents' etags are taken to be
among the names of files.

`QuarantineInv` is about two or more processes that append and prune from listings of different
ages. A victim has `Cap` later entries among those ever published, and stays so whatever
is published after (`VictimsInv`), so no removal touches one of the newest (`KeptInv`); and unless a
process has yet to list, the entries that are not some process's victims are no
more than the cap (`CapInv`), though other listings may have been taken before. That
of any finite set of times at most `Cap` are its newest (`FewNewest`) is proved from a
minimal counterexample. From it `NewestKept`.

**VariantsProofs.** Any drafts in any order, any bound on their number, any
question. `BeforeOrder` shows `compareRecords` a strict total order on records that
are not the same, so that any finite set of them has a first (`TopExists`, from a minimal counterexample) and one only
(`TopUnique`). `GatheredInv` says what is gathered: well-formed records, each with its
origin, no two of them the same, and nothing bound that was not gathered; `PlanInv` that a plan
is what the compiler makes of some of them. `ResolvedValues` gives the values of a
claim as those of its records minus what is denied, and with it a value of a plan is
traced to the record that declared it (`ValueListed`): `VariantsEarned`. Of one record
more (`OneRecordMore`), a partial one without
denials loses nothing (`PartialKeepsValues`), one after the exhaustive changes
nothing (`LaterChangesNothing`), and the first exhaustive one leaves its own values less
what is denied before it (`ExhaustiveFixes`): `LaterEvidenceMerges`. For the reasoning of one model
`AnswerInv` is that the answer is the function of the question; what remains is
about that function. `ControlsSource` names the four places controls may come from,
`CanonicalSpeaks` and `AmongAgrees` why the entry chosen may speak for the model (of
several namesakes all agree), `TransportSource` how they may be sent: `ControlsHold`.
`BudgetBounds` is the arithmetic of the caps for all integers: `BudgetsHold`.
Assumed are the types of drafts and questions (`DraftsAssumption`,
`QuestionsAssumption`), that drafts of one source which agree in target, claim and time are
one, and that no source takes the names of the two official parsers.

Every invariant and action property that a passing run checks is also proved. Only
model-checked: the liveness properties (`JobReleased`, `NeverWedged`, `HookEnds`,
`FetchSettles`), which the proof system cannot treat under fairness; and the violations.
Where
the code loops over a set, the model has what the loop comes to, and facts about
finite sets are proved from minimal counterexamples: the library's induction
theorems take an operator, which the provers here cannot instantiate.

## 6. Read in the code, not run

Disagreements met while modelling that no run shows.

*Coordinator and runtime.*

- A confirmed authentication failure keeps the automatic routes on show
  (`coordinator.ts:243`), which `state-machine.ts:199` and
  `docs/USER-GUIDE-v3.zh-CN.md:60` say are withdrawn; so does the hard limit
  (`coordinator.ts:211`, `state-machine.ts:14`). `NonCompleteKeepsShow` leaves the
  authentication failure out; no property claims that routes stay or go then.
- The last known good inventory and an authentication block survive a rotation of
  the credential (`coordinator.ts:174`; guide line 225), and an inventory stored
  under an earlier generation is activated (`inventory-store.ts:182`).
- A consumer that contributes nothing is scheduled once an identity is observed
  (`coordinator.ts:181`, `state-machine.ts:59`).
- `initialize()` that read its files before a denial activates the denied inventory
  (`promise-runtime.ts:180`); `TombstoneOutlivesCrash` therefore speaks of
  tombstones that were there when the process began. Nobody calls
  `clearAuthTombstone` (`tombstone-store.ts:97`).
- `lastCompleteAtMs` survives a change of identity (`promise-runtime.ts:127`); a
  lost credential keeps its routes (`:165`; guide line 226).
- Two completions persisted in the opposite order of their application leave the
  older inventory on disk (`promise-runtime.ts:279`, against the comment at `v2-promise.ts:39`).
- A failure before the first success is never retried (`promise-runtime.ts:242`),
  where guide line 223 speaks of backoff.
- A run that ends clears `activeToken` even when it is a newer run's (`:273`), which
  needs a caller that awaits between beginning and running; none does. In `v2-effect.ts`
  the grace sleep and `nowMs` are two clocks (`:43`), and `Effect.ignore` does not
  catch the defect that a rejected promise becomes (`:39`).

*Lock and secret.*

- The lock's release checks and then removes (`lock.ts:148`); the back-out after a failed
  write removes without checking (`:141`), and `NobodyElsesLock` leaves expired locks out; a key file left empty
  by a crash is never repaired (`installation-secret.ts:212`).
- A loser of the creation race that reads between the winner's open and write is
  refused (`installation-secret.ts:199`), where the header says every loser converges.

*Plugin.*

- `removed` may name an explicit key (`projector.ts:40`; `v2-catalog.ts:70` guards).
- The hook's deadline is 5 s whatever `timeoutMs` says (`config-hook.ts:26`,
  `docs/configuration.md:70`). A metadata request that fails or is aborted leaves
  an inventory unenriched and cached as fresh (`enhance-config.ts:438`).
- On a second call with one config object, discovered fields absorbed by an
  explicit model count as the user's (`enhance-config.ts:563`).
- Overrides saved while a worker awaits, or under another base URL, are written over
  (`provider-model-store.ts:151`, documented as remaining stored). Two saves of
  one provider within a millisecond share a temporary name (`:157`).

*Adapters and transfer.*

- A page of models already held leaves the next offset, the count of different models,
  where it was (`openrouter.ts:119`): the same page is asked for until the page limit.
- Fifty full pages without a declared total count as the whole catalogue
  (`openrouter.ts:116`, against `:90`).
- A Model Studio catalogue answer 200 that declares an error is taken as the complete empty
  inventory (`alibaba-model-studio.ts:225`, against `shared.ts:10`).
- A 204 or 304 makes `new Response` throw, so "not modified" arrives as a transient
  failure (`direct-http.ts`, `http-client.ts`).

*Hosts.*

- `V1ConfigBackend` rewrites every wanted key on every application, because
  `v1-config-backend.ts:113` serialises the recorded string once more before it
  compares. So it overwrites, and later deletes, what the user wrote under the key of a
  route, also over an entry injected before, where the header (`:8`) says that what the user modified
  survives untouched. It keeps `originalValues` that nothing
  reads, and leaves the entries of an earlier epoch behind (`:84`); `UsersEntriesSurvive` and
  `ShownFollowsDraft` are stated around both.
- A V2 host whose consumer stops contributing keeps transforming the last snapshot.

*Stores.*

- A model deleted in one accepted update and added with new tiers in the next passes
  the expansion check, and two processes that each delete within the share of
  their own baseline may together exceed it (`metadata/revision-store.ts`).
- `scripts/sync-metadata.ts` decides against the committed baseline and saves
  nothing. Temporary files of a crash are never removed (`safe-file.ts:104`).

*Capabilities and reasoning.*

- `cache-fingerprint.ts:70` leaves out the capability policy (which
  `types/plugin-config.ts:54` counts to the reasoning configuration), the SDK, the output
  limit and the provider's own metadata, though its header says any change invalidates.
  The base URL is not in it either, but a file of another base URL is not read at all.
  `VariantsCurrent` therefore speaks of fingerprints.
- Of several hosts that serve one id, the last listed decides
  (`models-dev-fetcher.ts:68`, against `consensus.ts:6` and `docs/reasoning.md:325`);
  `ControlsAreNotGuessed` leaves such ids out; of the bundled snapshot's
  634 ids with several hosts, 333 have hosts that differ.
- Public evidence about a surface can plan variants by itself, though
  `sources/models-dev.ts:9` says it never does; `VariantsAreEarned` leaves these plans, and
  those with values from a record that denies support, out. An exhaustive empty `effective`
  falls through to `accepted`; the
  default may lie outside the variants. A plan's source
  (`variant-plan.ts:107`) is chosen by revision alone, where its comment says it mirrors the comparator.
- An exhaustive record of low rank replaces the values of partial records that rank above
  it (`evidence-resolver.ts:171`). A partial record of the exhaustive one's authority is dropped silently before it and
  called ambiguous after it; a record of another authority between two that
  disagree makes an ambiguous claim a resolved one (`evidence-resolver.ts:149`).
- An output limit of one or less is no limit, and the budget of "high" may lie
  below the declared minimum (`compiler.ts:58`); efforts a transport cannot send
  suppress the switch and the budget it could.
- An id with a namespace stays unresolved where several agreeing hosts would resolve it
  without (`canonical-model.ts`). An alias equal to a later id passes the
  registry's validator. The registry replaces provider-native metadata that is empty.
- An OAuth entry falls through to the environment (`credentials/v1.ts`), where its
  header says it stays unresolved.

## 7. Not modelled, and what is left to prove

Left out, each for its reason:

- *Hashing and the canonical encoding of identities*: taken as injective; what is left is spelling.
- *Credential resolution, the provider plan, plugin configuration*: pure choices among
  layers of configuration; the models take their outcome (a key or none, the adapter, the constants).
- *The evidence ledger, relay detection, consensus, coverage and diagnostics reports*:
  observations and reports that decide nothing.
- *Enrichers of model information* (context lengths, prices, names): parsers whose
  outcome `ConfigHook` takes as the facts of a model.
- *The migration of old caches, `applyOwnershipGuard`, `deleteCompleteInventory`,
  `computeBackoffDelayMs`, `executeDiscoveryJsonRequest`*: no caller.
- *The Effect scope of `v2-effect.ts`*: the library's semantics, not this code's.
- *CLI, commands, logger, toasts, scripts, tables of wire formats*: text, or tools run by hand.

Left to prove: that the stores refine a register (a load returns a revision that was
current at some moment of the load), that the cache lock refines a mutex until the
first expiry, and that a step of `Inventory` is one of an abstract fetch that asks and settles.
