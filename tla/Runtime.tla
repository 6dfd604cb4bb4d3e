------------------------------ MODULE Runtime -------------------------------
(***************************************************************************)
(* PromiseDiscoveryRuntime of src/src/entrypoints/promise-runtime.ts, the  *)
(* owner of one coordinator, with what outlives it: the inventories and    *)
(* tombstones of refresh-persistence.ts on disk.                           *)
(*                                                                         *)
(* initialize() and runActiveRefresh() are asynchronous; each stretch      *)
(* between two awaits is an action.  beginRefresh and the start of the run *)
(* it allows are one action, because every entrypoint (refreshNow, the     *)
(* Effect entrypoint) makes both calls in one stretch.  The host rotates,  *)
(* loses and finds credentials, and the process may be killed anywhere.    *)
(***************************************************************************)
EXTENDS Coordinator

CONSTANTS
  Call,        \* calls of initialize() that may overlap
  Outcomes,    \* the completion kinds the adapter may produce
  Inventories, \* the complete inventories it may produce
  Grace, Fresh, HardStale,   \* startupGraceMs, freshSeconds, hardStaleSeconds
  MaxNow,      \* bound of the model on the clock
  MaxRestarts  \* bound of the model on crashes

(* A stored inventory; the pair is the one it was fetched with. *)
Record == [owner : Identity, at : 1..MaxNow, routes : SUBSET Route]

ASSUME RuntimeAssumption ==
  /\ Outcomes \subseteq CompletionKind
  /\ Inventories \subseteq SUBSET Route
  /\ {Grace, Fresh, HardStale, MaxNow, MaxRestarts} \subseteq Nat
  /\ HardStale > Fresh /\ MaxNow >= 1
  /\ None \notin Record

VARIABLES
  credential,            \* what resolveIdentity finds
  now, setupAt,          \* the clock; when setup returned, 0 when it has not
  context, activeToken,
  lastComplete,          \* lastCompleteAtMs, 0 when never
  boot,                  \* the initialize() calls
  runs,                  \* the runActiveRefresh() calls, by job
  inventory, tombstones, \* on disk
  restarts,
  \* History: the inventories that were applied, the pairs whose denial was,
  \* and the tombstones found on disk when the process began.
  published, denied, blockedAtStart

hostVars == <<credential, now, restarts, blockedAtStart>>
diskVars == <<inventory, tombstones>>
pastVars == <<published, denied>>
rvars    == <<vars, hostVars, setupAt, context, activeToken, lastComplete, boot, runs,
              diskVars, pastVars>>

Part    == {"inventory", "tombstone"}
BootRun == [pc : {"idle", "resolving", "loading"}, ctx : Identity \cup {None},
            unread : SUBSET Part, lkg : Record \cup {None}, blocked : BOOLEAN]
NoBoot  == [pc |-> "idle", ctx |-> None, unread |-> Part, lkg |-> None, blocked |-> FALSE]

Refresh == [pc : {"none", "fetching", "persisting"}, token : Token \cup {None},
            ctx : Identity \cup {None}, kind : CompletionKind, confirmed : BOOLEAN,
            record : Record \cup {None}]
NoRun   == [pc |-> "none", token |-> None, ctx |-> None, kind |-> "invalid",
            confirmed |-> FALSE, record |-> None]

RuntimeTypeOK ==
  /\ TypeOK
  /\ credential \in Identity \cup {None}
  /\ now \in 1..MaxNow
  /\ setupAt \in 0..MaxNow
  /\ restarts \in 0..MaxRestarts
  /\ context \in Identity \cup {None}
  /\ activeToken \in Token \cup {None}
  /\ lastComplete \in 0..MaxNow
  /\ boot \in [Call -> BootRun]
  /\ runs \in [1..MaxJobs -> Refresh]
  /\ inventory \in [Sid -> Record \cup {None}]
  /\ {tombstones, denied, blockedAtStart} \subseteq SUBSET Identity
  /\ published \subseteq Record

RuntimeInit ==
  /\ Init
  /\ credential \in Identity \cup {None}
  /\ now = 1 /\ setupAt = 0 /\ restarts = 0
  /\ context = None /\ activeToken = None
  /\ lastComplete = 0
  /\ boot = [c \in Call |-> NoBoot]
  /\ runs = [j \in 1..MaxJobs |-> NoRun]
  /\ inventory = [s \in Sid |-> None]
  /\ tombstones = {} /\ denied = {} /\ blockedAtStart = {} /\ published = {}

Pair(t) == [sid |-> t.sid, gen |-> t.gen]

-----------------------------------------------------------------------------
(* initialize()                                                            *)

Initialize(c) ==
  /\ ~disposed
  /\ boot[c].pc = "idle"
  /\ boot' = [boot EXCEPT ![c] = [NoBoot EXCEPT !.pc = "resolving", !.ctx = credential]]
  /\ UNCHANGED <<vars, hostVars, setupAt, context, activeToken, lastComplete, runs, diskVars, pastVars>>

(* 'identity-unresolved'. *)
ResolveNothing(c) ==
  /\ boot[c].pc = "resolving"
  /\ boot[c].ctx = None
  /\ boot' = [boot EXCEPT ![c] = NoBoot]
  /\ UNCHANGED <<vars, hostVars, setupAt, context, activeToken, lastComplete, runs, diskVars, pastVars>>

(* Mutant: a rotated credential does not reach the context. *)
ContextAfterChange(ctx) == IF SemanticChange(ctx) THEN ctx ELSE context

ContextAfter(ctx) == ctx

(* A disposed coordinator observes nothing; the context is set all the same. *)
ResolveIdentity(c) ==
  /\ boot[c].pc = "resolving"
  /\ boot[c].ctx # None
  /\ IF disposed THEN UNCHANGED vars ELSE ObserveIdentity(boot[c].ctx)
  /\ context' = ContextAfter(boot[c].ctx)
  /\ boot' = [boot EXCEPT ![c].pc = "loading"]
  /\ UNCHANGED <<hostVars, setupAt, activeToken, lastComplete, runs, diskVars, pastVars>>

(* loadStartupCacheState reads two files, in either order. *)
ReadInventory(c) ==
  /\ boot[c].pc = "loading"
  /\ "inventory" \in boot[c].unread
  /\ boot' = [boot EXCEPT ![c].unread = @ \ {"inventory"},
                          ![c].lkg    = inventory[boot[c].ctx.sid]]
  /\ UNCHANGED <<vars, hostVars, setupAt, context, activeToken, lastComplete, runs, diskVars, pastVars>>

ReadTombstone(c) ==
  /\ boot[c].pc = "loading"
  /\ "tombstone" \in boot[c].unread
  /\ boot' = [boot EXCEPT ![c].unread  = @ \ {"tombstone"},
                          ![c].blocked = boot[c].ctx \in tombstones]
  /\ UNCHANGED <<vars, hostVars, setupAt, context, activeToken, lastComplete, runs, diskVars, pastVars>>

Loaded(c) == boot[c].pc = "loading" /\ boot[c].unread = {}

(* Mutant: the tombstone is read and not looked at. *)
UsableUnchecked(b) ==
  /\ b.lkg # None
  /\ now - b.lkg.at < HardStale
  /\ LkgAdmissible(b.ctx)

(* A tombstone, no inventory, a hard-stale one, or one for a pair that is   *)
(* no longer the coordinator's.                                             *)
Usable(b) ==
  /\ ~b.blocked
  /\ b.lkg # None
  /\ now - b.lkg.at < HardStale
  /\ LkgAdmissible(b.ctx)

SkipLkg(c) ==
  /\ Loaded(c)
  /\ ~Usable(boot[c])
  /\ boot' = [boot EXCEPT ![c] = NoBoot]
  /\ UNCHANGED <<vars, hostVars, setupAt, context, activeToken, lastComplete, runs, diskVars, pastVars>>

ActivateLkg(c) ==
  /\ Loaded(c)
  /\ Usable(boot[c])
  /\ ApplyLocalLkg(boot[c].ctx, boot[c].lkg.routes)
  /\ lastComplete' = boot[c].lkg.at
  /\ boot' = [boot EXCEPT ![c] = NoBoot]
  /\ UNCHANGED <<hostVars, setupAt, context, activeToken, runs, diskVars, pastVars>>

-----------------------------------------------------------------------------
(* Refreshes                                                               *)

MarkSetupReturned ==
  /\ setupAt = 0
  /\ setupAt' = now
  /\ UNCHANGED <<vars, hostVars, context, activeToken, lastComplete, boot, runs, diskVars, pastVars>>

CanStartFetch == setupAt # 0 /\ now >= setupAt + Grace

(* beginRefresh and, in the same stretch, runActiveRefresh up to the fetch. *)
StartRun(trigger) ==
  /\ BeginRefresh(trigger)
  /\ activeToken' = IF context = None THEN None ELSE NewToken
  /\ runs' = [runs EXCEPT ![nextJobId] =
       IF context = None THEN NoRun
       ELSE [NoRun EXCEPT !.pc = "fetching", !.token = NewToken, !.ctx = context]]
  /\ UNCHANGED <<hostVars, setupAt, context, lastComplete, boot, diskVars, pastVars>>

RefreshNow == StartRun("manual")

PostSetupRefresh == CanStartFetch /\ StartRun("post-setup")

Phase ==
  IF lastComplete = 0 THEN "never-completed"
  ELSE IF now - lastComplete >= HardStale THEN "hard-stale"
  ELSE IF now - lastComplete >= Fresh THEN "soft-due"
  ELSE "fresh"

(* maybeBeginTtlRefresh, and the run of the token it returns. *)
RefreshDue ==
  /\ activeToken = None
  /\ \/ Phase = "soft-due"   /\ StartRun("soft-ttl")
     \/ Phase = "hard-stale" /\ StartRun("hard-ttl")

(* Mutant: a fetch that throws is not turned into a completion. *)
FetchThrows(j, kind, routes, confirmed) ==
  IF kind = "transient-failure"
  THEN /\ runs' = [runs EXCEPT ![j] = NoRun]
       /\ UNCHANGED <<vars, pastVars>>
  ELSE /\ CompleteRefresh(runs[j].token, kind, routes, confirmed, "derived")
       /\ runs' = [runs EXCEPT ![j] = NoRun]
       /\ UNCHANGED pastVars

(* Mutant: a completion that was not applied is persisted as well. *)
PersistsAlways(j) == TRUE

Persists(j) == Answer(runs[j].token) = "applied"

(* The fetch has returned or thrown and completeRefresh is told. *)
Deliver(j, kind, routes, confirmed) ==
  LET fetched == [owner |-> runs[j].ctx, at |-> now, routes |-> routes]
      applied == Answer(runs[j].token) = "applied"
  IN
  /\ CompleteRefresh(runs[j].token, kind, routes, confirmed, "derived")
  /\ runs' = [runs EXCEPT ![j] =
       IF Persists(j)
       THEN [@ EXCEPT !.pc = "persisting", !.kind = kind, !.confirmed = confirmed,
                      !.record = fetched]
       ELSE NoRun]
  /\ published' = published \cup
       (IF applied /\ kind = "complete"
        THEN {[owner |-> Pair(runs[j].token), at |-> now, routes |-> routes]} ELSE {})
  /\ denied' = denied \cup
       (IF applied /\ kind = "auth-failure" /\ confirmed THEN {Pair(runs[j].token)} ELSE {})

FetchReturns(j) ==
  /\ runs[j].pc = "fetching"
  /\ \/ \E routes \in Inventories : "complete" \in Outcomes /\ Deliver(j, "complete", routes, FALSE)
     \/ \E confirmed \in BOOLEAN :
          "auth-failure" \in Outcomes /\ Deliver(j, "auth-failure", {}, confirmed)
     \/ \E kind \in Outcomes \ {"complete", "auth-failure"} : Deliver(j, kind, {}, FALSE)
  /\ activeToken' = None
  /\ UNCHANGED <<hostVars, setupAt, context, lastComplete, boot, diskVars>>

(* applyRefreshCompletion: decidePersistence and the store it picks.  A     *)
(* quarantined or ignored completion leaves the two stores alone.           *)
SavesInventory(r)  == r.kind = "complete"
WritesTombstone(r) == r.kind = "auth-failure" /\ r.confirmed

Persist(j) ==
  LET r == runs[j] IN
  /\ r.pc = "persisting"
  /\ inventory' = IF SavesInventory(r)
                  THEN [inventory EXCEPT ![r.record.owner.sid] = r.record] ELSE inventory
  /\ tombstones' = tombstones \cup (IF WritesTombstone(r) THEN {r.record.owner} ELSE {})
  /\ lastComplete' = IF SavesInventory(r) THEN r.record.at ELSE lastComplete
  /\ runs' = [runs EXCEPT ![j] = NoRun]
  /\ UNCHANGED <<vars, hostVars, setupAt, context, activeToken, boot, pastVars>>

(* The write fails: the caller's promise rejects, nothing is written. *)
PersistFails(j) ==
  /\ runs[j].pc = "persisting"
  /\ runs' = [runs EXCEPT ![j] = NoRun]
  /\ UNCHANGED <<vars, hostVars, setupAt, context, activeToken, lastComplete, boot, diskVars, pastVars>>

-----------------------------------------------------------------------------
(* The host                                                                *)

(* dispose() aborts the fetches under way; their runs still return. *)
DisposeRuntime ==
  /\ Dispose
  /\ activeToken' = None
  /\ UNCHANGED <<hostVars, setupAt, context, lastComplete, boot, runs, diskVars, pastVars>>

ChangeCredential ==
  /\ credential' \in (Identity \cup {None}) \ {credential}
  /\ UNCHANGED <<vars, now, restarts, blockedAtStart, setupAt, context, activeToken, lastComplete,
                 boot, runs, diskVars, pastVars>>

Tick ==
  /\ now < MaxNow
  /\ now' = now + 1
  /\ UNCHANGED <<vars, credential, restarts, blockedAtStart, setupAt, context, activeToken,
                 lastComplete, boot, runs, diskVars, pastVars>>

(* The process dies and another starts: only the disk survives. *)
Restart ==
  /\ restarts < MaxRestarts
  /\ restarts' = restarts + 1
  /\ blockedAtStart' = tombstones
  /\ epoch' = 0 /\ planGeneration' = 0 /\ identity' = None /\ disposed' = FALSE
  /\ machine' = InitialState(Contribution, Semantics)
  /\ projection' = UnavailableDraft /\ source' = None
  /\ activeJob' = None /\ invalidatedJobIds' = {} /\ nextJobId' = 1 /\ issued' = {}
  /\ applications' = [j \in 1..MaxJobs |-> 0] /\ reply' = None
  /\ setupAt' = 0 /\ context' = None /\ activeToken' = None
  /\ lastComplete' = 0
  /\ boot' = [c \in Call |-> NoBoot]
  /\ runs' = [j \in 1..MaxJobs |-> NoRun]
  /\ UNCHANGED <<credential, now, diskVars, pastVars>>

BootStep(c) ==
  \/ ResolveNothing(c) \/ ResolveIdentity(c)
  \/ ReadInventory(c) \/ ReadTombstone(c)
  \/ SkipLkg(c) \/ ActivateLkg(c)

RuntimeNext ==
  \/ \E c \in Call : Initialize(c) \/ BootStep(c)
  \/ MarkSetupReturned
  \/ RefreshNow \/ PostSetupRefresh \/ RefreshDue
  \/ \E j \in 1..MaxJobs : FetchReturns(j) \/ Persist(j) \/ PersistFails(j)
  \/ DisposeRuntime
  \/ ChangeCredential \/ Tick \/ Restart

RuntimeSpec == RuntimeInit /\ [][RuntimeNext]_rvars

(* Fetches and writes end, by their time limits if need be, and the code    *)
(* after an await is run.  The host need not call anything.                 *)
RunsEnd ==
  /\ \A j \in 1..MaxJobs : WF_rvars(FetchReturns(j)) /\ WF_rvars(Persist(j) \/ PersistFails(j))
  /\ \A c \in Call : WF_rvars(BootStep(c))

RuntimeFairSpec  == RuntimeSpec /\ RunsEnd

-----------------------------------------------------------------------------
(* Safety                                                                  *)

(* Whatever is awaited in between, the pair an adapter fetches with is the  *)
(* pair its token was issued for, so that no inventory is published for one *)
(* credential that was fetched with another (runActiveRefresh captures      *)
(* this.context after the token check).                                     *)
FetchMatchesToken ==
  \A j \in 1..MaxJobs : runs[j].pc # "none" => runs[j].ctx = Pair(runs[j].token)

(* Everything on disk was published first, for the pair it is filed under:  *)
(* a run whose completion was refused leaves no inventory and no tombstone, *)
(* and none is filed under an identity observed while the run was awaiting. *)
DiskWasPublished ==
  /\ \A s \in Sid : inventory[s] # None => /\ inventory[s] \in published
                                           /\ inventory[s].owner.sid = s
  /\ tombstones \subseteq denied

(* Automatic routes on show were published, in this process or before it,   *)
(* for the semantic identity observed last.                                 *)
ShownWasPublished ==
  projection.auto # {} =>
    \E r \in published : r.owner.sid = identity.sid /\ Callable(r.routes) = projection.auto

(* A pair whose tombstone was on disk when the process began never gets an  *)
(* inventory of the cache back in this process.                             *)
TombstoneOutlivesCrash ==
  [][ \A c \in Call : ActivateLkg(c) => boot[c].ctx \notin blockedAtStart ]_rvars

=============================================================================
