------------------------------ MODULE Stores -------------------------------
(***************************************************************************)
(* The stores built on SafeFile, each used by several processes at once:   *)
(*   metadata    src/src/metadata/revision-store.ts, fed by                *)
(*               models-dev-adapter.ts as scripts/sync-metadata.ts does;   *)
(*   quarantine  src/src/cache/quarantine-store.ts;                        *)
(*   projection  src/src/cache/projection-store.ts.                        *)
(* A process is cut at every access to the disk and may stop anywhere.     *)
(***************************************************************************)
EXTENDS SafeFile, FiniteSetsExt

CONSTANTS Proc,
          Docs,          \* catalogue documents: model -> [options, reasoning]
          MaxDeletes,    \* the share of models that may go, in hundredths
          Cap,           \* MAX_QUARANTINE_FILES
          Identity,      \* identities a projection is saved for
          MaxTime,       \* bound on the clock, one per store
          MaxCrashes

ASSUME StoresAssumption ==
  /\ MaxDeletes \in 0..100 /\ Cap \in Nat \ {0}
  /\ MaxCrashes \in Nat
  /\ Name \subseteq Nat /\ None # Torn
  /\ \A s \in DOMAIN MaxTime : MaxTime[s] \in Nat /\ 0..MaxTime[s] \subseteq Name
  /\ \A d \in Docs : d.etag \in Name \cup {None}

VARIABLES store,     \* the store under test
          job,       \* per process: where it is and what it holds
          clock,     \* the wall clock, in the steps that names tell apart
          crashes

vars == <<disk, saved, store, job, clock, crashes>>

Idle == [pc |-> "idle", name |-> None, value |-> None, todo |-> {}, best |-> None,
         stable |-> {}, wants |-> None]

At(p, pc) == job[p].pc = pc
Set(p, j) == job' = [job EXCEPT ![p] = j]
Quiet == UNCHANGED <<store, crashes>>

---------------------------------------------------------------------------
(* Metadata.  A snapshot keeps of a model its reasoning signature.         *)

(* buildSnapshotDraftFromModelsDev and reasoningSignature: tiers only when *)
(* they are declared; a bare flag is open-ended and no tier.               *)
Signature(item) ==
  IF item.options # {} THEN item.options
  ELSE IF item.reasoning THEN {"open-ended"} ELSE {}

Draft(doc, revision, at) ==
  [revision |-> revision, fetchedAt |-> at,
   models |-> [m \in DOMAIN doc.models |-> Signature(doc.models[m])]]

(* What lies in a file, no value or a torn one, is not what is saved.      *)
Saved(s) ==
  CASE s = "metadata" ->
         {Draft(d, r, t) : d \in {x \in Docs : DOMAIN x.models # {}}, r \in Name, t \in Name}
    [] s = "quarantine" -> {[at |-> t] : t \in Name}
    [] s = "projection" -> [key : 0..1, identity : Identity, generation : Name]

ASSUME SavedAssumption ==
  \A s \in DOMAIN MaxTime :
    s \in {"metadata", "quarantine", "projection"} /\ None \notin Saved(s) /\ Torn \notin Saved(s)

(* validateMetadataSnapshot: any surprise rejects the whole document.      *)
Valid(doc) == doc.wellFormed

(* decideUpdate: accepted when none of its reasons to quarantine applies.  *)
Emptied(s) == DOMAIN s.models = {}
Expanded(old, new) ==
  \E m \in DOMAIN old.models \cap DOMAIN new.models :
    old.models[m] = {} /\ new.models[m] # {}
Deleted(old, new) == Cardinality(DOMAIN old.models \ DOMAIN new.models)
TooFew(old, new) ==
  Deleted(old, new) * 100 > MaxDeletes * Cardinality(DOMAIN old.models)

Accepts(old, new) ==
  ~Emptied(new) /\ (old # None => ~Expanded(old, new) /\ ~TooFew(old, new))

Newer(s, t) ==
  \/ s.fetchedAt > t.fetchedAt
  \/ s.fetchedAt = t.fetchedAt /\ s.revision >= t.revision

Stored == {disk[n] : n \in {x \in Name : Readable(x)}}

(* loadLocalVerifiedSnapshot: list the directory, then read file by file.  *)
LoadBegins(p) ==
  /\ store = "metadata" /\ At(p, "idle")
  /\ Set(p, [Idle EXCEPT !.pc = "load", !.todo = Listed, !.stable = Stored])
  /\ UNCHANGED <<disk, saved, clock>> /\ Quiet

LoadReads(p) ==
  /\ At(p, "load")
  /\ \E n \in job[p].todo :
       LET j == [job[p] EXCEPT !.todo = @ \ {n}] IN
       Set(p, IF Readable(n) /\ (j.best = None \/ Newer(disk[n], j.best))
              THEN [j EXCEPT !.best = disk[n]] ELSE j)
  /\ UNCHANGED <<disk, saved, clock>> /\ Quiet

Loaded(p) == At(p, "load") /\ job[p].todo = {}

(* The update: a document comes, is drafted, validated and decided on; one *)
(* that is refused goes no further.  An etag names the document, its       *)
(* absence the moment.                                                     *)
Update(p) ==
  /\ Loaded(p)
  /\ clock' \in {clock, clock + 1} /\ clock' <= MaxTime[store]
  /\ \E doc \in Docs :
       LET rev == IF doc.etag = None THEN clock' ELSE doc.etag
           s   == Draft(doc, rev, clock')
       IN Set(p, IF Valid(doc) /\ Accepts(job[p].best, s)
                 THEN [Idle EXCEPT !.pc = "open", !.name = rev, !.value = s, !.best = job[p].best]
                 ELSE Idle)
  /\ UNCHANGED <<disk, saved>> /\ Quiet

---------------------------------------------------------------------------
(* Quarantine.  A name is its time; names of one second with other hashes  *)
(* are ordered too, which makes them two times.                            *)

Append(p) ==
  /\ store = "quarantine" /\ At(p, "idle") /\ clock < MaxTime[store]
  /\ clock' = clock + 1
  /\ Set(p, [Idle EXCEPT !.pc = "open", !.name = clock', !.value = [at |-> clock']])
  /\ UNCHANGED <<disk, saved>> /\ Quiet

Newest(n, names) == {x \in names : Cardinality({y \in names : y > x}) < n}

(* pruneQuarantine: the victims are chosen from one listing ...            *)
VictimsNewest(names) == {x \in names : Cardinality({y \in names : y < x}) >= Cap}
Victims(names) == names \ Newest(Cap, names)

PruneLists(p) ==
  /\ At(p, "prune")
  /\ Set(p, [job[p] EXCEPT !.pc = "remove", !.todo = Victims(Listed)])
  /\ UNCHANGED <<disk, saved, clock>> /\ Quiet

(* ... and removed one by one.                                             *)
PruneRemoves(p) ==
  /\ At(p, "remove")
  /\ IF job[p].todo = {}
     THEN Set(p, Idle) /\ UNCHANGED <<disk, saved>>
     ELSE \E n \in job[p].todo : /\ RemoveCacheFile(n)
                                 /\ Set(p, [job[p] EXCEPT !.todo = @ \ {n}])
  /\ UNCHANGED clock /\ Quiet

---------------------------------------------------------------------------
(* Projection: one file per consumer and pipeline, its content told apart  *)
(* by identity and plan generation.                                        *)

SaveProjection(p) ==
  /\ store = "projection" /\ At(p, "idle")
  /\ clock' \in {clock, clock + 1} /\ clock' <= MaxTime[store]
  /\ \E n \in 0..1, i \in Identity :
       Set(p, [Idle EXCEPT !.pc = "open", !.name = n,
                           !.value = [key |-> n, identity |-> i, generation |-> clock']])
  /\ UNCHANGED <<disk, saved>> /\ Quiet

Matching(v, w) ==
  /\ v.key = w.key
  /\ v.identity = w.identity
  /\ v.generation >= w.minimum

LoadProjection(p) ==
  /\ store = "projection" /\ At(p, "idle")
  /\ \E n \in 0..1, i \in Identity :
       LET w == [key |-> n, identity |-> i, minimum |-> clock] IN
       Set(p, [Idle EXCEPT !.pc = "loaded", !.wants = w,
                 !.best = IF Readable(n) /\ Matching(disk[n], w) THEN disk[n] ELSE None])
  /\ UNCHANGED <<disk, saved, clock>> /\ Quiet

---------------------------------------------------------------------------
(* Common to the three.                                                    *)

Open(p) ==
  /\ At(p, "open")
  /\ Stage(job[p].name)
  /\ Set(p, [Idle EXCEPT !.pc = "rename", !.name = job[p].name, !.value = job[p].value])
  /\ UNCHANGED clock /\ Quiet

(* The rename publishes; what a load under way saw of the file is gone.    *)
Rename(p) ==
  /\ At(p, "rename")
  /\ Publish(job[p].name, job[p].value)
  /\ job' = [q \in Proc |->
               IF q = p THEN IF store = "quarantine" THEN [Idle EXCEPT !.pc = "prune"] ELSE Idle
               ELSE [job[q] EXCEPT !.stable = @ \ {disk[job[p].name]}]]
  /\ UNCHANGED clock /\ Quiet

(* The rename fails: the temporary file goes and the caller is told.       *)
RenameFails(p) ==
  /\ At(p, "rename")
  /\ Set(p, Idle)
  /\ UNCHANGED <<disk, saved, clock>> /\ Quiet

Return(p) ==
  /\ At(p, "loaded") \/ Loaded(p)
  /\ Set(p, Idle)
  /\ UNCHANGED <<disk, saved, clock>> /\ Quiet

Crash(p) ==
  /\ ~At(p, "idle") /\ crashes < MaxCrashes
  /\ crashes' = crashes + 1
  /\ Set(p, Idle)
  /\ UNCHANGED <<disk, saved, clock, store>>

Init ==
  /\ SafeFileInit
  /\ store \in DOMAIN MaxTime
  /\ job = [p \in Proc |-> Idle]
  /\ clock = 0 /\ crashes = 0

Next == \E p \in Proc :
  \/ LoadBegins(p) \/ LoadReads(p) \/ Update(p)
  \/ Append(p) \/ PruneLists(p) \/ PruneRemoves(p)
  \/ SaveProjection(p) \/ LoadProjection(p)
  \/ Open(p) \/ Rename(p) \/ RenameFails(p) \/ Return(p) \/ Crash(p)

Spec == Init /\ [][Next]_vars

---------------------------------------------------------------------------
(* Whatever other processes write, replace or leave unfinished meanwhile:  *)
(* no file is ever there in part; a load of the metadata returns nothing   *)
(* older than a revision that lay there all along and never an empty       *)
(* catalogue, and a load of a projection only the caller's identity at a   *)
(* generation it still accepts.                                            *)
LoadsAreSound ==
  /\ \A n \in Name : disk[n] # Torn
  /\ \A p \in Proc :
       /\ Loaded(p) =>
            /\ \A s \in job[p].stable : job[p].best # None /\ Newer(job[p].best, s)
            /\ job[p].best # None => DOMAIN job[p].best.models # {}
       /\ At(p, "loaded") /\ job[p].best # None =>
            /\ job[p].best.key = job[p].wants.key
            /\ job[p].best.identity = job[p].wants.identity
            /\ job[p].best.generation >= job[p].wants.minimum

(* No process prunes what another has just appended: of all entries ever   *)
(* published the newest are there, and once everyone who appended has also *)
(* pruned there are no more than the cap.                                  *)
QuarantineKeepsNewest ==
  store = "quarantine" =>
    /\ Newest(Cap, saved) \subseteq Listed
    /\ crashes = 0 /\ (\A p \in Proc : At(p, "idle")) => Cardinality(Listed) <= Cap
=============================================================================
