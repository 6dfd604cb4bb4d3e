---------------------------- MODULE StoresProofs ----------------------------
(***************************************************************************)
(* Theorems about Stores, for any documents, names, identities and         *)
(* processes, any number of crashes and any length of time.                *)
(***************************************************************************)
EXTENDS Stores, FiniteSetTheorems, TLAPS

(* A process's variables, and where in which store it may be.              *)
IsJob(j) ==
  j = [pc |-> j.pc, name |-> j.name, value |-> j.value, todo |-> j.todo, best |-> j.best,
       stable |-> j.stable, wants |-> j.wants]

JobInv ==
  /\ job = [p \in Proc |-> job[p]]
  /\ \A p \in Proc :
       /\ IsJob(job[p])
       /\ job[p].pc \in {"load"} => store = "metadata"
       /\ job[p].pc \in {"prune", "remove"} => store = "quarantine"
       /\ job[p].pc = "loaded" => store = "projection"
       /\ job[p].pc \in {"open", "rename"} => job[p].value \in Saved(store)

DiskInv ==
  /\ store \in DOMAIN MaxTime
  /\ clock \in 0..MaxTime[store]
  /\ disk = [n \in Name |-> disk[n]]
  /\ \A n \in Name : disk[n] \in Saved(store) \cup {None}

(* What was there all along is still to be read, or no newer than the best *)
(* read so far.                                                            *)
LoadInv ==
  \A p \in Proc : At(p, "load") =>
    /\ job[p].stable \subseteq Saved(store)
    /\ job[p].todo \subseteq Name
    /\ job[p].best \in Saved(store) \cup {None}
    /\ \A s \in job[p].stable :
         \/ \E n \in job[p].todo : disk[n] = s
         \/ job[p].best # None /\ Newer(job[p].best, s)

FoundInv ==
  \A p \in Proc : At(p, "loaded") /\ job[p].best # None =>
    /\ job[p].best.key = job[p].wants.key
    /\ job[p].best.identity = job[p].wants.identity
    /\ job[p].best.generation >= job[p].wants.minimum

StoresInv == JobInv /\ DiskInv /\ LoadInv /\ FoundInv

-----------------------------------------------------------------------------
(* Newer is a total preorder of the revisions.                             *)
LEMMA NewerOrder ==
  ASSUME NEW a \in Saved("metadata"), NEW b \in Saved("metadata"), NEW c \in Saved("metadata")
  PROVE  /\ Newer(a, a)
         /\ Newer(a, b) \/ Newer(b, a)
         /\ Newer(a, b) /\ Newer(b, c) => Newer(a, c)
<1>1. \A s \in Saved("metadata") : s.fetchedAt \in Nat /\ s.revision \in Nat
  BY StoresAssumption DEF Saved, Draft
<1>2. QED
  BY <1>1 DEF Newer

(* What a store saves is neither absence nor a torn file.                  *)
LEMMA SavedFacts ==
  ASSUME DiskInv
  PROVE  /\ store \in {"metadata", "quarantine", "projection"}
         /\ None \notin Saved(store) /\ Torn \notin Saved(store)
  BY SavedAssumption DEF DiskInv

-----------------------------------------------------------------------------
(* Nothing is on the disk, and no process is under way.                    *)
LEMMA InitInv == Init => StoresInv
<1> SUFFICES ASSUME Init PROVE StoresInv
  OBVIOUS
<1>1. JobInv /\ \A p \in Proc : job[p].pc = "idle"
  BY DEF Init, JobInv, IsJob, Idle
<1>2. DiskInv
  BY StoresAssumption DEF Init, SafeFileInit, DiskInv
<1>3. QED
  BY <1>1, <1>2 DEF StoresInv, LoadInv, FoundInv, At

(* A step of one process that leaves the disk alone needs to be looked at  *)
(* for that process only.                                                  *)
LEMMA OnlyOwnJob ==
  ASSUME StoresInv, NEW p \in Proc, NEW j, Set(p, j), UNCHANGED <<disk, store>>,
         clock' \in {clock, clock + 1}, clock' <= MaxTime[store],
         IsJob(j),
         j.pc = "load" => store = "metadata",
         j.pc \in {"prune", "remove"} => store = "quarantine",
         j.pc = "loaded" => store = "projection",
         j.pc \in {"open", "rename"} => j.value \in Saved(store),
         j.pc = "load" =>
           /\ j.stable \subseteq Saved(store)
           /\ j.todo \subseteq Name
           /\ j.best \in Saved(store) \cup {None}
           /\ \A s \in j.stable : \/ \E n \in j.todo : disk[n] = s
                                  \/ j.best # None /\ Newer(j.best, s),
         j.pc = "loaded" /\ j.best # None =>
           /\ j.best.key = j.wants.key
           /\ j.best.identity = j.wants.identity
           /\ j.best.generation >= j.wants.minimum
  PROVE  StoresInv'
<1> USE DEF StoresInv
<1>1. job'[p] = j /\ \A q \in Proc : q # p => job'[q] = job[q]
  BY DEF Set, JobInv
<1>2. JobInv'
  <2>1. job' = [q \in Proc |-> job'[q]]
    BY DEF Set, JobInv
  <2>2. QED
    BY <1>1, <2>1 DEF JobInv
<1>3. DiskInv'
  <2>1. clock' \in 0..MaxTime[store]
    BY StoresAssumption DEF DiskInv
  <2>2. QED
    BY <2>1 DEF DiskInv
<1>4. LoadInv'
  <2> SUFFICES ASSUME NEW q \in Proc, job'[q].pc = "load"
               PROVE  /\ job'[q].stable \subseteq Saved(store)
                      /\ job'[q].todo \subseteq Name
                      /\ job'[q].best \in Saved(store) \cup {None}
                      /\ \A s \in job'[q].stable :
                           \/ \E n \in job'[q].todo : disk[n] = s
                           \/ job'[q].best # None /\ Newer(job'[q].best, s)
    BY DEF LoadInv, At
  <2>1. CASE q = p
    BY <1>1, <2>1
  <2>2. CASE q # p
    BY <1>1, <2>2 DEF LoadInv, At
  <2>3. QED
    BY <2>1, <2>2
<1>5. FoundInv'
  <2> SUFFICES ASSUME NEW q \in Proc, job'[q].pc = "loaded", job'[q].best # None
               PROVE  /\ job'[q].best.key = job'[q].wants.key
                      /\ job'[q].best.identity = job'[q].wants.identity
                      /\ job'[q].best.generation >= job'[q].wants.minimum
    BY DEF FoundInv, At
  <2>1. CASE q = p
    BY <1>1, <2>1
  <2>2. CASE q # p
    BY <1>1, <2>2 DEF FoundInv, At
  <2>3. QED
    BY <2>1, <2>2
<1>6. QED
  BY <1>2, <1>3, <1>4, <1>5

(* The steps that go nowhere: back to idle.                                *)
LEMMA IdleStep ==
  ASSUME StoresInv, NEW p \in Proc, Set(p, Idle), UNCHANGED <<disk, clock, store>>
  PROVE  StoresInv'
<1>1. IsJob(Idle) /\ Idle.pc = "idle"
  BY DEF IsJob, Idle
<1>2. clock <= MaxTime[store]
  BY StoresAssumption DEF StoresInv, DiskInv
<1>3. PICK j : j = Idle
  OBVIOUS
<1>4. QED
  BY <1>1, <1>2, <1>3, OnlyOwnJob

(* A load has yet to read all that is there.                               *)
LEMMA LoadBeginsStep ==
  ASSUME StoresInv, NEW p \in Proc, LoadBegins(p)
  PROVE  StoresInv'
<1>1. PICK j : j = [Idle EXCEPT !.pc = "load", !.todo = Listed, !.stable = Stored]
  OBVIOUS
<1>2. /\ IsJob(j) /\ j.pc = "load" /\ j.todo = Listed /\ j.stable = Stored /\ j.best = None
  BY <1>1 DEF IsJob, Idle
<1>3. Set(p, j) /\ store = "metadata" /\ UNCHANGED <<disk, clock, store>>
  BY <1>1 DEF LoadBegins, Quiet
<1>4. clock <= MaxTime[store]
  BY StoresAssumption DEF StoresInv, DiskInv
<1>5. Listed \subseteq Name /\ Stored \subseteq Saved(store)
  BY DEF Listed, Stored, Readable, StoresInv, DiskInv
<1>6. \A s \in Stored : \E n \in Listed : disk[n] = s
  BY DEF Stored, Readable, Listed
<1>7. QED
  BY <1>2, <1>3, <1>4, <1>5, <1>6, OnlyOwnJob

(* The file just read was the best so far, or is, or is no newer.          *)
LEMMA LoadReadsStep ==
  ASSUME StoresInv, NEW p \in Proc, LoadReads(p)
  PROVE  StoresInv'
<1>1. PICK n \in job[p].todo :
        LET j == [job[p] EXCEPT !.todo = @ \ {n}] IN
        Set(p, IF Readable(n) /\ (j.best = None \/ Newer(disk[n], j.best))
               THEN [j EXCEPT !.best = disk[n]] ELSE j)
  BY DEF LoadReads
<1>2. PICK k : k = [job[p] EXCEPT !.todo = @ \ {n}]
  OBVIOUS
<1>3. PICK r : r = IF Readable(n) /\ (k.best = None \/ Newer(disk[n], k.best))
                   THEN [k EXCEPT !.best = disk[n]] ELSE k
  OBVIOUS
<1>4. Set(p, r)
  BY <1>1, <1>2, <1>3
<1>5. /\ IsJob(job[p]) /\ job[p].pc = "load" /\ store = "metadata"
      /\ job[p].stable \subseteq Saved(store)
      /\ job[p].todo \subseteq Name
      /\ job[p].best \in Saved(store) \cup {None}
      /\ \A s \in job[p].stable :
           \/ \E m \in job[p].todo : disk[m] = s
           \/ job[p].best # None /\ Newer(job[p].best, s)
  BY DEF LoadReads, At, StoresInv, JobInv, LoadInv
<1>6. /\ IsJob(k) /\ k.pc = "load" /\ k.todo = job[p].todo \ {n}
      /\ k.best = job[p].best /\ k.stable = job[p].stable
  <2>1. ASSUME NEW f, f = [job[p] EXCEPT !.todo = @ \ {n}]
        PROVE  /\ IsJob(f) /\ f.pc = "load" /\ f.todo = job[p].todo \ {n}
               /\ f.best = job[p].best /\ f.stable = job[p].stable
    BY <1>5, <2>1 DEF IsJob
  <2>2. QED
    BY <1>2, <2>1
<1>7. /\ IsJob(r) /\ r.pc = "load" /\ r.todo = k.todo /\ r.stable = k.stable
      /\ r.best = IF Readable(n) /\ (k.best = None \/ Newer(disk[n], k.best))
                  THEN disk[n] ELSE k.best
  <2>1. ASSUME NEW f, NEW d, f = [k EXCEPT !.best = d]
        PROVE  /\ IsJob(f) /\ f.pc = "load" /\ f.todo = k.todo /\ f.stable = k.stable
               /\ f.best = d
    BY <1>6, <2>1 DEF IsJob
  <2>2. PICK d : d = disk[n]
    OBVIOUS
  <2>3. QED
    BY <1>3, <1>6, <2>1, <2>2
<1>8. disk[n] \in Saved(store) \cup {None} /\ (Readable(n) => disk[n] \in Saved(store))
  BY <1>5 DEF Readable, StoresInv, DiskInv
<1>9. \A s \in r.stable : \/ \E m \in r.todo : disk[m] = s
                          \/ r.best # None /\ Newer(r.best, s)
  <2> SUFFICES ASSUME NEW s \in r.stable, \A m \in r.todo : disk[m] # s
               PROVE  r.best # None /\ Newer(r.best, s)
    OBVIOUS
  <2>1. s \in Saved("metadata") /\ None \notin Saved("metadata") /\ Torn \notin Saved("metadata")
    BY <1>5, <1>6, <1>7, SavedFacts DEF StoresInv
  <2>2. CASE disk[n] = s
    <3>1. Readable(n) /\ disk[n] \in Saved("metadata")
      BY <2>1, <2>2 DEF Readable
    <3>2. CASE k.best = None \/ Newer(disk[n], k.best)
      BY <1>7, <2>1, <2>2, <3>1, <3>2, NewerOrder
    <3>3. CASE k.best # None /\ ~Newer(disk[n], k.best)
      BY <1>5, <1>6, <1>7, <2>2, <3>1, <3>3, NewerOrder
    <3>4. QED
      BY <3>2, <3>3
  <2>3. CASE disk[n] # s
    <3>1. job[p].best # None /\ Newer(job[p].best, s) /\ job[p].best \in Saved("metadata")
      BY <1>5, <1>6, <1>7, <2>3
    <3>2. CASE Readable(n) /\ Newer(disk[n], k.best)
      BY <1>5, <1>6, <1>7, <1>8, <2>1, <3>1, <3>2, NewerOrder
    <3>3. CASE ~(Readable(n) /\ Newer(disk[n], k.best))
      BY <1>6, <1>7, <3>1, <3>3
    <3>4. QED
      BY <3>2, <3>3
  <2>4. QED
    BY <2>2, <2>3
<1>10. UNCHANGED <<disk, clock, store>> /\ clock <= MaxTime[store]
  BY StoresAssumption DEF LoadReads, Quiet, StoresInv, DiskInv
<1>11. r.best \in Saved(store) \cup {None} /\ r.todo \subseteq Name
       /\ r.stable \subseteq Saved(store)
  BY <1>5, <1>6, <1>7, <1>8
<1>12. QED
  BY <1>4, <1>5, <1>7, <1>9, <1>10, <1>11, OnlyOwnJob

(* What an update is about to save is a draft of a document with models.   *)
LEMMA UpdateStep ==
  ASSUME StoresInv, NEW p \in Proc, Update(p)
  PROVE  StoresInv'
<1>1. PICK doc \in Docs :
        LET rev == IF doc.etag = None THEN clock' ELSE doc.etag
            s   == Draft(doc, rev, clock')
        IN Set(p, IF Valid(doc) /\ Accepts(job[p].best, s)
                  THEN [Idle EXCEPT !.pc = "open", !.name = rev, !.value = s, !.best = job[p].best]
                  ELSE Idle)
  BY DEF Update
<1>2. PICK rev : rev = IF doc.etag = None THEN clock' ELSE doc.etag
  OBVIOUS
<1>3. PICK s : s = Draft(doc, rev, clock')
  OBVIOUS
<1>4. PICK r : r = [Idle EXCEPT !.pc = "open", !.name = rev, !.value = s, !.best = job[p].best]
  OBVIOUS
<1>5. (Set(p, r) /\ Accepts(job[p].best, s)) \/ Set(p, Idle)
  BY <1>1, <1>2, <1>3, <1>4
<1>6. /\ UNCHANGED <<disk, store>>
      /\ clock' \in {clock, clock + 1} /\ clock' <= MaxTime[store]
      /\ store = "metadata"
  BY DEF Update, Quiet, Loaded, At, StoresInv, JobInv
<1>7. CASE Set(p, Idle)
  <2>1. IsJob(Idle) /\ Idle.pc = "idle"
    BY DEF IsJob, Idle
  <2>2. PICK j : j = Idle
    OBVIOUS
  <2>3. QED
    BY <1>6, <1>7, <2>1, <2>2, OnlyOwnJob
<1>8. CASE Set(p, r) /\ Accepts(job[p].best, s)
  <2>1. IsJob(r) /\ r.pc = "open" /\ r.value = s
    BY <1>4 DEF IsJob, Idle
  <2>2. clock' \in Name
    BY <1>6, StoresAssumption DEF StoresInv, DiskInv
  <2>3. rev \in Name
    BY <1>2, <2>2, StoresAssumption
  <2>4. DOMAIN doc.models # {}
    BY <1>3, <1>8 DEF Accepts, Emptied, Draft
  <2>5. s \in Saved("metadata")
    BY <1>3, <2>2, <2>3, <2>4 DEF Saved
  <2>6. QED
    BY <1>6, <1>8, <2>1, <2>5, OnlyOwnJob
<1>9. QED
  BY <1>5, <1>7, <1>8

(* An entry of the quarantine is its time.                                 *)
LEMMA AppendStep ==
  ASSUME StoresInv, NEW p \in Proc, Append(p)
  PROVE  StoresInv'
<1>1. PICK j : j = [Idle EXCEPT !.pc = "open", !.name = clock', !.value = [at |-> clock']]
  OBVIOUS
<1>2. IsJob(j) /\ j.pc = "open" /\ j.value = [at |-> clock']
  BY <1>1 DEF IsJob, Idle
<1>3. /\ Set(p, j) /\ UNCHANGED <<disk, store>> /\ store = "quarantine"
      /\ clock' \in {clock, clock + 1} /\ clock' <= MaxTime[store] /\ clock' \in Name
  <2>1. /\ Set(p, j) /\ UNCHANGED <<disk, store>> /\ store = "quarantine"
        /\ clock' = clock + 1 /\ clock < MaxTime[store]
    BY <1>1 DEF Append, Quiet
  <2>2. QED
    BY <2>1, StoresAssumption DEF StoresInv, DiskInv
<1>4. j.value \in Saved(store)
  BY <1>2, <1>3 DEF Saved
<1>5. QED
  BY <1>2, <1>3, <1>4, OnlyOwnJob

(* The victims are only chosen.                                            *)
LEMMA PruneListsStep ==
  ASSUME StoresInv, NEW p \in Proc, PruneLists(p)
  PROVE  StoresInv'
<1>1. PICK v : v = Victims(Listed)
  OBVIOUS
<1>2. PICK j : j = [job[p] EXCEPT !.pc = "remove", !.todo = v]
  OBVIOUS
<1>3. IsJob(job[p]) /\ store = "quarantine"
  BY DEF PruneLists, At, StoresInv, JobInv
<1>4. IsJob(j) /\ j.pc = "remove"
  BY <1>2, <1>3 DEF IsJob
<1>5. Set(p, j) /\ UNCHANGED <<disk, clock, store>> /\ clock <= MaxTime[store]
  BY <1>1, <1>2, StoresAssumption DEF PruneLists, Quiet, StoresInv, DiskInv
<1>6. QED
  BY <1>3, <1>4, <1>5, OnlyOwnJob

(* Only the quarantine is pruned, and nobody loads from it.                *)
LEMMA PruneRemovesStep ==
  ASSUME StoresInv, NEW p \in Proc, PruneRemoves(p)
  PROVE  StoresInv'
<1>1. CASE job[p].todo = {}
  BY <1>1, IdleStep DEF PruneRemoves, Quiet
<1>2. CASE job[p].todo # {}
  <2>1. PICK n \in job[p].todo : /\ RemoveCacheFile(n)
                                 /\ Set(p, [job[p] EXCEPT !.todo = @ \ {n}])
    BY <1>2 DEF PruneRemoves
  <2>2. PICK j : j = [job[p] EXCEPT !.todo = @ \ {n}]
    OBVIOUS
  <2>3. IsJob(job[p]) /\ job[p].pc = "remove" /\ store = "quarantine"
    BY DEF PruneRemoves, At, StoresInv, JobInv
  <2>4. IsJob(j) /\ j.pc = "remove"
    BY <2>2, <2>3 DEF IsJob
  <2>5. job' = [job EXCEPT ![p] = j] /\ UNCHANGED <<clock, store>>
    BY <2>1, <2>2 DEF Set, PruneRemoves, Quiet
  <2>6. \A q \in Proc : job'[q] = IF q = p THEN j ELSE job[q]
    BY <2>5 DEF StoresInv, JobInv
  <2>7. JobInv'
    <3>1. job' = [q \in Proc |-> job'[q]]
      BY <2>5 DEF StoresInv, JobInv
    <3>2. QED
      BY <2>3, <2>4, <2>5, <2>6, <3>1 DEF StoresInv, JobInv
  <2>8. DiskInv'
    BY <2>1, <2>5 DEF RemoveCacheFile, StoresInv, DiskInv
  <2>9. \A q \in Proc : job'[q].pc \notin {"load", "loaded"}
    BY <2>3, <2>4, <2>6 DEF StoresInv, JobInv
  <2>10. QED
    BY <2>7, <2>8, <2>9 DEF StoresInv, LoadInv, FoundInv, At
<1>3. QED
  BY <1>1, <1>2

(* A projection is saved under its key, at the generation of the moment.   *)
LEMMA SaveProjectionStep ==
  ASSUME StoresInv, NEW p \in Proc, SaveProjection(p)
  PROVE  StoresInv'
<1>1. PICK n \in 0..1, i \in Identity :
        Set(p, [Idle EXCEPT !.pc = "open", !.name = n,
                            !.value = [key |-> n, identity |-> i, generation |-> clock']])
  BY DEF SaveProjection
<1>2. PICK v : v = [key |-> n, identity |-> i, generation |-> clock']
  OBVIOUS
<1>3. PICK j : j = [Idle EXCEPT !.pc = "open", !.name = n, !.value = v]
  OBVIOUS
<1>4. IsJob(j) /\ j.pc = "open" /\ j.value = v
  BY <1>3 DEF IsJob, Idle
<1>5. /\ Set(p, j) /\ UNCHANGED <<disk, store>> /\ store = "projection"
      /\ clock' \in {clock, clock + 1} /\ clock' <= MaxTime[store]
  BY <1>1, <1>2, <1>3 DEF SaveProjection, Quiet
<1>6. clock' \in Name
  BY <1>5, StoresAssumption DEF StoresInv, DiskInv
<1>7. j.value \in Saved(store)
  BY <1>2, <1>4, <1>5, <1>6 DEF Saved
<1>8. QED
  BY <1>4, <1>5, <1>7, OnlyOwnJob

(* A projection that does not match is not found.                          *)
LEMMA LoadProjectionStep ==
  ASSUME StoresInv, NEW p \in Proc, LoadProjection(p)
  PROVE  StoresInv'
<1>1. PICK n \in 0..1, i \in Identity :
        LET w == [key |-> n, identity |-> i, minimum |-> clock] IN
        Set(p, [Idle EXCEPT !.pc = "loaded", !.wants = w,
                  !.best = IF Readable(n) /\ Matching(disk[n], w) THEN disk[n] ELSE None])
  BY DEF LoadProjection
<1>2. PICK w : w = [key |-> n, identity |-> i, minimum |-> clock]
  OBVIOUS
<1>3. PICK b : b = IF Readable(n) /\ Matching(disk[n], w) THEN disk[n] ELSE None
  OBVIOUS
<1>4. PICK j : j = [Idle EXCEPT !.pc = "loaded", !.wants = w, !.best = b]
  OBVIOUS
<1>5. IsJob(j) /\ j.pc = "loaded" /\ j.wants = w /\ j.best = b
  BY <1>4 DEF IsJob, Idle
<1>6. /\ Set(p, j) /\ UNCHANGED <<disk, clock, store>> /\ store = "projection"
      /\ clock <= MaxTime[store]
  BY <1>1, <1>2, <1>3, <1>4, StoresAssumption DEF LoadProjection, Quiet, StoresInv, DiskInv
<1>7. b # None => b.key = w.key /\ b.identity = w.identity /\ b.generation >= w.minimum
  BY <1>3 DEF Matching
<1>8. QED
  BY <1>5, <1>6, <1>7, OnlyOwnJob

(* A file being written is not there yet.                                  *)
LEMMA OpenStep ==
  ASSUME StoresInv, NEW p \in Proc, Open(p)
  PROVE  StoresInv'
<1>1. PICK j : j = [Idle EXCEPT !.pc = "rename", !.name = job[p].name, !.value = job[p].value]
  OBVIOUS
<1>2. IsJob(j) /\ j.pc = "rename" /\ j.value = job[p].value
  BY <1>1 DEF IsJob, Idle
<1>3. /\ Set(p, j) /\ UNCHANGED <<disk, clock, store>> /\ clock <= MaxTime[store]
      /\ job[p].pc = "open"
  BY <1>1, StoresAssumption DEF Open, At, Stage, Staged, Quiet, StoresInv, DiskInv
<1>4. j.value \in Saved(store)
  BY <1>2, <1>3 DEF StoresInv, JobInv
<1>5. QED
  BY <1>2, <1>3, <1>4, OnlyOwnJob

(* What a rename overwrites is not there all along; all else still is.     *)
LEMMA RenameStep ==
  ASSUME StoresInv, NEW p \in Proc, Rename(p)
  PROVE  StoresInv'
<1> USE DEF StoresInv
<1>1. PICK m : m = job[p].name
  OBVIOUS
<1>2. PICK v : v = job[p].value
  OBVIOUS
<1>3. PICK own : own = IF store = "quarantine" THEN [Idle EXCEPT !.pc = "prune"] ELSE Idle
  OBVIOUS
<1>4. /\ IsJob(own) /\ own.pc \in {"idle", "prune"}
      /\ own.pc = "prune" => store = "quarantine"
  BY <1>3 DEF IsJob, Idle
<1>5. job' = [q \in Proc |-> IF q = p THEN own ELSE [job[q] EXCEPT !.stable = @ \ {disk[m]}]]
  BY <1>1, <1>3 DEF Rename
<1>6. /\ disk' = [disk EXCEPT ![m] = v]
      /\ UNCHANGED <<store, clock>> /\ v \in Saved(store)
  BY <1>1, <1>2 DEF Rename, At, Publish, Quiet, JobInv
<1>7. job'[p] = own
  BY <1>5
<1>8. ASSUME NEW q \in Proc, q # p
      PROVE  /\ IsJob(job'[q])
             /\ job'[q].pc = job[q].pc /\ job'[q].value = job[q].value
             /\ job'[q].todo = job[q].todo /\ job'[q].best = job[q].best
             /\ job'[q].wants = job[q].wants
             /\ job'[q].stable = job[q].stable \ {disk[m]}
  <2>1. job'[q] = [job[q] EXCEPT !.stable = @ \ {disk[m]}]
    BY <1>5, <1>8
  <2>2. IsJob(job[q])
    BY DEF JobInv
  <2>3. ASSUME NEW f, NEW d, f = [job[q] EXCEPT !.stable = @ \ {d}]
        PROVE  /\ IsJob(f)
               /\ f.pc = job[q].pc /\ f.value = job[q].value
               /\ f.todo = job[q].todo /\ f.best = job[q].best
               /\ f.wants = job[q].wants
               /\ f.stable = job[q].stable \ {d}
    BY <2>2, <2>3 DEF IsJob
  <2>4. PICK d : d = disk[m]
    OBVIOUS
  <2>5. QED
    BY <2>1, <2>3, <2>4
<1>9. JobInv'
  <2>1. job' = [q \in Proc |-> job'[q]]
    BY <1>5
  <2>2. ASSUME NEW q \in Proc
        PROVE  /\ IsJob(job'[q])
               /\ job'[q].pc \in {"load"} => store = "metadata"
               /\ job'[q].pc \in {"prune", "remove"} => store = "quarantine"
               /\ job'[q].pc = "loaded" => store = "projection"
               /\ job'[q].pc \in {"open", "rename"} => job'[q].value \in Saved(store)
    <3>1. CASE q = p
      BY <1>4, <1>7, <3>1
    <3>2. CASE q # p
      BY <1>8, <3>2 DEF JobInv
    <3>3. QED
      BY <3>1, <3>2
  <2>3. QED
    BY <1>6, <2>1, <2>2 DEF JobInv
<1>10. DiskInv'
  BY <1>6 DEF DiskInv
<1>11. LoadInv'
  <2> SUFFICES ASSUME NEW q \in Proc, job'[q].pc = "load"
               PROVE  /\ job'[q].stable \subseteq Saved(store)
                      /\ job'[q].todo \subseteq Name
                      /\ job'[q].best \in Saved(store) \cup {None}
                      /\ \A s \in job'[q].stable :
                           \/ \E n \in job'[q].todo : disk'[n] = s
                           \/ job'[q].best # None /\ Newer(job'[q].best, s)
    BY <1>6 DEF LoadInv, At
  <2>1. q # p
    BY <1>4, <1>7
  <2>2. /\ job[q].stable \subseteq Saved(store) /\ job[q].todo \subseteq Name
        /\ job[q].best \in Saved(store) \cup {None}
        /\ \A s \in job[q].stable :
             \/ \E n \in job[q].todo : disk[n] = s
             \/ job[q].best # None /\ Newer(job[q].best, s)
    BY <1>8, <2>1 DEF LoadInv, At
  <2>3. ASSUME NEW s \in job'[q].stable, NEW n \in job[q].todo, disk[n] = s
        PROVE  disk'[n] = s
    <3>1. s # disk[m]
      BY <1>8, <2>1, <2>3
    <3>2. QED
      BY <1>6, <2>2, <2>3, <3>1 DEF DiskInv
  <2>4. QED
    BY <1>8, <2>1, <2>2, <2>3
<1>12. FoundInv'
  <2> SUFFICES ASSUME NEW q \in Proc, job'[q].pc = "loaded", job'[q].best # None
               PROVE  /\ job'[q].best.key = job'[q].wants.key
                      /\ job'[q].best.identity = job'[q].wants.identity
                      /\ job'[q].best.generation >= job'[q].wants.minimum
    BY DEF FoundInv, At
  <2>1. q # p
    BY <1>4, <1>7
  <2>2. QED
    BY <1>8, <2>1 DEF FoundInv, At
<1>13. QED
  BY <1>9, <1>10, <1>11, <1>12

(* Every step keeps the invariant.                                         *)
LEMMA StepInv == StoresInv /\ [Next]_vars => StoresInv'
<1> SUFFICES ASSUME StoresInv, [Next]_vars PROVE StoresInv'
  OBVIOUS
<1>1. CASE UNCHANGED vars
  BY <1>1 DEF vars, StoresInv, JobInv, DiskInv, LoadInv, FoundInv, At
<1>2. ASSUME NEW p \in Proc, RenameFails(p) \/ Return(p) \/ Crash(p)
      PROVE  StoresInv'
  <2>1. Set(p, Idle) /\ UNCHANGED <<disk, clock, store>>
    BY <1>2 DEF RenameFails, Return, Crash, Quiet
  <2>2. QED
    BY <2>1, IdleStep
<1>3. CASE Next
  BY <1>2, <1>3, LoadBeginsStep, LoadReadsStep, UpdateStep, AppendStep, PruneListsStep,
     PruneRemovesStep, SaveProjectionStep, LoadProjectionStep, OpenStep, RenameStep DEF Next
<1>4. QED
  BY <1>1, <1>3

(* What is on the disk and what a load holds are saved contents, and a     *)
(* finished load has nothing left to read that could be newer.             *)
LEMMA InvSound == StoresInv => LoadsAreSound
<1> SUFFICES ASSUME StoresInv PROVE LoadsAreSound
  OBVIOUS
<1>1. \A n \in Name : disk[n] # Torn
  <2>1. None # Torn
    BY StoresAssumption
  <2>2. QED
    BY <2>1, SavedFacts DEF StoresInv, DiskInv
<1>2. ASSUME NEW p \in Proc, Loaded(p)
      PROVE  /\ \A s \in job[p].stable : job[p].best # None /\ Newer(job[p].best, s)
             /\ job[p].best # None => DOMAIN job[p].best.models # {}
  <2>1. /\ job[p].best \in Saved("metadata") \cup {None}
        /\ \A s \in job[p].stable : job[p].best # None /\ Newer(job[p].best, s)
    BY <1>2 DEF Loaded, At, StoresInv, JobInv, LoadInv
  <2>2. \A s \in Saved("metadata") : DOMAIN s.models # {}
    BY DEF Saved, Draft
  <2>3. QED
    BY <2>1, <2>2
<1>3. ASSUME NEW p \in Proc, At(p, "loaded"), job[p].best # None
      PROVE  /\ job[p].best.key = job[p].wants.key
             /\ job[p].best.identity = job[p].wants.identity
             /\ job[p].best.generation >= job[p].wants.minimum
  BY <1>3 DEF StoresInv, FoundInv
<1>4. QED
  BY <1>1, <1>2, <1>3 DEF LoadsAreSound

(* No file is there in part; a load of the metadata is as new as anything  *)
(* that lay there throughout and never empty; a load of a projection is    *)
(* the caller's own, at a generation it accepts.                           *)
THEOREM SoundLoads == Spec => []LoadsAreSound
  BY InitInv, StepInv, InvSound, PTL DEF Spec

-----------------------------------------------------------------------------
(* The quarantine.  Finite sets first.                                     *)

Above(n, S) == {y \in S : y > n}

(* Among the subsets of a finite set that are in F there is a minimal one. *)
LEMMA MinimalSubset ==
  ASSUME NEW S, IsFiniteSet(S), NEW F \in SUBSET (SUBSET S), F # {}
  PROVE  \E T \in F : \A U \in F : U \subseteq T => U = T
<1>1. IsWellFoundedOn(StrictSubsetOrdering(S), SUBSET S)
  BY FS_StrictSubsetOrderingWellFounded, FS_FiniteSubsetsOfFinite
<1>2. PICK T \in F : \A U \in F : ~ (<<U, T>> \in StrictSubsetOrdering(S))
  BY <1>1, WFMin
<1>3. QED
  BY <1>2 DEF StrictSubsetOrdering

(* A nonempty set of times has a first one.                                *)
LEMMA Earliest ==
  ASSUME NEW n \in Nat, NEW S \in SUBSET (1..n), S # {}
  PROVE  \E m \in S : \A y \in S : m <= y
<1> DEFINE F == {1..m : m \in S}
<1>1. PICK P : P = 1..n
  OBVIOUS
<1>2. IsFiniteSet(P)
  BY <1>1, FS_Interval
<1>3. F \in SUBSET (SUBSET P)
  <2>1. \A x \in S : x \in 1..n
    OBVIOUS
  <2>2. \A x \in S : \A y \in 1..x : y \in 1..n
    BY <2>1
  <2>3. QED
    BY <2>2, <1>1
<1>4. F # {}
  OBVIOUS
<1>5. PICK T \in F : \A U \in F : U \subseteq T => U = T
  <2> HIDE DEF F
  <2>1. QED
    BY <1>2, <1>3, <1>4, MinimalSubset
<1>6. PICK m \in S : T = 1..m
  OBVIOUS
<1>7. \A y \in S : m <= y
  <2> SUFFICES ASSUME NEW y \in S, ~(m <= y) PROVE FALSE
    OBVIOUS
  <2>1. 1..y \subseteq T /\ m \in T /\ m \notin 1..y
    BY <1>6
  <2>2. QED
    BY <2>1, <1>5
<1>8. QED
  BY <1>7

(* Of the entries fewer than n have at least n - 1 above the first of them.*)
LEMMA FewNewest ==
  ASSUME NEW k \in Nat, NEW S \in SUBSET (1..k), NEW n \in Nat
  PROVE  Cardinality(Newest(n, S)) <= n
<1>1. IsFiniteSet(S)
  <2>1. PICK P : P = 1..k
    OBVIOUS
  <2>2. IsFiniteSet(P) /\ S \subseteq P
    BY <2>1, FS_Interval
  <2>3. QED
    BY <2>2, FS_Subset
<1>2. PICK N : N = Newest(n, S)
  OBVIOUS
<1>3. N \subseteq S /\ IsFiniteSet(N)
  <2>1. N \subseteq S
    BY <1>2 DEF Newest
  <2>2. QED
    BY <1>1, <2>1, FS_Subset
<1>4. CASE N = {}
  BY <1>2, <1>4, FS_EmptySet
<1>5. CASE N # {}
  <2>1. PICK m \in N : \A y \in N : m <= y
    BY <1>3, <1>5, Earliest
  <2>2. PICK A : A = {y \in S : y > m}
    OBVIOUS
  <2>3. Cardinality(A) < n
    BY <1>2, <2>2 DEF Newest
  <2>4. A \subseteq S /\ IsFiniteSet(A)
    BY <1>1, <2>2, FS_Subset
  <2>5. N \ {m} \subseteq A
    BY <1>3, <2>1, <2>2
  <2>6. Cardinality(N \ {m}) <= Cardinality(A)
    BY <2>4, <2>5, FS_Subset
  <2>7. Cardinality(N \ {m}) = Cardinality(N) - 1
    BY <1>3, FS_RemoveElement
  <2>8. Cardinality(N) \in Nat /\ Cardinality(A) \in Nat
    BY <1>3, <2>4, FS_CardinalityType
  <2>9. QED
    BY <1>2, <2>3, <2>6, <2>7, <2>8
<1>6. QED
  BY <1>4, <1>5

(* What has been published is finitely much, and more of it leaves no      *)
(* fewer above.                                                            *)
LEMMA MoreAbove ==
  ASSUME NEW k \in Nat, NEW T \in SUBSET (1..k), NEW S \in SUBSET T, NEW n
  PROVE  /\ IsFiniteSet(T) /\ IsFiniteSet(S)
         /\ Cardinality(Above(n, S)) \in Nat /\ Cardinality(Above(n, T)) \in Nat
         /\ Cardinality(Above(n, S)) <= Cardinality(Above(n, T))
<1>1. PICK P : P = 1..k
  OBVIOUS
<1>2. IsFiniteSet(P) /\ T \subseteq P
  BY <1>1, FS_Interval
<1>3. IsFiniteSet(T) /\ IsFiniteSet(S)
  BY <1>2, FS_Subset
<1>4. PICK A : A = Above(n, S)
  OBVIOUS
<1>5. PICK B : B = Above(n, T)
  OBVIOUS
<1>6. A \subseteq B /\ B \subseteq T
  BY <1>4, <1>5 DEF Above
<1>7. IsFiniteSet(B) /\ IsFiniteSet(A)
  BY <1>3, <1>6, FS_Subset
<1>8. QED
  BY <1>3, <1>4, <1>5, <1>6, <1>7, FS_Subset, FS_CardinalityType

-----------------------------------------------------------------------------
(* An entry is there only if it was published, and its name is a time past.*)
NamesInv ==
  /\ crashes \in Nat
  /\ saved \subseteq 1..clock /\ Listed \subseteq saved
  /\ \A p \in Proc : job[p].pc \in {"open", "rename"} => job[p].name \in 1..clock

(* A victim has been overtaken by Cap entries, whatever comes later.       *)
VictimsInv ==
  \A p \in Proc : job[p].pc = "remove" =>
    \A n \in job[p].todo : n \in saved /\ Cap <= Cardinality(Above(n, saved))

KeptInv == Newest(Cap, saved) \subseteq Listed

(* Unless someone has yet to list, the entries that are not about to go    *)
(* are no more than the cap.                                               *)
Doomed == UNION {job[p].todo : p \in {q \in Proc : job[q].pc = "remove"}}
CapInv ==
  crashes = 0 /\ (\A p \in Proc : job[p].pc # "prune") => Cardinality(Listed \ Doomed) <= Cap

QuarantineInv == store = "quarantine" => NamesInv /\ VictimsInv /\ KeptInv /\ CapInv

(* A step that leaves the entries and the victims alone.                   *)
LEMMA AsideStep ==
  ASSUME StoresInv, QuarantineInv, NEW p \in Proc, NEW j, Set(p, j),
         UNCHANGED <<disk, saved, store>>, clock' \in {clock, clock + 1}, crashes' = crashes,
         job[p].pc \notin {"prune", "remove"}, j.pc \notin {"prune", "remove"},
         store = "quarantine" /\ j.pc \in {"open", "rename"} => j.name \in 1..clock'
  PROVE  QuarantineInv'
<1> SUFFICES ASSUME store = "quarantine"
             PROVE  NamesInv' /\ VictimsInv' /\ KeptInv' /\ CapInv'
  BY DEF QuarantineInv
<1>1. job'[p] = j /\ \A q \in Proc : q # p => job'[q] = job[q]
  BY DEF Set, StoresInv, JobInv
<1>2. Listed' = Listed
  BY DEF Listed
<1>3. clock \in Nat
  BY StoresAssumption DEF StoresInv, DiskInv
<1>4. NamesInv'
  <2>1. saved \subseteq 1..clock'
    BY <1>3 DEF QuarantineInv, NamesInv
  <2>2. ASSUME NEW q \in Proc, job'[q].pc \in {"open", "rename"}
        PROVE  job'[q].name \in 1..clock'
    BY <1>1, <1>3, <2>2 DEF QuarantineInv, NamesInv
  <2>3. QED
    BY <1>2, <2>1, <2>2 DEF QuarantineInv, NamesInv
<1>5. VictimsInv'
  BY <1>1 DEF QuarantineInv, VictimsInv
<1>6. KeptInv'
  BY <1>2 DEF QuarantineInv, KeptInv
<1>7. CapInv'
  <2>1. Doomed' = Doomed
    BY <1>1 DEF Doomed
  <2>2. (\A q \in Proc : job'[q].pc # "prune") <=> (\A q \in Proc : job[q].pc # "prune")
    BY <1>1
  <2>3. QED
    BY <1>2, <2>1, <2>2 DEF QuarantineInv, CapInv
<1>8. QED
  BY <1>4, <1>5, <1>6, <1>7

(* A crash leaves the entries as they are.                                 *)
LEMMA CrashAside ==
  ASSUME StoresInv, QuarantineInv, NEW p \in Proc, Crash(p)
  PROVE  QuarantineInv'
<1> SUFFICES ASSUME store = "quarantine"
             PROVE  NamesInv' /\ VictimsInv' /\ KeptInv' /\ CapInv'
  BY DEF QuarantineInv, Crash
<1>1. job'[p].pc = "idle" /\ \A q \in Proc : q # p => job'[q] = job[q]
  BY DEF Crash, Set, Idle, StoresInv, JobInv
<1>2. Listed' = Listed /\ UNCHANGED <<saved, clock>> /\ crashes' = crashes + 1
  BY DEF Listed, Crash
<1>3. QED
  BY <1>1, <1>2 DEF QuarantineInv, NamesInv, VictimsInv, KeptInv, CapInv

(* The victims of a listing have been overtaken within it; all else is few.*)
LEMMA PruneListsAside ==
  ASSUME StoresInv, QuarantineInv, NEW p \in Proc, PruneLists(p)
  PROVE  QuarantineInv'
<1> SUFFICES ASSUME store = "quarantine"
             PROVE  NamesInv' /\ VictimsInv' /\ KeptInv' /\ CapInv'
  BY DEF QuarantineInv, PruneLists, Quiet
<1>1. PICK v : v = Victims(Listed)
  OBVIOUS
<1>2. PICK j : j = [job[p] EXCEPT !.pc = "remove", !.todo = v]
  OBVIOUS
<1>3. IsJob(job[p]) /\ job[p].pc = "prune"
  BY DEF PruneLists, At, StoresInv, JobInv
<1>4. j.pc = "remove" /\ j.todo = v
  BY <1>2, <1>3 DEF IsJob
<1>5. Set(p, j)
  BY <1>1, <1>2 DEF PruneLists
<1>6. job'[p] = j /\ \A q \in Proc : q # p => job'[q] = job[q]
  BY <1>5 DEF Set, StoresInv, JobInv
<1>7. Listed' = Listed /\ UNCHANGED <<saved, clock, crashes>>
  BY DEF Listed, PruneLists, Quiet
<1>8. clock \in Nat /\ saved \in SUBSET (1..clock) /\ Listed \in SUBSET saved
  BY StoresAssumption DEF StoresInv, DiskInv, QuarantineInv, NamesInv
<1>9. Cap \in Nat
  BY StoresAssumption
<1>10. NamesInv'
  BY <1>4, <1>6, <1>7 DEF QuarantineInv, NamesInv
<1>11. VictimsInv'
  <2>1. ASSUME NEW n \in v PROVE n \in saved /\ Cap <= Cardinality(Above(n, saved))
    <3>1. n \in Listed /\ ~(Cardinality(Above(n, Listed)) < Cap)
      BY <1>1 DEF Victims, Newest, Above
    <3>2. PICK within : within = Cardinality(Above(n, Listed))
      OBVIOUS
    <3>3. PICK ever : ever = Cardinality(Above(n, saved))
      OBVIOUS
    <3>4. within \in Nat /\ ever \in Nat /\ within <= ever
      BY <1>8, <3>2, <3>3, MoreAbove
    <3>5. n \in saved /\ Cap <= ever
      BY <1>8, <1>9, <3>1, <3>2, <3>4
    <3>6. QED
      BY <3>3, <3>5
  <2>2. QED
    BY <1>4, <1>6, <1>7, <2>1 DEF QuarantineInv, VictimsInv
<1>12. KeptInv'
  BY <1>7 DEF QuarantineInv, KeptInv
<1>13. CapInv'
  <2>1. v \subseteq Doomed'
    BY <1>4, <1>6 DEF Doomed
  <2>2. PICK few : few = Newest(Cap, Listed)
    OBVIOUS
  <2>3. Listed \ Doomed' \subseteq few
    BY <1>1, <2>1, <2>2 DEF Victims
  <2>4. few \subseteq Listed
    BY <2>2 DEF Newest
  <2>5. Listed \in SUBSET (1..clock) /\ IsFiniteSet(Listed)
    BY <1>8, MoreAbove
  <2>6. Cardinality(few) <= Cap
    BY <1>8, <1>9, <2>2, <2>5, FewNewest
  <2>7. PICK left : left = Listed \ Doomed'
    OBVIOUS
  <2>8. IsFiniteSet(few) /\ IsFiniteSet(left) /\ left \subseteq few
    BY <2>3, <2>4, <2>5, <2>7, FS_Subset
  <2>9. Cardinality(left) <= Cardinality(few)
    BY <2>8, FS_Subset
  <2>10. Cardinality(left) <= Cap
    BY <1>9, <2>6, <2>8, <2>9, FS_CardinalityType
  <2>11. QED
    BY <1>7, <2>7, <2>10 DEF CapInv
<1>14. QED
  BY <1>10, <1>11, <1>12, <1>13

(* Only a victim goes, and no victim is among the newest.                  *)
LEMMA PruneRemovesAside ==
  ASSUME StoresInv, QuarantineInv, NEW p \in Proc, PruneRemoves(p)
  PROVE  QuarantineInv'
<1> SUFFICES ASSUME store = "quarantine"
             PROVE  NamesInv' /\ VictimsInv' /\ KeptInv' /\ CapInv'
  BY DEF QuarantineInv, PruneRemoves, Quiet
<1>1. UNCHANGED <<clock, crashes, store>> /\ IsJob(job[p]) /\ job[p].pc = "remove"
  BY DEF PruneRemoves, Quiet, At, StoresInv, JobInv
<1>2. CASE job[p].todo = {}
  <2>1. Set(p, Idle) /\ UNCHANGED <<disk, saved>>
    BY <1>2 DEF PruneRemoves
  <2>2. job'[p].pc = "idle" /\ \A q \in Proc : q # p => job'[q] = job[q]
    BY <2>1 DEF Set, Idle, StoresInv, JobInv
  <2>3. Listed' = Listed
    BY <2>1 DEF Listed
  <2>4. Doomed \subseteq Doomed'
    BY <1>2, <2>2 DEF Doomed
  <2>5. NamesInv' /\ VictimsInv' /\ KeptInv'
    BY <1>1, <2>1, <2>2, <2>3 DEF QuarantineInv, NamesInv, VictimsInv, KeptInv
  <2>6. Doomed' \subseteq Doomed
    BY <2>2 DEF Doomed
  <2>7. CapInv'
    BY <1>1, <2>2, <2>3, <2>4, <2>6 DEF QuarantineInv, CapInv
  <2>8. QED
    BY <2>5, <2>7
<1>3. CASE job[p].todo # {}
  <2>1. PICK n \in job[p].todo : /\ RemoveCacheFile(n)
                                 /\ Set(p, [job[p] EXCEPT !.todo = @ \ {n}])
    BY <1>3 DEF PruneRemoves
  <2>2. PICK j : j = [job[p] EXCEPT !.todo = @ \ {n}]
    OBVIOUS
  <2>3. j.pc = "remove" /\ j.todo = job[p].todo \ {n}
    BY <1>1, <2>2 DEF IsJob
  <2>4. job'[p] = j /\ \A q \in Proc : q # p => job'[q] = job[q]
    BY <2>1, <2>2 DEF Set, StoresInv, JobInv
  <2>5. UNCHANGED saved /\ Listed' = Listed \ {n}
    BY <2>1 DEF RemoveCacheFile, Listed, StoresInv, DiskInv
  <2>6. clock \in Nat /\ saved \in SUBSET (1..clock) /\ Listed \in SUBSET saved
    BY StoresAssumption DEF StoresInv, DiskInv, QuarantineInv, NamesInv
  <2>7. NamesInv'
    BY <1>1, <2>3, <2>4, <2>5 DEF QuarantineInv, NamesInv
  <2>8. VictimsInv'
    BY <1>1, <2>3, <2>4, <2>5 DEF QuarantineInv, VictimsInv
  <2>9. KeptInv'
    <3>1. Cap <= Cardinality(Above(n, saved))
      BY <1>1 DEF QuarantineInv, VictimsInv
    <3>2. Cap \in Nat /\ Cardinality(Above(n, saved)) \in Nat
      BY <2>6, MoreAbove, StoresAssumption
    <3>3. n \notin Newest(Cap, saved)
      BY <3>1, <3>2 DEF Newest, Above
    <3>4. QED
      BY <2>5, <3>3 DEF QuarantineInv, KeptInv
  <2>10. CapInv'
    <3>1. Doomed \ {n} \subseteq Doomed'
      BY <1>1, <2>3, <2>4 DEF Doomed
    <3>2. PICK now : now = Listed \ Doomed
      OBVIOUS
    <3>3. PICK next : next = Listed' \ Doomed'
      OBVIOUS
    <3>4. n \in Doomed
      BY <1>1 DEF Doomed
    <3>5. next \subseteq now
      BY <2>5, <3>1, <3>2, <3>3, <3>4
    <3>6. IsFiniteSet(now) /\ IsFiniteSet(next)
      <4>1. IsFiniteSet(Listed) /\ now \subseteq Listed
        BY <2>6, <3>2, MoreAbove
      <4>2. QED
        BY <3>5, <4>1, FS_Subset
    <3>7. Cardinality(next) <= Cardinality(now) /\ Cardinality(next) \in Nat
          /\ Cardinality(now) \in Nat /\ Cap \in Nat
      BY <3>5, <3>6, FS_Subset, FS_CardinalityType, StoresAssumption
    <3>8. (\A q \in Proc : job'[q].pc # "prune") => \A q \in Proc : job[q].pc # "prune"
      BY <1>1, <2>4
    <3>9. QED
      BY <1>1, <3>2, <3>3, <3>7, <3>8 DEF QuarantineInv, CapInv
  <2>11. QED
    BY <2>7, <2>8, <2>9, <2>10
<1>4. QED
  BY <1>2, <1>3

(* A published entry may displace an older one, and its process will list. *)
LEMMA RenameAside ==
  ASSUME StoresInv, QuarantineInv, NEW p \in Proc, Rename(p)
  PROVE  QuarantineInv'
<1> SUFFICES ASSUME store = "quarantine"
             PROVE  NamesInv' /\ VictimsInv' /\ KeptInv' /\ CapInv'
  BY DEF QuarantineInv, Rename, Quiet
<1>1. PICK m : m = job[p].name
  OBVIOUS
<1>2. PICK own : own = [Idle EXCEPT !.pc = "prune"]
  OBVIOUS
<1>3. own.pc = "prune"
  BY <1>2 DEF Idle
<1>4. job' = [q \in Proc |-> IF q = p THEN own ELSE [job[q] EXCEPT !.stable = @ \ {disk[m]}]]
  BY <1>1, <1>2 DEF Rename
<1>5. ASSUME NEW q \in Proc, q # p
      PROVE  /\ job'[q].pc = job[q].pc /\ job'[q].todo = job[q].todo
             /\ job'[q].name = job[q].name
  <2>1. PICK d : d = disk[m]
    OBVIOUS
  <2>2. PICK f : f = [job[q] EXCEPT !.stable = @ \ {d}]
    OBVIOUS
  <2>3. job'[q] = f
    BY <1>4, <1>5, <2>1, <2>2
  <2>4. IsJob(job[q])
    BY DEF StoresInv, JobInv
  <2>5. QED
    BY <2>2, <2>3, <2>4 DEF IsJob
<1>6. job'[p].pc = "prune"
  BY <1>3, <1>4
<1>7. clock \in Nat /\ m \in 1..clock /\ m \in Name /\ saved \in SUBSET (1..clock)
  <2>1. clock \in 0..MaxTime[store] /\ MaxTime[store] \in Nat /\ 0..MaxTime[store] \subseteq Name
    BY StoresAssumption DEF StoresInv, DiskInv
  <2>2. m \in 1..clock /\ saved \in SUBSET (1..clock)
    BY <1>1 DEF Rename, At, QuarantineInv, NamesInv
  <2>3. QED
    BY <2>1, <2>2
<1>8. UNCHANGED <<clock, crashes, store>> /\ saved' = saved \cup {m}
  BY <1>1 DEF Rename, Publish, Quiet
<1>9. Listed' = Listed \cup {m}
  <2>1. job[p].value # None
    BY SavedFacts DEF Rename, At, StoresInv, JobInv
  <2>2. disk' = [disk EXCEPT ![m] = job[p].value]
    BY <1>1 DEF Rename, Publish
  <2>3. disk = [x \in Name |-> disk[x]]
    BY DEF StoresInv, DiskInv
  <2>4. QED
    BY <1>7, <2>1, <2>2, <2>3 DEF Listed
<1>10. saved' \in SUBSET (1..clock) /\ saved \in SUBSET saved'
  BY <1>7, <1>8
<1>11. \A n : Cardinality(Above(n, saved)) <= Cardinality(Above(n, saved'))
               /\ Cardinality(Above(n, saved)) \in Nat /\ Cardinality(Above(n, saved')) \in Nat
  <2>1. PICK more : more = saved'
    OBVIOUS
  <2>2. QED
    BY <1>7, <1>10, <2>1, MoreAbove
<1>12. NamesInv'
  BY <1>5, <1>6, <1>8, <1>9, <1>10 DEF QuarantineInv, NamesInv
<1>13. VictimsInv'
  <2>1. Cap \in Nat
    BY StoresAssumption
  <2>2. ASSUME NEW q \in Proc, job'[q].pc = "remove", NEW n \in job'[q].todo
        PROVE  n \in saved' /\ Cap <= Cardinality(Above(n, saved'))
    <3>1. job[q].pc = "remove" /\ n \in job[q].todo
      BY <1>5, <1>6, <2>2
    <3>2. n \in saved /\ Cap <= Cardinality(Above(n, saved))
      BY <3>1 DEF QuarantineInv, VictimsInv
    <3>3. QED
      BY <1>8, <1>11, <2>1, <3>2
  <2>3. QED
    BY <2>2 DEF VictimsInv
<1>14. KeptInv'
  <2>1. Cap \in Nat
    BY StoresAssumption
  <2>2. ASSUME NEW x \in Newest(Cap, saved'), x # m PROVE x \in Listed
    <3>1. x \in saved /\ Cardinality(Above(x, saved')) < Cap
      BY <1>8, <2>2 DEF Newest, Above
    <3>2. Cardinality(Above(x, saved)) < Cap
      BY <1>11, <2>1, <3>1
    <3>3. QED
      BY <3>1, <3>2 DEF QuarantineInv, KeptInv, Newest, Above
  <2>3. Newest(Cap, saved') \subseteq Listed'
    BY <1>9, <2>2
  <2>4. QED
    BY <2>3 DEF KeptInv
<1>15. CapInv'
  BY <1>6 DEF CapInv
<1>16. QED
  BY <1>12, <1>13, <1>14, <1>15

(* Every step keeps the quarantine in order.                               *)
LEMMA QuarantineStep == StoresInv /\ QuarantineInv /\ [Next]_vars => QuarantineInv'
<1> SUFFICES ASSUME StoresInv, QuarantineInv, [Next]_vars PROVE QuarantineInv'
  OBVIOUS
<1>1. CASE UNCHANGED vars
  BY <1>1 DEF vars, QuarantineInv, NamesInv, VictimsInv, KeptInv, CapInv, Listed, Doomed
<1>2. ASSUME NEW p \in Proc,
             LoadBegins(p) \/ LoadReads(p) \/ Update(p) \/ SaveProjection(p)
               \/ LoadProjection(p) \/ Return(p)
      PROVE  QuarantineInv'
  <2>1. store # "quarantine" /\ store' = store
    BY <1>2 DEF LoadBegins, LoadReads, Update, SaveProjection, LoadProjection, Return, Loaded,
                At, Quiet, StoresInv, JobInv
  <2>2. QED
    BY <2>1 DEF QuarantineInv
<1>3. ASSUME NEW p \in Proc, Append(p) PROVE QuarantineInv'
  <2>1. PICK j : j = [Idle EXCEPT !.pc = "open", !.name = clock', !.value = [at |-> clock']]
    OBVIOUS
  <2>2. j.pc = "open" /\ j.name = clock'
    BY <2>1 DEF Idle
  <2>3. Set(p, j) /\ UNCHANGED <<disk, saved, store>> /\ clock' = clock + 1 /\ crashes' = crashes
        /\ job[p].pc = "idle"
    BY <1>3, <2>1 DEF Append, Quiet, At
  <2>4. clock \in Nat
    BY StoresAssumption DEF StoresInv, DiskInv
  <2>5. j.name \in 1..clock'
    BY <2>2, <2>3, <2>4
  <2>6. QED
    BY <2>2, <2>3, <2>5, AsideStep
<1>4. ASSUME NEW p \in Proc, Open(p) PROVE QuarantineInv'
  <2>1. PICK j : j = [Idle EXCEPT !.pc = "rename", !.name = job[p].name, !.value = job[p].value]
    OBVIOUS
  <2>2. j.pc = "rename" /\ j.name = job[p].name
    BY <2>1 DEF Idle
  <2>3. Set(p, j) /\ UNCHANGED <<disk, saved, store>> /\ clock' = clock /\ crashes' = crashes
        /\ job[p].pc = "open"
    BY <1>4, <2>1 DEF Open, Stage, Staged, Quiet, At
  <2>4. store = "quarantine" => j.name \in 1..clock'
    BY <2>2, <2>3 DEF QuarantineInv, NamesInv
  <2>5. QED
    BY <2>2, <2>3, <2>4, AsideStep
<1>5. ASSUME NEW p \in Proc, RenameFails(p) PROVE QuarantineInv'
  <2>1. PICK j : j = Idle
    OBVIOUS
  <2>2. j.pc = "idle"
    BY <2>1 DEF Idle
  <2>3. Set(p, j) /\ UNCHANGED <<disk, saved, store>> /\ clock' = clock /\ crashes' = crashes
        /\ job[p].pc = "rename"
    BY <1>5, <2>1 DEF RenameFails, Quiet, At
  <2>4. QED
    BY <2>2, <2>3, AsideStep
<1>6. CASE Next
  BY <1>2, <1>3, <1>4, <1>5, <1>6, PruneListsAside, PruneRemovesAside, RenameAside, CrashAside
     DEF Next
<1>7. QED
  BY <1>1, <1>6

(* Nobody prunes what another has just appended: of all entries ever       *)
(* published the newest are there, whoever prunes from whatever listing    *)
(* and whoever stops; and once all who appended have also pruned there are *)
(* no more than the cap.                                                   *)
THEOREM NewestKept == Spec => []QuarantineKeepsNewest
<1>1. Init => QuarantineInv
  <2> SUFFICES ASSUME Init, store = "quarantine"
               PROVE  NamesInv /\ VictimsInv /\ KeptInv /\ CapInv
    BY DEF QuarantineInv
  <2>1. Listed = {} /\ saved = {} /\ crashes = 0 /\ \A p \in Proc : job[p].pc = "idle"
    BY DEF Init, SafeFileInit, Listed, Idle
  <2>2. Cardinality(Listed \ Doomed) <= Cap
    <3>1. Listed \ Doomed = {}
      BY <2>1
    <3>2. QED
      BY <3>1, FS_EmptySet, StoresAssumption
  <2>3. QED
    BY <2>1, <2>2 DEF NamesInv, VictimsInv, KeptInv, CapInv, Newest
<1>2. QuarantineInv => QuarantineKeepsNewest
  <2> SUFFICES ASSUME QuarantineInv, store = "quarantine"
               PROVE  /\ Newest(Cap, saved) \subseteq Listed
                      /\ crashes = 0 /\ (\A p \in Proc : At(p, "idle")) => Cardinality(Listed) <= Cap
    BY DEF QuarantineKeepsNewest
  <2>1. ASSUME \A p \in Proc : At(p, "idle") PROVE Listed \ Doomed = Listed
    BY <2>1 DEF At, Doomed
  <2>2. QED
    BY <2>1 DEF QuarantineInv, KeptInv, CapInv, At
<1>3. QED
  BY <1>1, <1>2, InitInv, StepInv, QuarantineStep, PTL DEF Spec
=============================================================================
