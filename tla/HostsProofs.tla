---------------------------- MODULE HostsProofs ----------------------------
(***************************************************************************)
(* Theorems about Hosts, for any keys, whitelist, serialisations and       *)
(* number of identity changes.                                             *)
(***************************************************************************)
EXTENDS Hosts, TLAPS

Injected == {"plugin"} \X Revisions
MaybeInjected == {None} \cup Injected

(* The shapes the other parts rest on.                                     *)
TypeInv ==
  /\ kind \in {"v1", "v2", "section"}
  /\ epoch \in Nat
  /\ models \in [Key -> Entries]
  /\ record \in [epoch : {None} \cup Nat, last : [Key -> MaybeInjected]]
  /\ wanted \subseteq Key
  /\ kind # "v1" => models = Nothing
  /\ kind # "v2" => snapshot = None
  /\ section \in [shown : SUBSET Key, owned : SUBSET Key, explicit : SUBSET Key]

(* V1: an injected entry that was written under the identity last projected*)
(* is wanted, and is on record as it stands; none is of a later epoch.     *)
RecordInv ==
  \A k \in Key : Plugins(models[k]) =>
    /\ record.epoch \in 0..epoch
    /\ since[k] \in 0..record.epoch
    /\ since[k] = record.epoch => k \in wanted /\ record.last[k] = models[k]

(* V2: the snapshot has the wanted keys, and the catalogue is up to date   *)
(* unless a reload is advised.                                             *)
SnapshotInv ==
  snapshot # None =>
    /\ snapshot.routes \subseteq Key \X Revisions
    /\ {p[1] : p \in snapshot.routes} = wanted
    /\ ~reload => catalog = Transform(hostOwn)

SectionInv == section.shown = section.owned \cup section.explicit

HostsInv == TypeInv /\ RecordInv /\ SnapshotInv /\ SectionInv

-----------------------------------------------------------------------------
(* A draft with nothing to show shows nothing, whatever its routes are.    *)
LEMMA DraftFacts ==
  ASSUME NEW d \in Drafts
  PROVE  d.auto \subseteq Key /\ (d.state \in EmptyStates => d.auto = {})
<1>1. CASE d = P!DelegatedDraft
  BY <1>1 DEF P!DelegatedDraft
<1>2. CASE d = P!UnavailableDraft
  BY <1>2 DEF P!UnavailableDraft, P!DelegatedDraft
<1>3. ASSUME NEW i \in Inventories, d = P!CompleteDraft(i)
      PROVE  d.auto \subseteq Key /\ (d.state \in EmptyStates => d.auto = {})
  BY <1>3 DEF P!CompleteDraft, P!DelegatedDraft, P!Callable, P!Route, Inventories, EmptyStates
<1>4. QED
  BY <1>1, <1>2, <1>3 DEF Drafts

(* The snapshot of a draft has the automatic keys of the draft.            *)
LEMMA RouteKeys ==
  ASSUME NEW d \in Drafts, NEW rev \in Revisions
  PROVE  /\ Routes(d, rev) \subseteq Key \X Revisions
         /\ {p[1] : p \in Routes(d, rev)} = d.auto
<1>1. CASE d.state \in EmptyStates
  BY <1>1, DraftFacts DEF Routes
<1>2. CASE d.state \notin EmptyStates
  <2>1. Routes(d, rev) = d.auto \X {rev}
    BY <1>2 DEF Routes
  <2>2. ASSUME NEW k \in d.auto PROVE \E p \in Routes(d, rev) : p[1] = k
    <3>1. <<k, rev>> \in Routes(d, rev) /\ <<k, rev>>[1] = k
      BY <2>1
    <3>2. QED
      BY <3>1
  <2>3. d.auto \subseteq {p[1] : p \in Routes(d, rev)}
    BY <2>2
  <2>4. {p[1] : p \in Routes(d, rev)} \subseteq d.auto
    BY <2>1
  <2>5. QED
    BY <2>1, <2>3, <2>4, DraftFacts
<1>3. QED
  BY <1>1, <1>2

-----------------------------------------------------------------------------
(* Nothing is injected, owned or published at first.                       *)
LEMMA InitInv == Init => HostsInv
<1> SUFFICES ASSUME Init PROVE HostsInv
  OBVIOUS
<1> USE DEF Init
<1>1. TypeInv
  BY HostsAssumption DEF TypeInv, Entries, Nothing, MaybeInjected
<1>2. RecordInv
  BY DEF RecordInv, Plugins
<1>3. SnapshotInv /\ SectionInv
  BY DEF SnapshotInv, SectionInv
<1>4. QED
  BY <1>1, <1>2, <1>3 DEF HostsInv

(* A new identity leaves the hosts alone; what they show is an earlier one's.*)
LEMMA AdvanceInv == HostsInv /\ Advance => HostsInv'
<1> SUFFICES ASSUME HostsInv, Advance PROVE HostsInv'
  OBVIOUS
<1> USE DEF HostsInv, Advance, v1Vars, v2Vars
<1>1. TypeInv'
  BY DEF TypeInv, Nothing
<1>2. RecordInv'
  BY DEF RecordInv, TypeInv
<1>3. SnapshotInv' /\ SectionInv'
  BY DEF SnapshotInv, SectionInv, Transform
<1>4. QED
  BY <1>1, <1>2, <1>3

(* applyProjection: what it writes is recorded, and what it no longer wants*)
(* of this identity's is taken back.                                       *)
LEMMA ApplyInv ==
  ASSUME HostsInv, kind = "v1", NEW d \in Drafts, NEW rev \in Revisions,
         ApplyProjection(d, rev)
  PROVE  HostsInv'
<1> DEFINE last     == IF record.epoch = epoch THEN record.last ELSE Nothing
           removed  == TakesBack(last, d)
           gone     == removed \cup {k \in Key \ d.auto : models[k] = None}
<1> USE DEF HostsInv
<1>1. /\ models' = [k \in Key |-> IF k \in d.auto THEN Built(rev)
                                  ELSE IF k \in removed THEN None ELSE models[k]]
      /\ record' = [epoch |-> epoch,
                    last |-> [k \in Key |-> IF k \in d.auto THEN Built(rev)
                                            ELSE IF k \in gone THEN None ELSE last[k]]]
      /\ since' = [k \in Key |-> IF k \in d.auto THEN epoch ELSE since[k]]
      /\ wanted' = d.auto
      /\ UNCHANGED <<kind, epoch, v2Vars, section>>
  BY Zenon DEF ApplyProjection
<1>2. last \in [Key -> MaybeInjected]
  BY DEF TypeInv, Nothing, MaybeInjected
<1>3. removed = {k \in Key \ d.auto : last[k] # None /\ models[k] = last[k]}
  BY DEF TakesBack
<1>4. Built(rev) \in Injected /\ Built(rev) \in Entries
  BY DEF Built, Injected, Entries
<1>5. d.auto \subseteq Key
  BY DraftFacts
<1> HIDE DEF last, removed, gone
<1>6. TypeInv'
  <2>1. models' \in [Key -> Entries]
    BY <1>1, <1>4 DEF TypeInv, Entries
  <2>2. record' \in [epoch : {None} \cup Nat, last : [Key -> MaybeInjected]]
    <3>1. record'.last \in [Key -> MaybeInjected]
      BY <1>1, <1>2, <1>4 DEF MaybeInjected
    <3>2. QED
      BY <1>1, <3>1 DEF TypeInv
  <2>3. QED
    BY <1>1, <1>5, <2>1, <2>2 DEF TypeInv, v2Vars
<1>7. RecordInv'
  <2> SUFFICES ASSUME NEW k \in Key, Plugins(models'[k])
               PROVE  /\ record'.epoch \in 0..epoch'
                      /\ since'[k] \in 0..record'.epoch
                      /\ since'[k] = record'.epoch =>
                           k \in wanted' /\ record'.last[k] = models'[k]
    BY DEF RecordInv
  <2>1. record'.epoch = epoch /\ epoch' = epoch /\ epoch \in Nat /\ wanted' = d.auto
    BY <1>1 DEF TypeInv
  <2>2. CASE k \in d.auto
    <3>1. models'[k] = Built(rev) /\ since'[k] = epoch /\ record'.last[k] = Built(rev)
      BY <1>1, <2>2
    <3>2. QED
      BY <2>1, <2>2, <3>1
  <2>3. CASE k \notin d.auto
    <3>1. k \notin removed /\ models'[k] = models[k] /\ since'[k] = since[k]
      BY <1>1, <2>3 DEF Plugins
    <3>2. /\ record.epoch \in 0..epoch
          /\ since[k] \in 0..record.epoch
          /\ since[k] = record.epoch => record.last[k] = models[k]
      BY <3>1 DEF RecordInv
    <3>3. since[k] # epoch
      <4>1. SUFFICES ASSUME since[k] = epoch PROVE FALSE
        OBVIOUS
      <4>2. record.epoch = epoch
        BY <2>1, <3>2, <4>1
      <4>3. last[k] = models[k]
        BY <3>2, <4>1, <4>2 DEF last
      <4>4. last[k] # None
        BY <3>1, <4>3 DEF Plugins
      <4>5. QED
        BY <1>3, <2>3, <3>1, <4>3, <4>4
    <3>4. QED
      BY <2>1, <3>1, <3>2, <3>3
  <2>4. QED
    BY <2>2, <2>3
<1>8. SnapshotInv'
  BY <1>1 DEF SnapshotInv, TypeInv, v2Vars
<1>9. SectionInv'
  BY <1>1 DEF SectionInv
<1>10. QED
  BY <1>6, <1>7, <1>8, <1>9

(* releaseOwnedEntries takes back all that is on record.                   *)
LEMMA ReleaseInv ==
  HostsInv /\ kind = "v1" /\ ReleaseOwnedEntries => HostsInv'
<1> SUFFICES ASSUME HostsInv, kind = "v1", ReleaseOwnedEntries PROVE HostsInv'
  OBVIOUS
<1> DEFINE owned == {k \in Key : record.last[k] # None /\ models[k] = record.last[k]}
<1> USE DEF HostsInv
<1>1. /\ models' = [k \in Key |-> IF k \in owned THEN None ELSE models[k]]
      /\ record' = [record EXCEPT !.last = [k \in Key |-> IF k \in owned THEN None ELSE @[k]]]
      /\ wanted' = {}
      /\ UNCHANGED <<kind, epoch, since, v2Vars, section>>
  BY Zenon DEF ReleaseOwnedEntries
<1>2. record'.epoch = record.epoch
  BY <1>1 DEF TypeInv
<1>3. TypeInv'
  <2>1. models' \in [Key -> Entries]
    BY <1>1 DEF TypeInv, Entries
  <2>2. record' \in [epoch : {None} \cup Nat, last : [Key -> MaybeInjected]]
    BY <1>1 DEF TypeInv, MaybeInjected
  <2>3. QED
    BY <1>1, <2>1, <2>2 DEF TypeInv, v2Vars
<1>4. RecordInv'
  <2> SUFFICES ASSUME NEW k \in Key, Plugins(models'[k])
               PROVE  /\ record.epoch \in 0..epoch
                      /\ since[k] \in 0..record.epoch
                      /\ since[k] # record.epoch
    BY <1>1, <1>2 DEF RecordInv
  <2>1. k \notin owned /\ models'[k] = models[k]
    BY <1>1 DEF Plugins
  <2>2. record.last[k] # models[k]
    BY <2>1 DEF Plugins
  <2>3. QED
    BY <2>1, <2>2 DEF RecordInv
<1>5. SnapshotInv'
  BY <1>1 DEF SnapshotInv, TypeInv, v2Vars
<1>6. SectionInv'
  BY <1>1 DEF SectionInv
<1>7. QED
  BY <1>3, <1>4, <1>5, <1>6

(* An edit by the user is no injected entry, whatever lay there.           *)
LEMMA EditInv ==
  ASSUME HostsInv, kind = "v1", NEW k \in Key, Edit(k)
  PROVE  HostsInv'
<1> USE DEF HostsInv, Edit, v2Vars
<1>1. PICK e \in {None, <<"user", 0>>} : models' = [models EXCEPT ![k] = e]
  OBVIOUS
<1>2. TypeInv'
  BY <1>1 DEF TypeInv, Entries
<1>3. RecordInv'
  <2>1. ~Plugins(e)
    BY DEF Plugins
  <2>2. \A j \in Key : Plugins(models'[j]) => models'[j] = models[j]
    BY <1>1, <2>1 DEF TypeInv
  <2>3. QED
    BY <2>2 DEF RecordInv
<1>4. SnapshotInv' /\ SectionInv'
  BY DEF SnapshotInv, SectionInv, TypeInv
<1>5. QED
  BY <1>2, <1>3, <1>4

-----------------------------------------------------------------------------
(* publish: a snapshot that differs is one to reload for.                  *)
LEMMA PublishInv ==
  ASSUME HostsInv, kind = "v2", NEW d \in Drafts, NEW rev \in Revisions, Publish(d, rev)
  PROVE  HostsInv'
<1> USE DEF HostsInv
<1> DEFINE new == [epoch |-> epoch, state |-> d.state, routes |-> Routes(d, rev)]
<1>1. /\ snapshot' = new
      /\ reload' = (reload \/ Differs(snapshot, new))
      /\ wanted' = d.auto
      /\ UNCHANGED <<kind, epoch, v1Vars, catalog, hostOwn, section>>
  BY DEF Publish
<1>2. TypeInv'
  BY <1>1, DraftFacts DEF TypeInv, v1Vars, Nothing
<1>3. RecordInv'
  BY <1>1 DEF RecordInv, TypeInv, v1Vars, Nothing, Plugins
<1>4. SnapshotInv'
  <2>1. snapshot'.routes = Routes(d, rev)
    BY <1>1
  <2>2. ASSUME ~reload', snapshot' # None PROVE catalog' = Transform(hostOwn)'
    <3>1. ~reload /\ ~Differs(snapshot, new)
      BY <1>1, <2>2
    <3>2. snapshot # None /\ snapshot.routes = snapshot'.routes
      BY <2>1, <3>1 DEF Differs, StateDiffers
    <3>3. catalog = Transform(hostOwn)
      BY <3>1, <3>2 DEF SnapshotInv
    <3>4. Transform(hostOwn) = Overlay(snapshot.routes, hostOwn)
      BY <3>2 DEF Transform
    <3>5. Transform(hostOwn)' = Overlay(snapshot'.routes, hostOwn')
      BY <2>2 DEF Transform, Overlay
    <3>6. QED
      BY <1>1, <3>2, <3>3, <3>4, <3>5
  <2>3. QED
    BY <1>1, <2>1, <2>2, RouteKeys DEF SnapshotInv
<1>5. SectionInv'
  BY <1>1 DEF SectionInv
<1>6. QED
  BY <1>2, <1>3, <1>4, <1>5

(* A reload brings the catalogue up to date.                               *)
LEMMA ReloadInv == HostsInv /\ kind = "v2" /\ Reload => HostsInv'
<1> SUFFICES ASSUME HostsInv, kind = "v2", Reload PROVE HostsInv'
  OBVIOUS
<1> USE DEF HostsInv, Reload, v1Vars
<1>1. TypeInv'
  BY DEF TypeInv, Nothing
<1>2. RecordInv'
  BY DEF RecordInv
<1>3. SnapshotInv'
  BY DEF SnapshotInv, Transform
<1>4. SectionInv'
  BY DEF SectionInv
<1>5. QED
  BY <1>1, <1>2, <1>3, <1>4

(* The sections of fresh drafts are rebuilt whole or kept.                 *)
LEMMA SectionStepInv ==
  ASSUME HostsInv, kind = "section",
         \/ \E i \in Inventories : FreshDraft(i)
         \/ \E k \in Key : Name(k)
  PROVE  HostsInv'
<1> USE DEF HostsInv, FreshDraft, Name, v1Vars, v2Vars
<1>1. TypeInv' /\ RecordInv' /\ SnapshotInv'
  <2>1. section' \in [shown : SUBSET Key, owned : SUBSET Key, explicit : SUBSET Key]
    <3>1. ASSUME NEW i \in Inventories, FreshDraft(i)
          PROVE  section' \in [shown : SUBSET Key, owned : SUBSET Key, explicit : SUBSET Key]
      <4> DEFINE fresh == {q.key : q \in {x \in i : x.ready}}
      <4>1. section' = [section EXCEPT !.shown = (@ \ Removed(fresh)) \cup fresh,
                                       !.owned = fresh]
        BY <3>1
      <4>2. fresh \subseteq Key
        BY DEF Inventories, P!Route
      <4> HIDE DEF fresh
      <4>3. QED
        BY <4>1, <4>2 DEF TypeInv
    <3>2. ASSUME NEW k \in Key, Name(k)
          PROVE  section' \in [shown : SUBSET Key, owned : SUBSET Key, explicit : SUBSET Key]
      BY <3>2 DEF TypeInv
    <3>3. QED
      BY <3>1, <3>2
  <2>2. UNCHANGED <<kind, epoch, v1Vars, v2Vars, wanted>>
    OBVIOUS
  <2>3. QED
    BY <2>1, <2>2 DEF TypeInv, RecordInv, SnapshotInv, Transform, Nothing
<1>2. SectionInv'
  <2>1. ASSUME NEW i \in Inventories, FreshDraft(i) PROVE SectionInv'
    <3> DEFINE fresh == {q.key : q \in {x \in i : x.ready}}
    <3>1. section' = [section EXCEPT !.shown = (@ \ Removed(fresh)) \cup fresh,
                                     !.owned = fresh]
      BY <2>1
    <3> HIDE DEF fresh
    <3>2. QED
      BY <3>1 DEF SectionInv, Removed, TypeInv
  <2>2. ASSUME NEW k \in Key, Name(k) PROVE SectionInv'
    BY <2>2 DEF SectionInv, TypeInv
  <2>3. QED
    BY <2>1, <2>2
<1>3. QED
  BY <1>1, <1>2

(* Every step keeps the invariant.                                         *)
LEMMA StepInv == HostsInv /\ [Next]_vars => HostsInv'
<1> SUFFICES ASSUME HostsInv, [Next]_vars PROVE HostsInv'
  OBVIOUS
<1>1. CASE UNCHANGED vars
  BY <1>1 DEF vars, v1Vars, v2Vars, HostsInv, TypeInv, RecordInv, SnapshotInv, SectionInv,
              Transform, Nothing
<1>2. CASE kind = "v1" /\ (PluginStep \/ \E k \in Key : Edit(k))
  BY <1>2, ApplyInv, ReleaseInv, EditInv DEF PluginStep
<1>3. CASE kind = "v2" /\ (Reload \/ \E d \in Drafts, rev \in Revisions : Publish(d, rev))
  BY <1>3, ReloadInv, PublishInv
<1>4. CASE kind = "section" /\ (\/ \E i \in Inventories : FreshDraft(i)
                                \/ \E k \in Key : Name(k))
  BY <1>4, SectionStepInv
<1>5. CASE kind # "section" /\ Advance
  BY <1>5, AdvanceInv
<1>6. QED
  BY <1>1, <1>2, <1>3, <1>4, <1>5 DEF Next

(* The invariant holds throughout.                                         *)
LEMMA InvHolds == Spec => []HostsInv
<1>1. QED
  BY InitInv, StepInv, PTL DEF Spec

-----------------------------------------------------------------------------
(* What a transform shows as the plugin's are the routes of the snapshot.  *)
LEMMA TransformShows ==
  ASSUME HostsInv, snapshot # None
  PROVE  {k \in Key : Plugins(Transform(hostOwn)[k])} = wanted
<1>1. snapshot.routes \subseteq Key \X Revisions /\ {p[1] : p \in snapshot.routes} = wanted
  BY DEF HostsInv, SnapshotInv
<1>2. ASSUME NEW k \in Key
      PROVE  Plugins(Transform(hostOwn)[k]) <=> \E p \in snapshot.routes : p[1] = k
  <2>1. CASE \E p \in snapshot.routes : p[1] = k
    <3> DEFINE q == CHOOSE p \in snapshot.routes : p[1] = k
    <3>1. q \in snapshot.routes
      BY <2>1
    <3>2. q[2] \in Revisions
      BY <1>1, <3>1
    <3> HIDE DEF q
    <3>3. Transform(hostOwn)[k] = <<"plugin", q[2]>>
      BY <2>1 DEF Transform, Overlay, Built, q
    <3>4. QED
      BY <2>1, <3>2, <3>3, HostsAssumption DEF Plugins
  <2>2. CASE ~\E p \in snapshot.routes : p[1] = k
    BY <2>2 DEF Transform, Overlay, Plugins
  <2>3. QED
    BY <2>1, <2>2
<1>3. QED
  BY <1>1, <1>2 DEF HostsInv, TypeInv

(* What the hosts show follows the last draft, however drafts, edits,      *)
(* reloads and identity changes follow one another (ShownFollowsDraft):    *)
(* applyProjection, publish with its reload advice, and the fresh draft.   *)
THEOREM ShownFollows == Spec => []ShownFollowsDraft
<1>1. HostsInv => ShownFollowsDraft
  <2> SUFFICES ASSUME HostsInv PROVE ShownFollowsDraft
    OBVIOUS
  <2>1. \A k \in Key : Plugins(models[k]) /\ since[k] = record.epoch => k \in wanted
    BY DEF HostsInv, RecordInv
  <2>2. ASSUME snapshot # None, ~reload
        PROVE  /\ {k \in Key : Plugins(catalog[k])} = wanted
               /\ catalog = Transform(hostOwn)
    BY <2>2, TransformShows DEF HostsInv, SnapshotInv
  <2>3. QED
    BY <2>1, <2>2 DEF ShownFollowsDraft, HostsInv, SectionInv
<1>2. QED
  BY <1>1, InvHolds, PTL

(* The plugin takes away nothing the user wrote under a key no draft wants *)
(* (UsersEntriesSurvive): what is on record as injected is never an entry  *)
(* of the user's, so the removal passes of V1ConfigBackend cannot meet one.*)
THEOREM UsersSurvive == Spec => UsersEntriesSurvive
<1>1. ASSUME HostsInv, Next
      PROVE  /\ PluginStep => \A k \in Key :
                  models[k] = <<"user", 0>> /\ models'[k] # models[k] => k \in wanted'
             /\ section.explicit \subseteq section'.shown
  <2>1. ASSUME PluginStep, NEW k \in Key, models[k] = <<"user", 0>>, models'[k] # models[k]
        PROVE  k \in wanted'
    <3>0. <<"user", 0>> \notin Injected /\ record.last \in [Key -> MaybeInjected]
      BY <1>1 DEF Injected, HostsInv, TypeInv
    <3>1. ASSUME NEW d \in Drafts, NEW rev \in Revisions, ApplyProjection(d, rev)
          PROVE  k \in wanted'
      <4> DEFINE last == IF record.epoch = epoch THEN record.last ELSE Nothing
                 removed == TakesBack(last, d)
      <4>1. /\ models' = [j \in Key |-> IF j \in d.auto THEN Built(rev)
                                        ELSE IF j \in removed THEN None ELSE models[j]]
            /\ wanted' = d.auto
        BY <3>1, Zenon DEF ApplyProjection
      <4>2. last \in [Key -> MaybeInjected]
        BY <3>0 DEF Nothing, MaybeInjected
      <4>3. k \notin removed
        BY <2>1, <3>0, <4>2 DEF TakesBack, MaybeInjected
      <4>4. QED
        BY <2>1, <4>1, <4>3
    <3>2. CASE ReleaseOwnedEntries
      <4> DEFINE owned == {j \in Key : record.last[j] # None /\ models[j] = record.last[j]}
      <4>1. models' = [j \in Key |-> IF j \in owned THEN None ELSE models[j]]
        BY <3>2, Zenon DEF ReleaseOwnedEntries
      <4>2. k \notin owned
        BY <2>1, <3>0 DEF MaybeInjected
      <4>3. QED
        BY <2>1, <4>1, <4>2
    <3>3. QED
      BY <2>1, <3>1, <3>2 DEF PluginStep
  <2>2. section.explicit \subseteq section'.shown
    <3>1. CASE UNCHANGED section
      BY <1>1, <3>1 DEF HostsInv, SectionInv
    <3>2. CASE \E i \in Inventories : FreshDraft(i)
      BY <1>1, <3>2 DEF HostsInv, SectionInv, FreshDraft, Removed
    <3>3. CASE \E k \in Key : Name(k)
      BY <1>1, <3>3 DEF HostsInv, SectionInv, Name
    <3>4. QED
      BY <1>1, <3>1, <3>2, <3>3
         DEF Next, PluginStep, ApplyProjection, ReleaseOwnedEntries, Edit, Reload, Publish,
             Advance
  <2>3. QED
    BY <2>1, <2>2
<1>2. QED
  BY <1>1, InvHolds, PTL DEF Spec, UsersEntriesSurvive
=============================================================================
