------------------------------- MODULE Hosts -------------------------------
(***************************************************************************)
(* What the hosts show of a projection (src/src/host and                   *)
(* src/src/discovery/visibility).  A V1 host has one live config object    *)
(* that the user edits too, a V2 host rebuilds its catalogue from the      *)
(* published snapshot, and the fresh-draft transform keeps a section of    *)
(* plugin-owned keys beside explicit ones.  Drafts come from Projector,    *)
(* behind the whitelist; no file of src/ calls the backends yet, so any    *)
(* sequence of drafts with growing epochs is taken.                        *)
(***************************************************************************)
EXTENDS Integers, FiniteSets

CONSTANTS Key, Semantics, Contribution, Explicit, Previous,   \* as in Projector
          ApiId,          \* selection key -> effectiveRemoteApiId
          UserWhitelist,  \* the entries of the user's whitelist, or None
          Revisions,      \* the ways buildModelEntry may serialise a route
          MaxEpoch, None

ASSUME HostsAssumption ==
  /\ DOMAIN ApiId = Key
  /\ Explicit \subseteq Key /\ Previous \subseteq Key
  /\ MaxEpoch \in Nat
  /\ \A rev \in Revisions : None # <<"plugin", rev>>

VARIABLES kind,      \* the kind of host: "v1", "v2" or "section"
          epoch,     \* of the coordinator's snapshot
          models,    \* V1: the config object's entries
          record,    \* V1: the ownership record
          snapshot,  \* V2: the published snapshot
          reload,    \* V2: a reload was recommended and has not happened
          catalog,   \* V2: what the host made of its last draft
          hostOwn,   \* V2: the entries of the host's own
          section,   \* fresh drafts: the keys shown, those owned, those explicit
          wanted,    \* ghost: the automatic keys of the last contributing draft
          since      \* ghost: the epoch that injected an entry of models

v1Vars == <<models, record, since>>
v2Vars == <<snapshot, reload, catalog, hostOwn>>
vars == <<kind, epoch, v1Vars, v2Vars, section, wanted>>

---------------------------------------------------------------------------
(* resolveV1Whitelist: exact equality with the remote id; no whitelist at  *)
(* all restricts nothing.                                                  *)
ResolveWhitelist(entries) ==
  IF entries = None THEN Key ELSE {k \in Key : ApiId[k] \in entries}

P == INSTANCE Projector WITH Whitelist <- ResolveWhitelist(UserWhitelist)

Inventories == SUBSET P!Route
Drafts == {P!CompleteDraft(i) : i \in Inventories} \cup {P!UnavailableDraft, P!DelegatedDraft}

Entries == {None, <<"user", 0>>} \cup ({"plugin"} \X Revisions)
Built(rev) == <<"plugin", rev>>
Plugins(e) == e # None /\ e[1] = "plugin"

(* An identity change: the next draft comes under a later epoch.           *)
Advance ==
  /\ epoch < MaxEpoch
  /\ epoch' = epoch + 1
  /\ UNCHANGED <<kind, v1Vars, v2Vars, section, wanted>>

---------------------------------------------------------------------------
(* V1: applyProjection and releaseOwnedEntries.                            *)

Nothing == [k \in Key |-> None]

(* The removal pass takes back an entry only while it is what was injected *)
(* (the second operator), not whatever the key holds by now (the first).   *)
TakesAll(last, d) == {k \in Key \ d.auto : last[k] # None}
TakesBack(last, d) == {k \in Key \ d.auto : last[k] # None /\ models[k] = last[k]}

(* Every wanted key is written on every call, whatever it holds: the guard *)
(* before the assignment serialises the recorded string once more, which   *)
(* never equals the entry serialised once.                                 *)
ApplyProjection(d, rev) ==
  LET last    == IF record.epoch = epoch THEN record.last ELSE Nothing
      removed == TakesBack(last, d)
      gone    == removed \cup {k \in Key \ d.auto : models[k] = None}
  IN
  /\ models' = [k \in Key |-> IF k \in d.auto THEN Built(rev)
                              ELSE IF k \in removed THEN None ELSE models[k]]
  /\ record' = [epoch |-> epoch,
                last  |-> [k \in Key |-> IF k \in d.auto THEN Built(rev)
                                         ELSE IF k \in gone THEN None ELSE last[k]]]
  /\ since' = [k \in Key |-> IF k \in d.auto THEN epoch ELSE since[k]]
  /\ wanted' = d.auto
  /\ UNCHANGED <<kind, epoch, v2Vars, section>>

ReleaseOwnedEntries ==
  LET owned == {k \in Key : record.last[k] # None /\ models[k] = record.last[k]} IN
  /\ record.epoch # None
  /\ models' = [k \in Key |-> IF k \in owned THEN None ELSE models[k]]
  /\ record' = [record EXCEPT !.last = [k \in Key |-> IF k \in owned THEN None ELSE @[k]]]
  /\ wanted' = {}
  /\ UNCHANGED <<kind, epoch, since, v2Vars, section>>

(* The user, or another plugin, writes or deletes an entry.                *)
Edit(k) ==
  /\ \E e \in {None, <<"user", 0>>} : models' = [models EXCEPT ![k] = e]
  /\ UNCHANGED <<kind, epoch, record, since, v2Vars, section, wanted>>

---------------------------------------------------------------------------
(* V2: publish and transform.                                              *)

EmptyStates == {"strict-empty", "auth-blocked", "explicit-only", "unresolved-deny", "disposed"}

(* The plugin's section of a snapshot: key and serialised route.           *)
Routes(d, rev) == IF d.state \in EmptyStates THEN {} ELSE d.auto \X {rev}

(* Reloads are advised for a change of state or of routes (the second      *)
(* operator), not of the state alone (the first).                          *)
StateDiffers(old, new) == old = None \/ old.state # new.state
Differs(old, new) == StateDiffers(old, new) \/ old.routes # new.routes

(* publish: a delegated draft (no-contribution) changes nothing.           *)
Publish(d, rev) ==
  LET new == [epoch |-> epoch, state |-> d.state, routes |-> Routes(d, rev)] IN
  /\ d.state # "no-contribution"
  /\ snapshot' = new
  /\ reload' = (reload \/ Differs(snapshot, new))
  /\ wanted' = d.auto
  /\ UNCHANGED <<kind, epoch, v1Vars, catalog, hostOwn, section>>

(* transform: the host's fresh draft, and the snapshot's entries over it.  *)
Overlay(routes, own) ==
  [k \in Key |-> IF \E p \in routes : p[1] = k
                 THEN Built((CHOOSE p \in routes : p[1] = k)[2])
                 ELSE IF k \in own THEN <<"user", 0>> ELSE None]

Transform(own) == Overlay(IF snapshot = None THEN {} ELSE snapshot.routes, own)

(* The host reloads, on advice or because its own entries changed.         *)
Reload ==
  /\ \E own \in SUBSET Key :
       /\ own = hostOwn \/ ~reload
       /\ hostOwn' = own
       /\ catalog' = Transform(own)
  /\ reload' = FALSE
  /\ UNCHANGED <<kind, epoch, v1Vars, snapshot, section, wanted>>

---------------------------------------------------------------------------
(* buildV2CatalogTransform: a complete inventory replaces the owned keys,  *)
(* any other leaves the section as it is.                                  *)

Removed(fresh) == section.owned \ (fresh \cup section.explicit)

FreshDraft(routes) ==
  LET fresh == {r.key : r \in {q \in routes : q.ready}} IN
  /\ section' = [section EXCEPT !.shown = (@ \ Removed(fresh)) \cup fresh,
                                !.owned = fresh]
  /\ UNCHANGED <<kind, epoch, v1Vars, v2Vars, wanted>>

(* The user names another key as one to be kept.                           *)
Name(k) ==
  /\ section' = [section EXCEPT !.explicit = @ \cup {k}, !.shown = @ \cup {k}]
  /\ UNCHANGED <<kind, epoch, v1Vars, v2Vars, wanted>>

---------------------------------------------------------------------------
Init ==
  /\ kind \in {"v1", "v2", "section"}
  /\ epoch = 0
  /\ models \in [Key -> {None, <<"user", 0>>}]
  /\ kind # "v1" => models = Nothing
  /\ record = [epoch |-> None, last |-> Nothing]
  /\ since = Nothing
  /\ snapshot = None /\ reload = FALSE /\ hostOwn = {}
  /\ catalog = Nothing
  /\ section = [shown |-> Explicit, owned |-> {}, explicit |-> Explicit]
  /\ wanted = {}

PluginStep == \/ \E d \in Drafts, rev \in Revisions : ApplyProjection(d, rev)
              \/ ReleaseOwnedEntries

Next ==
  \/ kind = "v1" /\ (PluginStep \/ \E k \in Key : Edit(k))
  \/ kind = "v2" /\ (Reload \/ \E d \in Drafts, rev \in Revisions : Publish(d, rev))
  \/ kind = "section" /\ \/ \E i \in Inventories : FreshDraft(i)
                         \/ \E k \in Key : Name(k)
  \/ kind # "section" /\ Advance

Spec == Init /\ [][Next]_vars

---------------------------------------------------------------------------
(* However drafts, edits and identities follow one another: an entry that  *)
(* was injected under the identity last projected is one the last draft    *)
(* wants; a catalogue whose reload advice was followed shows the snapshot  *)
(* over the host's own entries and none of an earlier one; and a section   *)
(* holds its owned and explicit keys only.                                 *)
ShownFollowsDraft ==
  /\ \A k \in Key : Plugins(models[k]) /\ since[k] = record.epoch => k \in wanted
  /\ snapshot # None /\ ~reload =>
       /\ {k \in Key : Plugins(catalog[k])} = wanted
       /\ catalog = Transform(hostOwn)
  /\ section.shown = section.owned \cup section.explicit

(* No step of the plugin takes away what the user wrote under a key that   *)
(* the draft does not want, and an explicit key of a section stays.  Under *)
(* a wanted key this says nothing: there every call overwrites what the    *)
(* user wrote, also over an entry that was injected before (see README).   *)
UsersEntriesSurvive ==
  [][/\ PluginStep => \A k \in Key :
          models[k] = <<"user", 0>> /\ models'[k] # models[k] => k \in wanted'
     /\ section.explicit \subseteq section'.shown]_vars
=============================================================================
