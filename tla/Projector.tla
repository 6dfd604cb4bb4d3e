----------------------------- MODULE Projector ------------------------------
(***************************************************************************)
(* projectRoutes of src/src/discovery/projector.ts.                        *)
(*                                                                         *)
(* An inventory is a set of routes [key, ready]; the draft keeps the keys  *)
(* of the automatic routes, the keys to remove and the projection state.   *)
(* Two routes with one key differ for the code only in readiness, so the   *)
(* first-ready-wins deduplication is the set of ready keys.  An absent     *)
(* whitelist filters nothing and is the whitelist of all keys.             *)
(***************************************************************************)
EXTENDS DiscoveryMachine

CONSTANTS
  Key,          \* selection keys
  Semantics,    \* "strict" or "observed"
  Contribution, \* "none", "explicit" or "auto"
  Explicit,     \* explicitSelectionKeys
  Previous,     \* previousPluginSelectionKeys
  Whitelist     \* userWhitelist (Key when undefined)

ASSUME ProjectorAssumption ==
  /\ Semantics \in SemanticsKind
  /\ Contribution \in ContributionKind
  /\ Explicit \subseteq Key
  /\ Previous \subseteq Key
  /\ Whitelist \subseteq Key

Route == [key : Key, ready : BOOLEAN]
Draft == [state : ProjectionState, auto : SUBSET Key, removed : SUBSET Key]

Callable(routes) == {r.key : r \in {q \in routes : q.ready}} \cap Whitelist

(* noContribution: the host keeps the catalogue to itself. *)
DelegatedDraft == [state |-> "no-contribution", auto |-> {}, removed |-> {}]

(* emptyProjection: inventoryComplete = false. *)
UnavailableDraft ==
  IF Contribution = "none" THEN DelegatedDraft
  ELSE [state   |-> StaleFallback(Semantics),
        auto    |-> {},
        removed |-> IF Semantics = "strict" THEN Previous ELSE {}]

(* A complete inventory. *)
CompleteDraft(routes) ==
  IF Contribution = "none" THEN DelegatedDraft
  ELSE [state   |-> IF Callable(routes) # {} THEN "fresh" ELSE StaleFallback(Semantics),
        auto    |-> Callable(routes),
        removed |-> Previous \ Callable(routes)]

=============================================================================
