-------------------------- MODULE DiscoveryMachine --------------------------
(***************************************************************************)
(* The projection x refresh reducer of src/src/discovery/state-machine.ts. *)
(*                                                                         *)
(* reduceDiscovery is a pure function of a machine state and an event; it  *)
(* is written here as one operator per event, each guarded, as the code's  *)
(* first test is, by the terminal state.  "sem" is the inventory semantics *)
(* the event carries.                                                      *)
(***************************************************************************)

SemanticsKind    == {"strict", "observed"}
ContributionKind == {"none", "explicit", "auto"}
RefreshTrigger   == {"post-setup", "soft-ttl", "hard-ttl", "cache-revision", "manual"}
CompletionKind   == {"complete", "not-modified", "partial", "invalid",
                     "transient-failure", "auth-failure"}

RefreshOutcome   == {"complete-nonempty", "complete-empty", "not-modified", "partial", "invalid"}

ProjectionState  == {"no-contribution", "explicit-only", "unresolved-deny", "fresh",
                     "stale-allowed", "strict-empty", "auth-blocked", "disposed"}
RefreshState     == {"idle", "scheduled", "refreshing", "backoff", "paused", "disposed"}
MachineState     == [projection : ProjectionState, refresh : RefreshState]

Terminal == [projection |-> "disposed", refresh |-> "disposed"]

(* What a provider shows without any inventory to stand on. *)
StaleFallback(sem) == IF sem = "observed" THEN "explicit-only" ELSE "strict-empty"

InitialState(contribution, sem) ==
  IF contribution = "none"
  THEN [projection |-> "no-contribution", refresh |-> "paused"]
  ELSE IF contribution = "explicit"
  THEN [projection |-> "explicit-only", refresh |-> "paused"]
  ELSE [projection |-> IF sem = "observed" THEN "explicit-only" ELSE "unresolved-deny",
        refresh    |-> "scheduled"]

(* Every event but the first is swallowed once the machine is disposed. *)
Unless(m, next) == IF m.refresh = "disposed" THEN m ELSE next

-----------------------------------------------------------------------------

(* A trigger: POST_SETUP_DEFERRED leaves only the idle state, HARD_TTL_DUE    *)
(* drops the stale claim whatever is going on, and the three re-check events  *)
(* coalesce into a refresh under way and, but for the manual one, respect a   *)
(* backoff.                                                                    *)
OnTrigger(m, trigger, sem) ==
  Unless(m,
    IF trigger = "hard-ttl"
    THEN [projection |-> StaleFallback(sem), refresh |-> "scheduled"]
    ELSE IF \/ trigger = "post-setup" /\ m.refresh # "idle"
            \/ trigger # "post-setup" /\ m.refresh = "refreshing"
            \/ trigger \in {"soft-ttl", "cache-revision"} /\ m.refresh = "backoff"
    THEN m
    ELSE [m EXCEPT !.refresh = "scheduled"])

OnRefreshStarted(m) ==
  Unless(m, IF m.refresh = "scheduled" THEN [m EXCEPT !.refresh = "refreshing"] ELSE m)

(* Mutant: a degraded outcome forgets to leave the refreshing slot. *)
DegradedInPlace(sem, hasValidLkg) ==
  [projection |-> IF hasValidLkg THEN "stale-allowed" ELSE StaleFallback(sem),
   refresh    |-> "refreshing"]

(* afterComplete: the new state once an owned refresh has an outcome. *)
Degraded(sem, hasValidLkg) ==
  [projection |-> IF hasValidLkg THEN "stale-allowed" ELSE StaleFallback(sem),
   refresh    |-> "backoff"]

AfterComplete(m, outcome, sem, hasValidLkg) ==
  IF outcome = "complete-nonempty"
  THEN [projection |-> "fresh", refresh |-> "scheduled"]
  ELSE IF outcome = "complete-empty"
  THEN [projection |-> StaleFallback(sem), refresh |-> "scheduled"]
  ELSE IF outcome = "not-modified" /\ m.projection \in {"fresh", "stale-allowed"}
  THEN [m EXCEPT !.refresh = "scheduled"]
  ELSE IF outcome = "not-modified" /\ hasValidLkg
  THEN [projection |-> "stale-allowed", refresh |-> "scheduled"]
  ELSE Degraded(sem, hasValidLkg)

OnRefreshComplete(m, outcome, sem, hasValidLkg) ==
  Unless(m, IF m.refresh # "refreshing" THEN m ELSE AfterComplete(m, outcome, sem, hasValidLkg))

OnTransientFailure(m, sem, hasValidLkg) == Unless(m, Degraded(sem, hasValidLkg))

(* Mutant: the two components are swapped. *)
OnAuthErrorSwapped(m, confirmed) ==
  Unless(m, [projection |-> "backoff", refresh |-> "auth-blocked"])

OnAuthError(m, confirmed) ==
  Unless(m, IF confirmed
            THEN [projection |-> "auth-blocked",  refresh |-> "backoff"]
            ELSE [projection |-> "explicit-only", refresh |-> "paused"])

OnDispose(m) == Terminal

=============================================================================
