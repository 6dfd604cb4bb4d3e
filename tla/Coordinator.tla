---------------------------- MODULE Coordinator -----------------------------
(***************************************************************************)
(* DiscoveryCoordinator of src/src/discovery/coordinator.ts: the owner of  *)
(* one consumer's identity, refresh state, projection and single job.      *)
(*                                                                         *)
(* Its methods are synchronous, so each is one action.  A call that        *)
(* returns early without touching anything is a stuttering step and has no *)
(* action.  Callers are unconstrained: they may complete any token they    *)
(* were ever handed, late, twice or after disposal, because "issued" never *)
(* forgets one.                                                            *)
(***************************************************************************)
EXTENDS Naturals, FiniteSets, Projector

CONSTANTS
  Sid,       \* semantic identity hashes
  Gen,       \* credential generation hashes
  None,      \* the undefined identity, token or reply
  MaxEpoch,  \* bound of the model on identity changes
  MaxJobs    \* bound of the model on tokens

Identity == [sid : Sid, gen : Gen]
Token    == [sid : Sid, gen : Gen, jobId : 1..MaxJobs, epoch : Nat, planGeneration : Nat]
LkgClaim == {"derived", "valid", "none"}  \* hasValidLkg: left out, true, false
Reason   == {"applied", "stale-job", "no-active-job", "disposed"}
Reply    == [jobId : 1..MaxJobs, kind : CompletionKind, claim : LkgClaim, reason : Reason]

ASSUME CoordinatorAssumption ==
  /\ None \notin Identity
  /\ None \notin Token
  /\ None \notin Reply
  /\ MaxEpoch \in Nat
  /\ MaxJobs \in Nat

VARIABLES
  epoch, planGeneration, identity, machine, projection,
  activeJob, invalidatedJobIds, nextJobId, disposed,
  \* History: tokens handed out, applications per job, the identity whose
  \* inventory the projection shows, and the last completion's result.
  issued, applications, source, reply

jobVars  == <<activeJob, invalidatedJobIds, nextJobId, issued>>
viewVars == <<machine, projection, source>>
idVars   == <<epoch, planGeneration, identity, disposed>>
vars     == <<idVars, viewVars, jobVars, applications, reply>>

TypeOK ==
  /\ epoch \in Nat
  /\ planGeneration \in Nat
  /\ identity \in Identity \cup {None}
  /\ machine \in MachineState
  /\ projection \in Draft
  /\ activeJob \in Token \cup {None}
  /\ invalidatedJobIds \subseteq 1..MaxJobs
  /\ nextJobId \in 1..(MaxJobs + 1)
  /\ disposed \in BOOLEAN
  /\ issued \subseteq Token
  /\ applications \in [1..MaxJobs -> Nat]
  /\ source \in Identity \cup {None}
  /\ reply \in Reply \cup {None}

Init ==
  /\ epoch = 0
  /\ planGeneration = 0
  /\ identity = None
  /\ machine = InitialState(Contribution, Semantics)
  /\ projection = UnavailableDraft
  /\ activeJob = None
  /\ invalidatedJobIds = {}
  /\ nextJobId = 1
  /\ disposed = FALSE
  /\ issued = {}
  /\ applications = [j \in 1..MaxJobs |-> 0]
  /\ source = None
  /\ reply = None

-----------------------------------------------------------------------------

SemanticChange(id) == identity # None => identity.sid # id.sid

(* Mutant: the job survives the change of identity. *)
KeepJob == UNCHANGED <<activeJob, invalidatedJobIds>>

InvalidateJob ==
  /\ invalidatedJobIds' = invalidatedJobIds \cup
       (IF activeJob = None THEN {} ELSE {activeJob.jobId})
  /\ activeJob' = None

(* Mutant: the old routes stay until the next completion. *)
RevokeLater == UNCHANGED <<projection, source>>

Revoke ==
  /\ projection' = UnavailableDraft
  /\ source' = None

(* observeIdentity, the semantic identity having changed. *)
ChangeIdentity(id) ==
  /\ SemanticChange(id)
  /\ epoch < MaxEpoch
  /\ epoch' = epoch + 1
  /\ InvalidateJob
  /\ planGeneration' = planGeneration + 1
  /\ Revoke
  /\ machine' = [projection |-> StaleFallback(Semantics), refresh |-> "scheduled"]
  /\ UNCHANGED <<nextJobId, issued>>

(* observeIdentity, at most the credential generation having changed. *)
KeepIdentity(id) ==
  /\ ~SemanticChange(id)
  /\ UNCHANGED <<epoch, planGeneration, viewVars, jobVars>>

ObserveIdentity(id) ==
  /\ ~disposed
  /\ identity' = id
  /\ ChangeIdentity(id) \/ KeepIdentity(id)
  /\ UNCHANGED <<disposed, applications, reply>>

(* Mutant: disposal is not looked at. *)
LkgAdmissibleForever(id) == identity = id

LkgAdmissible(id) == ~disposed /\ identity = id

(* applyLocalLkg: only for the exact pair observed last. *)
ApplyLocalLkg(id, routes) ==
  /\ LkgAdmissible(id)
  /\ projection' = CompleteDraft(routes)
  /\ source' = id
  /\ machine' = [projection |-> projection'.state, refresh |-> "scheduled"]
  /\ UNCHANGED <<idVars, jobVars, applications, reply>>

NewToken == [sid |-> identity.sid, gen |-> identity.gen, jobId |-> nextJobId,
             epoch |-> epoch, planGeneration |-> planGeneration]

Triggered(trigger) == OnTrigger(machine, trigger, Semantics)

(* beginRefresh: undefined while a job is active or without an identity; a  *)
(* trigger the reducer does not turn into a scheduled slot leaves no trace. *)
BeginRefresh(trigger) ==
  /\ ~disposed
  /\ identity # None
  /\ activeJob = None
  /\ nextJobId <= MaxJobs
  /\ Triggered(trigger).refresh = "scheduled"
  /\ machine' = OnRefreshStarted(Triggered(trigger))
  /\ activeJob' = NewToken
  /\ nextJobId' = nextJobId + 1
  /\ issued' = issued \cup {NewToken}
  /\ UNCHANGED <<idVars, projection, source, invalidatedJobIds, applications, reply>>

(* Mutants: the generation is not compared; the job is not compared. *)
TokenIsCurrentAnyGen(t) ==
  /\ activeJob # None
  /\ activeJob.jobId = t.jobId
  /\ identity.sid = t.sid

TokenIsCurrentAnyJob(t) ==
  /\ activeJob # None
  /\ activeJob.epoch = t.epoch
  /\ identity.gen = t.gen

TokenIsCurrent(t) ==
  /\ activeJob # None
  /\ activeJob.jobId = t.jobId
  /\ activeJob.epoch = t.epoch
  /\ activeJob.planGeneration = t.planGeneration
  /\ identity # None
  /\ identity.sid = t.sid
  /\ identity.gen = t.gen
  /\ ~disposed

(* Mutant: the pair and the epoch decide, whether or not a job is active. *)
AnswerByEpoch(t) ==
  IF disposed THEN "disposed"
  ELSE IF identity = [sid |-> t.sid, gen |-> t.gen] /\ epoch = t.epoch THEN "applied"
  ELSE "stale-job"

(* The reason completeRefresh answers for token t. *)
Answer(t) ==
  IF disposed THEN "disposed"
  ELSE IF activeJob = None /\ t.jobId \notin invalidatedJobIds THEN "no-active-job"
  ELSE IF TokenIsCurrent(t) THEN "applied"
  ELSE "stale-job"

Replied(t, kind, claim) ==
  reply' = [jobId |-> t.jobId, kind |-> kind, claim |-> claim, reason |-> Answer(t)]

RejectCompletion(t, kind, claim) ==
  /\ Answer(t) # "applied"
  /\ Replied(t, kind, claim)
  /\ UNCHANGED <<idVars, viewVars, jobVars, applications>>

HasValidLkg(claim) ==
  \/ claim = "valid"
  \/ claim = "derived" /\ projection.state \in {"fresh", "stale-allowed"}

MachineAfter(kind, routes, confirmed, lkg) ==
  IF kind = "auth-failure" THEN OnAuthError(machine, confirmed)
  ELSE IF kind = "transient-failure" THEN OnTransientFailure(machine, Semantics, lkg)
  ELSE OnRefreshComplete(machine,
         IF kind # "complete" THEN kind
         ELSE IF routes # {} THEN "complete-nonempty" ELSE "complete-empty",
         Semantics, lkg)

(* Mutant: a degraded outcome always empties the projection. *)
WithdrawsAlways(kind, lkg) == kind \in {"not-modified", "partial", "invalid"}

Withdraws(kind, lkg) == kind \in {"not-modified", "partial", "invalid"} /\ ~lkg

ApplyCompletion(t, kind, routes, confirmed, claim) ==
  LET lkg == HasValidLkg(claim) IN
  /\ Answer(t) = "applied"
  /\ Replied(t, kind, claim)
  /\ machine' = MachineAfter(kind, routes, confirmed, lkg)
  /\ projection' = IF kind = "complete" THEN CompleteDraft(routes)
                   ELSE IF Withdraws(kind, lkg) THEN UnavailableDraft ELSE projection
  /\ source' = IF kind = "complete" THEN [sid |-> t.sid, gen |-> t.gen]
               ELSE IF Withdraws(kind, lkg) THEN None ELSE source
  /\ activeJob' = None
  /\ applications' = [applications EXCEPT ![t.jobId] = @ + 1]
  /\ UNCHANGED <<idVars, invalidatedJobIds, nextJobId, issued>>

CompleteRefresh(t, kind, routes, confirmed, claim) ==
  \/ RejectCompletion(t, kind, claim)
  \/ ApplyCompletion(t, kind, routes, confirmed, claim)

Dispose ==
  /\ ~disposed
  /\ disposed' = TRUE
  /\ epoch' = epoch + 1
  /\ activeJob' = None
  /\ machine' = OnDispose(machine)
  /\ projection' = [projection EXCEPT !.state = "disposed"]
  /\ UNCHANGED <<planGeneration, identity, source, invalidatedJobIds, nextJobId,
                 issued, applications, reply>>

(* Completions of a token, with the inputs the kind of completion reads. *)
Complete(t) ==
  \/ \E routes \in SUBSET Route : CompleteRefresh(t, "complete", routes, TRUE, "derived")
  \/ \E confirmed \in BOOLEAN : CompleteRefresh(t, "auth-failure", {}, confirmed, "derived")
  \/ \E kind \in CompletionKind \ {"complete", "auth-failure"}, claim \in LkgClaim :
       CompleteRefresh(t, kind, {}, TRUE, claim)

Next ==
  \/ \E id \in Identity : ObserveIdentity(id)
  \/ \E id \in Identity, routes \in SUBSET Route : ApplyLocalLkg(id, routes)
  \/ \E trigger \in RefreshTrigger : BeginRefresh(trigger)
  \/ \E t \in issued : Complete(t)
  \/ Dispose

Spec == Init /\ [][Next]_vars

-----------------------------------------------------------------------------
(* Safety                                                                  *)

(* A token issued before an identity change is dead for good, even when the *)
(* consumer comes back to the identity the token was issued for             *)
(* (tokenIsCurrent and the epoch bump of observeIdentity).                   *)
EpochFence == \A t \in issued : t.epoch # epoch => Answer(t) # "applied"

(* Of all tokens ever handed out at most one could still be applied: the    *)
(* "at most one refresh token is active" law, seen from the callers.        *)
OneLiveToken ==
  \A t, u \in issued : Answer(t) = "applied" /\ Answer(u) = "applied" => t = u

(* A completion delivered twice is applied once. *)
AppliedOnce == \A j \in 1..MaxJobs : applications[j] <= 1

(* The routes shown were fetched for the semantic identity observed last:   *)
(* no path of revocation, late completion or local LKG leaks another's.     *)
ShownIsOwned ==
  projection.auto # {} => /\ identity # None
                          /\ source # None
                          /\ source.sid = identity.sid

(* With no job active a manual trigger always starts one: no sequence of    *)
(* failures, denials and identity changes leaves the reducer in a state     *)
(* that swallows it.                                                        *)
IdleCanRefresh ==
  ~disposed /\ activeJob = None => Triggered("manual").refresh = "scheduled"

(* Only a complete inventory replaces what is shown: any other answer adds  *)
(* nothing.  A partial, invalid, unchanged or transiently failed refresh    *)
(* removes nothing either, unless its caller says there is no last known    *)
(* good inventory.  An authentication failure is left out of the second     *)
(* part: the documents have it withdraw the routes, the code does not (see  *)
(* the README).                                                             *)
NonCompleteKeepsShow ==
  [][ applications' # applications /\ reply'.kind # "complete" =>
        /\ projection'.auto \subseteq projection.auto
        /\ reply'.kind # "auth-failure" /\ reply'.claim # "none" =>
             projection'.auto = projection.auto ]_vars

(* Disposal is final for everything a host can read. *)
DisposedIsFinal == [][ disposed => UNCHANGED <<idVars, viewVars, jobVars, applications>> ]_vars

(* The coordinator implements the gate. *)
Gate == INSTANCE PublicationGate WITH
  owner <- identity, shown <- projection.auto, source <- source, open <- ~disposed

ImplementsGate == Gate!GateSpec

-----------------------------------------------------------------------------
(* Liveness                                                                *)

(* Every job is given up one day, so that another can begin. *)
JobReleased == activeJob # None ~> activeJob = None

=============================================================================
