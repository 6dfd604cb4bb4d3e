--------------------------- MODULE RuntimeProofs ----------------------------
(***************************************************************************)
(* Theorems about Coordinator, for every set of identities, generations    *)
(* and keys, every semantics and contribution, and any number of jobs; and *)
(* about Runtime, for any inventories, any number of overlapping calls and *)
(* crashes, and any settings of the clock's limits.                        *)
(***************************************************************************)
EXTENDS Runtime, TLAPS

(***************************************************************************)
(* The coordinator.  Its inductive invariant ties the three notions of     *)
(* "current" the code keeps separately, the active job, the epoch and the  *)
(* identity, to each other and to what callers hold.                       *)
(***************************************************************************)

(* Job identifiers are unique, and those not yet dealt were never applied.  *)
TokensInv ==
  /\ \A t \in issued : t.jobId < nextJobId
  /\ \A t, u \in issued : t.jobId = u.jobId => t = u
  /\ \A j \in 1..MaxJobs : j >= nextJobId => applications[j] = 0

(* The active job was begun under the present epoch for the present         *)
(* identity, and is not applied yet.                                        *)
ActiveJobInv ==
  activeJob # None =>
    /\ ~disposed
    /\ activeJob \in issued
    /\ activeJob.epoch = epoch
    /\ identity # None
    /\ activeJob.sid = identity.sid
    /\ applications[activeJob.jobId] = 0

(* The reducer and the job pointer agree. *)
SlotInv ==
  /\ machine.refresh = "refreshing" => activeJob # None
  /\ disposed <=> machine.refresh = "disposed"

(* A remembered source has the subject of the moment. *)
SourceInv ==
  /\ projection.auto # {} => source # None
  /\ source # None => identity # None /\ source.sid = identity.sid

IInv ==
  /\ TypeOK
  /\ TokensInv
  /\ ActiveJobInv
  /\ AppliedOnce
  /\ SlotInv
  /\ SourceInv

-----------------------------------------------------------------------------

(* The drafts of the projector are well typed. *)
LEMMA DraftType ==
  /\ UnavailableDraft \in Draft
  /\ \A routes \in SUBSET Route : CompleteDraft(routes) \in Draft
<1> USE ProjectorAssumption DEF Draft, ProjectionState, StaleFallback, DelegatedDraft, SemanticsKind
<1>1. UnavailableDraft \in Draft
  BY DEF UnavailableDraft
<1>2. ASSUME NEW routes \in SUBSET Route
      PROVE  CompleteDraft(routes) \in Draft
  BY DEF CompleteDraft, Callable
<1>3. QED
  BY <1>1, <1>2

(* The reducer stays within its states, whichever completion it is told of,  *)
(* and no completion leaves it refreshing or disposes it.                    *)
LEMMA CompletionLeavesSlot ==
  ASSUME NEW m \in MachineState, m.refresh # "disposed",
         NEW outcome \in RefreshOutcome,
         NEW lkg \in BOOLEAN, NEW sem \in SemanticsKind
  PROVE  LET n == OnRefreshComplete(m, outcome, sem, lkg) IN
         /\ n \in MachineState
         /\ n.refresh # "disposed"
         /\ m.refresh = "refreshing" => n.refresh # "refreshing"
         /\ m.refresh # "refreshing" => n = m
<1> USE DEF MachineState, RefreshState, ProjectionState, SemanticsKind
<1>1. OnRefreshComplete(m, outcome, sem, lkg) =
        IF m.refresh # "refreshing" THEN m ELSE AfterComplete(m, outcome, sem, lkg)
  BY DEF OnRefreshComplete, Unless
<1>2. /\ AfterComplete(m, outcome, sem, lkg) \in MachineState
      /\ AfterComplete(m, outcome, sem, lkg).refresh \in {"scheduled", "backoff"}
  BY DEF AfterComplete, Degraded, StaleFallback
<1>3. QED
  BY <1>1, <1>2

(* Every applied completion leaves the refreshing slot. *)
LEMMA MachineAfterCompletion ==
  ASSUME TypeOK, machine.refresh # "disposed", NEW kind \in CompletionKind,
         NEW routes, NEW confirmed \in BOOLEAN, NEW lkg \in BOOLEAN
  PROVE  LET n == MachineAfter(kind, routes, confirmed, lkg) IN
         /\ n \in MachineState
         /\ n.refresh \notin {"disposed", "refreshing"}
<1> USE ProjectorAssumption DEF TypeOK, MachineState, RefreshState, ProjectionState, SemanticsKind
<1>1. CASE kind = "auth-failure"
  BY <1>1 DEF MachineAfter, OnAuthError, Unless
<1>2. CASE kind = "transient-failure"
  BY <1>2 DEF MachineAfter, OnTransientFailure, Unless, Degraded, StaleFallback
<1>3. CASE kind \notin {"auth-failure", "transient-failure"}
  <2> DEFINE outcome == IF kind # "complete" THEN kind
                        ELSE IF routes # {} THEN "complete-nonempty" ELSE "complete-empty"
  <2>1. outcome \in RefreshOutcome
    BY <1>3 DEF CompletionKind, RefreshOutcome
  <2>2. MachineAfter(kind, routes, confirmed, lkg) = OnRefreshComplete(machine, outcome, Semantics, lkg)
    BY <1>3 DEF MachineAfter
  <2>3. /\ OnRefreshComplete(machine, outcome, Semantics, lkg) \in MachineState
        /\ OnRefreshComplete(machine, outcome, Semantics, lkg).refresh # "disposed"
        /\ OnRefreshComplete(machine, outcome, Semantics, lkg).refresh # "refreshing"
    <3> HIDE DEF outcome
    <3> QED BY <2>1, CompletionLeavesSlot
  <2>4. QED
    BY <2>2, <2>3
<1>4. QED
  BY <1>1, <1>2, <1>3

-----------------------------------------------------------------------------

(* The token of the next job has its type, and differs from those in use. *)
LEMMA NewTokenType ==
  ASSUME TypeOK, identity # None, nextJobId <= MaxJobs
  PROVE  /\ NewToken \in Token
         /\ NewToken.jobId = nextJobId
         /\ NewToken.epoch = epoch
         /\ NewToken.sid = identity.sid
         /\ NewToken # None
<1>1. identity \in Identity
  BY DEF TypeOK
<1>2. NewToken \in Token
  BY <1>1, CoordinatorAssumption DEF TypeOK, NewToken, Token, Identity
<1>3. QED
  BY <1>2, CoordinatorAssumption DEF NewToken

(* A new coordinator satisfies the invariant. *)
LEMMA InitInv == Init => IInv
<1> SUFFICES ASSUME Init PROVE IInv
  OBVIOUS
<1> USE CoordinatorAssumption, ProjectorAssumption DEF Init
<1>1. InitialState(Contribution, Semantics) \in MachineState
  BY DEF InitialState, MachineState, ProjectionState, RefreshState
<1>2. TypeOK
  <2>1. projection \in Draft
    BY DraftType
  <2>2. applications \in [1..MaxJobs -> Nat]
    OBVIOUS
  <2>3. nextJobId \in 1..(MaxJobs + 1)
    OBVIOUS
  <2>4. invalidatedJobIds \subseteq 1..MaxJobs /\ issued \subseteq Token
    OBVIOUS
  <2>5. epoch \in Nat /\ planGeneration \in Nat /\ disposed \in BOOLEAN
    OBVIOUS
  <2>6. QED
    BY <1>1, <2>1, <2>2, <2>3, <2>4, <2>5 DEF TypeOK
<1>3. SlotInv
  BY DEF SlotInv, InitialState
<1>4. SourceInv
  BY DEF SourceInv, UnavailableDraft, DelegatedDraft
<1>5. QED
  BY <1>2, <1>3, <1>4 DEF IInv, TokensInv, ActiveJobInv, AppliedOnce

(* observeIdentity *)
LEMMA ObserveIdentityInv ==
  ASSUME IInv, NEW id \in Identity, ObserveIdentity(id)
  PROVE  IInv'
<1> USE CoordinatorAssumption, ProjectorAssumption
<1>1. TypeOK /\ identity' = id /\ id # None /\ ~disposed /\ disposed' = disposed
      /\ UNCHANGED <<applications, reply>>
  BY DEF IInv, ObserveIdentity
<1>2. CASE ChangeIdentity(id)
  <2>1. /\ activeJob' = None
        /\ projection' = UnavailableDraft
        /\ source' = None
        /\ machine' = [projection |-> StaleFallback(Semantics), refresh |-> "scheduled"]
        /\ UNCHANGED <<nextJobId, issued>>
    BY <1>2 DEF ChangeIdentity, InvalidateJob, Revoke
  <2>2. machine' \in MachineState
    BY <2>1 DEF MachineState, StaleFallback, ProjectionState, RefreshState
  <2>3. invalidatedJobIds' \subseteq 1..MaxJobs
    <3>1. activeJob # None => activeJob.jobId \in 1..MaxJobs
      BY <1>1 DEF TypeOK, Token
    <3>2. QED
      BY <1>1, <1>2, <3>1 DEF TypeOK, ChangeIdentity, InvalidateJob
  <2>4. epoch' \in Nat /\ planGeneration' \in Nat
    BY <1>1, <1>2 DEF TypeOK, ChangeIdentity
  <2>5. TypeOK'
    BY <1>1, <2>1, <2>2, <2>3, <2>4, DraftType DEF TypeOK
  <2>6. TokensInv' /\ ActiveJobInv' /\ AppliedOnce'
    BY <1>1, <2>1 DEF IInv, TokensInv, ActiveJobInv, AppliedOnce
  <2>7. SlotInv'
    BY <1>1, <2>1 DEF SlotInv, IInv
  <2>8. SourceInv'
    BY <2>1 DEF SourceInv, UnavailableDraft, DelegatedDraft
  <2>9. QED
    BY <2>5, <2>6, <2>7, <2>8 DEF IInv
<1>3. CASE KeepIdentity(id)
  <2>1. UNCHANGED <<epoch, planGeneration, machine, projection, source, activeJob,
                    invalidatedJobIds, nextJobId, issued>>
    BY <1>3 DEF KeepIdentity, viewVars, jobVars
  <2>2. identity # None /\ identity.sid = identity'.sid
    BY <1>1, <1>3 DEF KeepIdentity, SemanticChange
  <2>3. TypeOK'
    BY <1>1, <2>1 DEF TypeOK
  <2>4. TokensInv' /\ AppliedOnce' /\ SlotInv'
    BY <1>1, <2>1 DEF IInv, TokensInv, AppliedOnce, SlotInv
  <2>5. ActiveJobInv' /\ SourceInv'
    BY <1>1, <2>1, <2>2 DEF IInv, ActiveJobInv, SourceInv
  <2>6. QED
    BY <2>3, <2>4, <2>5 DEF IInv
<1>4. QED
  BY <1>2, <1>3 DEF ObserveIdentity

(* applyLocalLkg *)
LEMMA ApplyLocalLkgInv ==
  ASSUME IInv, NEW id \in Identity, NEW routes \in SUBSET Route, ApplyLocalLkg(id, routes)
  PROVE  IInv'
<1> USE CoordinatorAssumption, ProjectorAssumption
<1>1. /\ TypeOK
      /\ ~disposed
      /\ identity = id
      /\ projection' = CompleteDraft(routes)
      /\ source' = id
      /\ machine' = [projection |-> projection'.state, refresh |-> "scheduled"]
      /\ UNCHANGED <<epoch, planGeneration, identity, disposed, activeJob, invalidatedJobIds,
                     nextJobId, issued, applications, reply>>
  BY DEF IInv, ApplyLocalLkg, LkgAdmissible, idVars, jobVars
<1>2. projection' \in Draft
  BY <1>1, DraftType
<1>3. machine' \in MachineState
  BY <1>1, <1>2 DEF Draft, MachineState, RefreshState
<1>4. TypeOK'
  BY <1>1, <1>2, <1>3 DEF TypeOK
<1>5. TokensInv' /\ ActiveJobInv' /\ AppliedOnce'
  BY <1>1 DEF IInv, TokensInv, ActiveJobInv, AppliedOnce
<1>6. SlotInv' /\ SourceInv'
  BY <1>1 DEF IInv, SlotInv, SourceInv
<1>7. QED
  BY <1>4, <1>5, <1>6 DEF IInv

(* beginRefresh *)
LEMMA BeginRefreshInv ==
  ASSUME IInv, NEW trigger \in RefreshTrigger, BeginRefresh(trigger)
  PROVE  IInv'
<1> USE CoordinatorAssumption, ProjectorAssumption
<1>1. /\ TypeOK
      /\ ~disposed
      /\ identity # None
      /\ activeJob = None
      /\ nextJobId <= MaxJobs
      /\ activeJob' = NewToken
      /\ nextJobId' = nextJobId + 1
      /\ issued' = issued \cup {NewToken}
      /\ UNCHANGED <<epoch, planGeneration, identity, disposed, projection, source,
                     invalidatedJobIds, applications, reply>>
  BY DEF IInv, BeginRefresh, idVars
<1>2. /\ NewToken \in Token
      /\ NewToken.jobId = nextJobId
      /\ NewToken.epoch = epoch
      /\ NewToken.sid = identity.sid
      /\ NewToken # None
  BY <1>1, NewTokenType
<1>3. machine' \in MachineState /\ machine'.refresh = "refreshing"
  <2>1. machine \in MachineState /\ machine.refresh # "disposed"
    BY <1>1 DEF IInv, TypeOK, SlotInv
  <2>2. Triggered(trigger) \in MachineState /\ Triggered(trigger).refresh = "scheduled"
    BY <2>1 DEF BeginRefresh, Triggered, OnTrigger, Unless, StaleFallback,
                MachineState, ProjectionState, RefreshState
  <2>3. QED
    BY <2>2 DEF BeginRefresh, OnRefreshStarted, Unless, MachineState, RefreshState
<1>4. TypeOK'
  BY <1>1, <1>2, <1>3 DEF TypeOK
<1>5. TokensInv'
  <2>1. \A t \in issued' : t.jobId < nextJobId'
    BY <1>1, <1>2 DEF IInv, TokensInv, TypeOK, Token
  <2>2. \A t, u \in issued' : t.jobId = u.jobId => t = u
    BY <1>1, <1>2 DEF IInv, TokensInv, TypeOK, Token
  <2>3. \A j \in 1..MaxJobs : j >= nextJobId' => applications'[j] = 0
    BY <1>1 DEF IInv, TokensInv, TypeOK
  <2>4. QED
    BY <2>1, <2>2, <2>3 DEF TokensInv
<1>6. ActiveJobInv'
  <2>1. applications[nextJobId] = 0
    BY <1>1 DEF IInv, TokensInv, TypeOK
  <2>2. QED
    BY <1>1, <1>2, <2>1 DEF ActiveJobInv
<1>7. AppliedOnce' /\ SlotInv' /\ SourceInv'
  BY <1>1, <1>2, <1>3 DEF IInv, AppliedOnce, SlotInv, SourceInv
<1>8. QED
  BY <1>4, <1>5, <1>6, <1>7 DEF IInv
(* completeRefresh, the token not being current: only the reply changes. *)
LEMMA RejectCompletionInv ==
  ASSUME IInv, NEW t \in issued, NEW kind \in CompletionKind, NEW claim \in LkgClaim,
         RejectCompletion(t, kind, claim)
  PROVE  IInv'
<1>1. /\ TypeOK
      /\ reply' = [jobId |-> t.jobId, kind |-> kind, claim |-> claim, reason |-> Answer(t)]
      /\ UNCHANGED <<epoch, planGeneration, identity, disposed, machine, projection, source,
                     activeJob, invalidatedJobIds, nextJobId, issued, applications>>
  BY DEF IInv, RejectCompletion, Replied, idVars, viewVars, jobVars
<1>2. reply' \in Reply
  BY <1>1 DEF TypeOK, Reply, Token, Answer, Reason
<1>3. TypeOK'
  BY <1>1, <1>2 DEF TypeOK
<1>4. TokensInv' /\ ActiveJobInv' /\ AppliedOnce' /\ SlotInv' /\ SourceInv'
  BY <1>1 DEF IInv, TokensInv, ActiveJobInv, AppliedOnce, SlotInv, SourceInv
<1>5. QED
  BY <1>3, <1>4 DEF IInv

(* A current token is the active job. *)
LEMMA CurrentIsActive ==
  ASSUME IInv, NEW t \in issued, Answer(t) = "applied"
  PROVE  /\ ~disposed
         /\ activeJob # None
         /\ t = activeJob
         /\ identity # None
         /\ identity = [sid |-> t.sid, gen |-> t.gen]
         /\ t.epoch = epoch
<1>1. TokenIsCurrent(t)
  BY DEF Answer
<1>2. activeJob \in issued /\ activeJob.jobId = t.jobId
  BY <1>1 DEF TokenIsCurrent, IInv, ActiveJobInv
<1>3. t = activeJob
  BY <1>2 DEF IInv, TokensInv
<1>4. identity \in Identity
  BY <1>1 DEF IInv, TypeOK, TokenIsCurrent
<1>5. identity = [sid |-> t.sid, gen |-> t.gen]
  BY <1>1, <1>4 DEF TokenIsCurrent, Identity
<1>6. QED
  BY <1>1, <1>3, <1>5 DEF TokenIsCurrent, IInv, ActiveJobInv

(* completeRefresh, the token being current. *)
LEMMA ApplyCompletionInv ==
  ASSUME IInv, NEW t \in issued, NEW kind \in CompletionKind, NEW routes \in SUBSET Route,
         NEW confirmed \in BOOLEAN, NEW claim \in LkgClaim,
         ApplyCompletion(t, kind, routes, confirmed, claim)
  PROVE  IInv'
<1> USE CoordinatorAssumption, ProjectorAssumption
<1> DEFINE lkg == HasValidLkg(claim)
<1>1. /\ TypeOK
      /\ Answer(t) = "applied"
      /\ reply' = [jobId |-> t.jobId, kind |-> kind, claim |-> claim, reason |-> Answer(t)]
      /\ machine' = MachineAfter(kind, routes, confirmed, lkg)
      /\ activeJob' = None
      /\ applications' = [applications EXCEPT ![t.jobId] = @ + 1]
      /\ UNCHANGED <<epoch, planGeneration, identity, disposed, invalidatedJobIds, nextJobId, issued>>
  BY DEF IInv, ApplyCompletion, Replied, idVars
<1>2. /\ projection' = IF kind = "complete" THEN CompleteDraft(routes)
                       ELSE IF Withdraws(kind, lkg) THEN UnavailableDraft ELSE projection
      /\ source' = IF kind = "complete" THEN [sid |-> t.sid, gen |-> t.gen]
                   ELSE IF Withdraws(kind, lkg) THEN None ELSE source
  BY DEF ApplyCompletion
<1>3. /\ ~disposed
      /\ t = activeJob
      /\ identity # None
      /\ identity = [sid |-> t.sid, gen |-> t.gen]
  BY <1>1, CurrentIsActive
<1>4. identity \in Identity
  BY <1>1, <1>3 DEF TypeOK
<1>5. t.jobId \in 1..MaxJobs /\ t.jobId < nextJobId /\ applications[t.jobId] = 0
  BY <1>1, <1>3 DEF IInv, TypeOK, Token, TokensInv, ActiveJobInv
<1>6. machine' \in MachineState /\ machine'.refresh \notin {"disposed", "refreshing"}
  <2>1. machine.refresh # "disposed"
    BY <1>3 DEF IInv, SlotInv
  <2>2. lkg \in BOOLEAN
    BY DEF HasValidLkg
  <2>3. QED
    BY <1>1, <2>1, <2>2, MachineAfterCompletion
<1>7. projection' \in Draft /\ source' \in Identity \cup {None}
  BY <1>1, <1>2, <1>3, <1>4, DraftType DEF TypeOK
<1>8. reply' \in Reply
  BY <1>1, <1>5 DEF Reply, Reason
<1>9. applications' \in [1..MaxJobs -> Nat]
  BY <1>1, <1>5 DEF TypeOK
<1>10. TypeOK'
  BY <1>1, <1>6, <1>7, <1>8, <1>9 DEF TypeOK
<1>11. TokensInv' /\ AppliedOnce'
  BY <1>1, <1>5 DEF IInv, TypeOK, TokensInv, AppliedOnce
<1>12. ActiveJobInv' /\ SlotInv'
  BY <1>1, <1>3, <1>6 DEF ActiveJobInv, SlotInv
<1>13. SourceInv'
  <2>1. CASE kind = "complete"
    BY <1>1, <1>2, <1>3, <2>1 DEF SourceInv
  <2>2. CASE kind # "complete" /\ Withdraws(kind, lkg)
    BY <1>2, <2>2 DEF SourceInv, UnavailableDraft, DelegatedDraft
  <2>3. CASE kind # "complete" /\ ~Withdraws(kind, lkg)
    BY <1>1, <1>2, <2>3 DEF IInv, SourceInv
  <2>4. QED
    BY <2>1, <2>2, <2>3
<1>14. QED
  BY <1>10, <1>11, <1>12, <1>13 DEF IInv

(* dispose() keeps the invariant. *)
LEMMA DisposeInv == IInv /\ Dispose => IInv'
<1> SUFFICES ASSUME IInv, Dispose PROVE IInv'
  OBVIOUS
<1>1. /\ TypeOK
      /\ disposed' = TRUE
      /\ epoch' = epoch + 1
      /\ activeJob' = None
      /\ machine' = Terminal
      /\ projection' = [projection EXCEPT !.state = "disposed"]
      /\ UNCHANGED <<planGeneration, identity, source, invalidatedJobIds, nextJobId,
                     issued, applications, reply>>
  BY DEF IInv, Dispose, OnDispose
<1>2. projection' \in Draft /\ projection'.auto = projection.auto
  BY <1>1 DEF TypeOK, Draft, ProjectionState
<1>3. machine' \in MachineState
  BY <1>1 DEF Terminal, MachineState, ProjectionState, RefreshState
<1>4. epoch' \in Nat
  BY <1>1 DEF TypeOK
<1>5. TypeOK'
  BY <1>1, <1>2, <1>3, <1>4 DEF TypeOK
<1>6. TokensInv' /\ ActiveJobInv' /\ AppliedOnce' /\ SlotInv' /\ SourceInv'
  BY <1>1, <1>2 DEF IInv, TokensInv, ActiveJobInv, AppliedOnce, SlotInv, SourceInv, Terminal
<1>7. QED
  BY <1>5, <1>6 DEF IInv

(* The inputs Complete enumerates are completions of the given token. *)
LEMMA CompleteInputs ==
  ASSUME NEW t, Complete(t)
  PROVE  \E kind \in CompletionKind, routes \in SUBSET Route, confirmed \in BOOLEAN,
            claim \in LkgClaim : CompleteRefresh(t, kind, routes, confirmed, claim)
<1> USE DEF CompletionKind, LkgClaim
<1>1. CASE \E routes \in SUBSET Route : CompleteRefresh(t, "complete", routes, TRUE, "derived")
  BY <1>1
<1>2. CASE \E confirmed \in BOOLEAN : CompleteRefresh(t, "auth-failure", {}, confirmed, "derived")
  BY <1>2
<1>3. CASE \E kind \in CompletionKind \ {"complete", "auth-failure"}, claim \in LkgClaim :
             CompleteRefresh(t, kind, {}, TRUE, claim)
  BY <1>3
<1>4. QED
  BY <1>1, <1>2, <1>3 DEF Complete

(* Every method keeps the invariant. *)
LEMMA NextInv == IInv /\ [Next]_vars => IInv'
<1> SUFFICES ASSUME IInv, [Next]_vars PROVE IInv'
  OBVIOUS
<1>1. ASSUME NEW id \in Identity, ObserveIdentity(id) PROVE IInv'
  BY <1>1, ObserveIdentityInv
<1>2. ASSUME NEW id \in Identity, NEW routes \in SUBSET Route, ApplyLocalLkg(id, routes)
      PROVE  IInv'
  BY <1>2, ApplyLocalLkgInv
<1>3. ASSUME NEW trigger \in RefreshTrigger, BeginRefresh(trigger) PROVE IInv'
  BY <1>3, BeginRefreshInv
<1>4. ASSUME NEW t \in issued, Complete(t) PROVE IInv'
  <2>1. PICK kind \in CompletionKind, routes \in SUBSET Route, confirmed \in BOOLEAN,
             claim \in LkgClaim : CompleteRefresh(t, kind, routes, confirmed, claim)
    BY <1>4, CompleteInputs
  <2>2. QED
    BY <2>1, RejectCompletionInv, ApplyCompletionInv DEF CompleteRefresh
<1>5. CASE Dispose
  BY <1>5, DisposeInv
<1>6. CASE UNCHANGED vars
  BY <1>6 DEF IInv, TypeOK, TokensInv, ActiveJobInv, AppliedOnce, SlotInv, SourceInv,
              vars, idVars, viewVars, jobVars
<1>7. QED
  BY <1>1, <1>2, <1>3, <1>4, <1>5, <1>6 DEF Next
-----------------------------------------------------------------------------

(* The inductive invariant holds in every state of every coordinator. *)
THEOREM Invariant == Spec => []IInv
  BY InitInv, NextInv, PTL DEF Spec

(* Every variable keeps its type. *)
THEOREM TypeCorrect == Spec => []TypeOK
<1>1. IInv => TypeOK
  BY DEF IInv
<1>2. QED
  BY <1>1, Invariant, PTL

(* The fence: a completion that arrives after the semantic identity changed  *)
(* is never applied, whichever identity is observed by then.                 *)
THEOREM Fence == Spec => []EpochFence
<1>1. IInv => EpochFence
  BY CurrentIsActive DEF EpochFence
<1>2. QED
  BY <1>1, Invariant, PTL

(* At most one of the tokens ever handed out can still be applied. *)
THEOREM SingleFlight == Spec => []OneLiveToken
<1>1. IInv => OneLiveToken
  <2> SUFFICES ASSUME IInv, NEW t \in issued, NEW u \in issued,
                      Answer(t) = "applied", Answer(u) = "applied"
               PROVE  t = u
    BY DEF OneLiveToken
  <2>1. t = activeJob /\ u = activeJob
    BY CurrentIsActive
  <2>2. QED
    BY <2>1
<1>2. QED
  BY <1>1, Invariant, PTL

(* No completion is applied twice. *)
THEOREM NoDoubleApply == Spec => []AppliedOnce
<1>1. IInv => AppliedOnce
  BY DEF IInv
<1>2. QED
  BY <1>1, Invariant, PTL

(* What is shown was fetched for the semantic identity observed last. *)
THEOREM Ownership == Spec => []ShownIsOwned
<1>1. IInv => ShownIsOwned
  BY DEF IInv, SourceInv, ShownIsOwned
<1>2. QED
  BY <1>1, Invariant, PTL

(* An idle coordinator can always be refreshed by hand. *)
THEOREM ManualRefreshPossible == Spec => []IdleCanRefresh
<1>1. IInv => IdleCanRefresh
  <2> SUFFICES ASSUME IInv, ~disposed, activeJob = None
               PROVE  Triggered("manual").refresh = "scheduled"
    BY DEF IdleCanRefresh
  <2>1. machine \in MachineState /\ machine.refresh \notin {"refreshing", "disposed"}
    BY DEF IInv, TypeOK, SlotInv
  <2>2. Triggered("manual") = [machine EXCEPT !.refresh = "scheduled"]
    BY <2>1 DEF Triggered, OnTrigger, Unless
  <2>3. QED
    BY <2>1, <2>2 DEF MachineState
<1>2. QED
  BY <1>1, Invariant, PTL

-----------------------------------------------------------------------------

(* While the coordinator lives, routes are on show only in a fresh draft.   *)
FreshInv == ~disposed /\ projection.auto # {} => projection.state = "fresh"

(* Every step keeps it.                                                    *)
LEMMA FreshKept == IInv /\ FreshInv /\ [Next]_vars => FreshInv'
<1> SUFFICES ASSUME IInv, FreshInv, [Next]_vars PROVE FreshInv'
  OBVIOUS
<1>1. \A routes \in SUBSET Route :
        CompleteDraft(routes).auto # {} => CompleteDraft(routes).state = "fresh"
  BY DEF CompleteDraft, DelegatedDraft
<1>2. UnavailableDraft.auto = {}
  BY DEF UnavailableDraft, DelegatedDraft
<1>3. ASSUME NEW id \in Identity, ObserveIdentity(id) PROVE FreshInv'
  BY <1>2, <1>3 DEF ObserveIdentity, ChangeIdentity, KeepIdentity, Revoke, viewVars, FreshInv
<1>4. ASSUME NEW id \in Identity, NEW routes \in SUBSET Route, ApplyLocalLkg(id, routes)
      PROVE  FreshInv'
  BY <1>1, <1>4 DEF ApplyLocalLkg, FreshInv
<1>5. ASSUME NEW trigger \in RefreshTrigger, BeginRefresh(trigger) PROVE FreshInv'
  BY <1>5 DEF BeginRefresh, idVars, FreshInv
<1>6. ASSUME NEW t \in issued, Complete(t) PROVE FreshInv'
  <2>1. PICK kind \in CompletionKind, routes \in SUBSET Route, confirmed \in BOOLEAN,
             claim \in LkgClaim : CompleteRefresh(t, kind, routes, confirmed, claim)
    BY <1>6, CompleteInputs
  <2>2. CASE RejectCompletion(t, kind, claim)
    BY <2>2 DEF RejectCompletion, idVars, viewVars, FreshInv
  <2>3. CASE ApplyCompletion(t, kind, routes, confirmed, claim)
    BY <1>1, <1>2, <2>3 DEF ApplyCompletion, idVars, FreshInv
  <2>4. QED
    BY <2>1, <2>2, <2>3 DEF CompleteRefresh
<1>7. CASE Dispose
  BY <1>7 DEF Dispose, FreshInv
<1>8. CASE UNCHANGED vars
  BY <1>8 DEF vars, idVars, viewVars, FreshInv
<1>9. QED
  BY <1>3, <1>4, <1>5, <1>6, <1>7, <1>8 DEF Next

(* It holds in every state a coordinator reaches.                          *)
LEMMA FreshHolds == Spec => []FreshInv
<1>1. Init => FreshInv
  BY DEF Init, FreshInv, UnavailableDraft, DelegatedDraft
<1>2. QED
  BY <1>1, FreshKept, Invariant, PTL DEF Spec

(* No completion but a complete one adds to what is shown.  None but an      *)
(* authentication failure, of which no more is said, takes away unless its   *)
(* caller says there is nothing to fall back on (completeRefresh with its    *)
(* derived hasValidLkg).                                                     *)
THEOREM OnlyCompleteReplaces == Spec => NonCompleteKeepsShow
<1> DEFINE Kept == applications' # applications /\ reply'.kind # "complete" =>
                     /\ projection'.auto \subseteq projection.auto
                     /\ reply'.kind # "auth-failure" /\ reply'.claim # "none" =>
                          projection'.auto = projection.auto
<1>1. ASSUME IInv, FreshInv, [Next]_vars PROVE Kept
  <2>1. CASE UNCHANGED applications
    BY <2>1
  <2>2. ASSUME NEW t \in issued, NEW kind \in CompletionKind, NEW routes \in SUBSET Route,
               NEW confirmed \in BOOLEAN, NEW claim \in LkgClaim,
               ApplyCompletion(t, kind, routes, confirmed, claim)
        PROVE  Kept
    <3>1. ~disposed
      BY <1>1, <2>2, CurrentIsActive DEF ApplyCompletion
    <3>2. reply'.kind = kind /\ reply'.claim = claim
      BY <2>2 DEF ApplyCompletion, Replied
    <3>3. CASE kind # "complete" /\ Withdraws(kind, HasValidLkg(claim))
      <4>1. projection'.auto = {}
        BY <2>2, <3>3 DEF ApplyCompletion, UnavailableDraft, DelegatedDraft
      <4>2. claim # "none" => projection.auto = {}
        BY <1>1, <3>1, <3>3 DEF Withdraws, HasValidLkg, LkgClaim, FreshInv
      <4>3. QED
        BY <3>2, <4>1, <4>2
    <3>4. CASE kind # "complete" /\ ~Withdraws(kind, HasValidLkg(claim))
      BY <2>2, <3>4 DEF ApplyCompletion
    <3>5. QED
      BY <3>2, <3>3, <3>4
  <2>3. ASSUME NEW t \in issued, Complete(t) PROVE Kept
    <3>1. PICK kind \in CompletionKind, routes \in SUBSET Route, confirmed \in BOOLEAN,
               claim \in LkgClaim : CompleteRefresh(t, kind, routes, confirmed, claim)
      BY <2>3, CompleteInputs
    <3>2. CASE RejectCompletion(t, kind, claim)
      BY <3>2 DEF RejectCompletion
    <3>3. CASE ApplyCompletion(t, kind, routes, confirmed, claim)
      BY <2>2, <3>3
    <3>4. QED
      BY <3>1, <3>2, <3>3 DEF CompleteRefresh
  <2>4. QED
    BY <1>1, <2>1, <2>3 DEF Next, ObserveIdentity, ApplyLocalLkg, BeginRefresh, Dispose, vars
<1>2. IInv /\ FreshInv /\ [Next]_vars => [Kept]_vars
  BY <1>1
<1>3. QED
  BY <1>2, FreshHolds, Invariant, PTL DEF Spec, NonCompleteKeepsShow

(* After dispose() nothing a host can read changes any more.                *)
THEOREM DisposalIsFinal == Spec => DisposedIsFinal
<1> DEFINE Still == disposed => UNCHANGED <<idVars, viewVars, jobVars, applications>>
<1>1. ASSUME [Next]_vars PROVE Still
  <2>1. ASSUME disposed, NEW t \in issued, Complete(t)
        PROVE  UNCHANGED <<idVars, viewVars, jobVars, applications>>
    <3>1. Answer(t) # "applied"
      BY <2>1 DEF Answer
    <3>2. QED
      BY <2>1, <3>1, CompleteInputs DEF CompleteRefresh, RejectCompletion, ApplyCompletion
  <2>2. CASE UNCHANGED vars
    BY <2>2 DEF vars, idVars, viewVars, jobVars
  <2>3. CASE Next
    BY <2>1, <2>3 DEF Next, ObserveIdentity, ApplyLocalLkg, LkgAdmissible, BeginRefresh, Dispose
  <2>4. QED
    BY <1>1, <2>2, <2>3
<1>2. [Next]_vars => [Still]_vars
  BY <1>1
<1>3. QED
  BY <1>2, PTL DEF Spec, DisposedIsFinal

-----------------------------------------------------------------------------

(* Under the mapping of Coordinator!Gate the first state is the gate's.     *)
LEMMA GateInitial == Init => Gate!GateInit
  BY DEF Init, Gate!GateInit, UnavailableDraft, DelegatedDraft

(* Every step of the coordinator is a step of the gate or leaves it alone.  *)
LEMMA GateStep == IInv /\ [Next]_vars => [Gate!GateNext]_(Gate!gateVars)
<1> SUFFICES ASSUME IInv, [Next]_vars
             PROVE  Gate!GateNext \/ UNCHANGED Gate!gateVars
  BY DEF Gate!gateVars
<1> USE DEF Gate!gateVars
<1>1. ASSUME NEW id \in Identity, ObserveIdentity(id)
      PROVE  Gate!GateNext \/ UNCHANGED Gate!gateVars
  <2>1. id \in Gate!Owner
    BY DEF Gate!Owner, Identity
  <2>2. CASE ChangeIdentity(id)
    <3>1. Gate!Rebind(id)
      BY <1>1, <2>2 DEF ObserveIdentity, ChangeIdentity, SemanticChange, Revoke,
         UnavailableDraft, DelegatedDraft, Gate!Rebind, Gate!SameSubject
    <3>2. QED
      BY <2>1, <3>1 DEF Gate!GateNext
  <2>3. CASE KeepIdentity(id)
    <3>1. Gate!Rotate(id)
      BY <1>1, <2>3 DEF ObserveIdentity, KeepIdentity, SemanticChange, viewVars,
         Gate!Rotate, Gate!SameSubject
    <3>2. QED
      BY <2>1, <3>1 DEF Gate!GateNext
  <2>4. QED
    BY <1>1, <2>2, <2>3 DEF ObserveIdentity
<1>2. ASSUME NEW id \in Identity, NEW routes \in SUBSET Route, ApplyLocalLkg(id, routes)
      PROVE  Gate!GateNext \/ UNCHANGED Gate!gateVars
  <2>1. projection'.auto \in SUBSET Key
    BY <1>2, DraftType DEF ApplyLocalLkg, Draft
  <2>2. Gate!Publish(projection'.auto)
    BY <1>2, CoordinatorAssumption DEF ApplyLocalLkg, LkgAdmissible, idVars, Gate!Publish
  <2>3. QED
    BY <2>1, <2>2 DEF Gate!GateNext
<1>3. ASSUME NEW trigger \in RefreshTrigger, BeginRefresh(trigger)
      PROVE  Gate!GateNext \/ UNCHANGED Gate!gateVars
  BY <1>3 DEF BeginRefresh, idVars
<1>4. ASSUME NEW t \in issued, Complete(t)
      PROVE  Gate!GateNext \/ UNCHANGED Gate!gateVars
  <2>1. PICK kind \in CompletionKind, routes \in SUBSET Route, confirmed \in BOOLEAN,
             claim \in LkgClaim : CompleteRefresh(t, kind, routes, confirmed, claim)
    BY <1>4, CompleteInputs
  <2>2. CASE RejectCompletion(t, kind, claim)
    BY <2>2 DEF RejectCompletion, idVars, viewVars
  <2>3. CASE ApplyCompletion(t, kind, routes, confirmed, claim)
    <3> DEFINE lkg == HasValidLkg(claim)
    <3>1. /\ ~disposed
          /\ identity # None
          /\ identity = [sid |-> t.sid, gen |-> t.gen]
          /\ UNCHANGED <<identity, disposed>>
      BY <2>3, CurrentIsActive DEF ApplyCompletion, idVars
    <3>2. /\ projection' = IF kind = "complete" THEN CompleteDraft(routes)
                           ELSE IF Withdraws(kind, lkg) THEN UnavailableDraft ELSE projection
          /\ source' = IF kind = "complete" THEN [sid |-> t.sid, gen |-> t.gen]
                       ELSE IF Withdraws(kind, lkg) THEN None ELSE source
      BY <2>3 DEF ApplyCompletion
    <3>3. CASE kind = "complete"
      <4>1. projection'.auto \in SUBSET Key
        BY <3>2, <3>3, DraftType DEF Draft
      <4>2. Gate!Publish(projection'.auto)
        BY <3>1, <3>2, <3>3 DEF Gate!Publish
      <4>3. QED
        BY <4>1, <4>2 DEF Gate!GateNext
    <3>4. CASE kind # "complete" /\ Withdraws(kind, lkg)
      <4>1. Gate!Withdraw
        BY <3>1, <3>2, <3>4 DEF Gate!Withdraw, UnavailableDraft, DelegatedDraft
      <4>2. QED
        BY <4>1 DEF Gate!GateNext
    <3>5. CASE kind # "complete" /\ ~Withdraws(kind, lkg)
      BY <3>1, <3>2, <3>5
    <3>6. QED
      BY <3>3, <3>4, <3>5
  <2>4. QED
    BY <2>1, <2>2, <2>3 DEF CompleteRefresh
<1>5. CASE Dispose
  <2>1. projection'.auto = projection.auto
    BY <1>5 DEF Dispose, IInv, TypeOK, Draft
  <2>2. Gate!Close
    BY <1>5, <2>1 DEF Dispose, Gate!Close
  <2>3. QED
    BY <2>2 DEF Gate!GateNext
<1>6. CASE UNCHANGED vars
  BY <1>6 DEF vars, idVars, viewVars
<1>7. QED
  BY <1>1, <1>2, <1>3, <1>4, <1>5, <1>6 DEF Next

(* The coordinator implements the publication gate. *)
THEOREM Refinement == Spec => ImplementsGate
<1>1. Spec => Gate!GateSpec
  BY GateInitial, GateStep, Invariant, PTL DEF Spec, Gate!GateSpec
<1>2. QED
  BY <1>1 DEF ImplementsGate

-----------------------------------------------------------------------------
(***************************************************************************)
(* The runtime.                                                            *)
(***************************************************************************)

(* While it lives, the runtime's context is the coordinator's identity.    *)
OwnInv == ~disposed => context = identity

(* What a start has read was published for its subject; a denial that lay  *)
(* on disk when the process began is known once the tombstone is read.     *)
BootInv ==
  \A c \in Call :
    /\ boot[c].pc = "resolving" => boot[c].unread = Part
    /\ boot[c].pc = "loading" => boot[c].ctx # None
    /\ boot[c].lkg # None => /\ boot[c].lkg \in published
                             /\ boot[c].lkg.owner.sid = boot[c].ctx.sid
    /\ boot[c].pc = "loading" /\ "tombstone" \notin boot[c].unread =>
         (boot[c].ctx \in blockedAtStart => boot[c].blocked)

(* A run fetches for the pair of its token, and what it is about to persist*)
(* was published or denied for that pair.                                  *)
RunsInv ==
  \A j \in 1..MaxJobs : runs[j].pc # "none" =>
    /\ runs[j].token \in issued
    /\ runs[j].ctx = Pair(runs[j].token)
    /\ runs[j].pc = "persisting" =>
         /\ runs[j].record # None
         /\ runs[j].record.owner = runs[j].ctx
         /\ runs[j].kind = "complete" => runs[j].record \in published
         /\ runs[j].kind = "auth-failure" /\ runs[j].confirmed => runs[j].ctx \in denied

DiskInv == DiskWasPublished /\ blockedAtStart \subseteq tombstones

RestInv ==
  /\ RuntimeTypeOK
  /\ OwnInv /\ BootInv /\ RunsInv /\ DiskInv
  /\ ShownWasPublished

RuntimeInv == IInv /\ RestInv

-----------------------------------------------------------------------------
(* A completion the runtime delivers is one the coordinator's callers may. *)
LEMMA DeliverCompletes ==
  ASSUME NEW t, NEW kind \in CompletionKind, NEW routes \in SUBSET Route, NEW confirmed \in BOOLEAN,
         kind # "complete" => routes = {},
         CompleteRefresh(t, kind, routes, confirmed, "derived")
  PROVE  Complete(t)
<1>1. CASE kind = "auth-failure"
  BY <1>1 DEF Complete
<1>2. CASE kind # "auth-failure"
  <2>1. MachineAfter(kind, routes, confirmed, HasValidLkg("derived"))
          = MachineAfter(kind, routes, TRUE, HasValidLkg("derived"))
    BY <1>2 DEF MachineAfter
  <2>2. CompleteRefresh(t, kind, routes, TRUE, "derived")
    BY <2>1 DEF CompleteRefresh, ApplyCompletion
  <2>3. QED
    BY <1>2, <2>2 DEF Complete, CompletionKind, LkgClaim
<1>3. QED
  BY <1>1, <1>2

(* A fetch that returns delivers one completion with its inputs.           *)
LEMMA FetchDelivers ==
  ASSUME RuntimeInv, NEW j \in 1..MaxJobs, FetchReturns(j)
  PROVE  \E kind \in CompletionKind, routes \in SUBSET Route, confirmed \in BOOLEAN :
           Deliver(j, kind, routes, confirmed) /\ Complete(runs[j].token)
<1>1. PICK kind \in CompletionKind, routes \in SUBSET Route, confirmed \in BOOLEAN :
        Deliver(j, kind, routes, confirmed) /\ (kind # "complete" => routes = {})
  <2> USE RuntimeAssumption DEF CompletionKind
  <2>1. CASE \E routes \in Inventories : "complete" \in Outcomes /\ Deliver(j, "complete", routes, FALSE)
    BY <2>1
  <2>2. CASE \E confirmed \in BOOLEAN :
               "auth-failure" \in Outcomes /\ Deliver(j, "auth-failure", {}, confirmed)
    BY <2>2
  <2>3. CASE \E kind \in Outcomes \ {"complete", "auth-failure"} : Deliver(j, kind, {}, FALSE)
    BY <2>3
  <2>4. QED
    BY <2>1, <2>2, <2>3 DEF FetchReturns
<1>2. Complete(runs[j].token)
  BY <1>1, DeliverCompletes DEF Deliver
<1>3. QED
  BY <1>1, <1>2

(* Between crashes the coordinator in the runtime takes its own steps.     *)
LEMMA CoordinatorSteps ==
  ASSUME RuntimeInv, [RuntimeNext]_rvars
  PROVE  Restart \/ [Next]_vars
<1>1. ASSUME NEW c \in Call, ResolveIdentity(c)
      PROVE  [Next]_vars
  <2>1. boot[c].ctx \in Identity
    BY <1>1 DEF RuntimeInv, RestInv, RuntimeTypeOK, BootRun, ResolveIdentity
  <2>2. QED
    BY <1>1, <2>1 DEF ResolveIdentity, Next
<1>2. ASSUME NEW c \in Call, ActivateLkg(c)
      PROVE  Next
  <2>1. boot[c].ctx \in Identity /\ boot[c].lkg.routes \in SUBSET Route
    BY <1>2 DEF RuntimeInv, RestInv, RuntimeTypeOK, BootRun, BootInv, Record, ActivateLkg, Usable, Loaded
  <2>2. QED
    BY <1>2, <2>1 DEF ActivateLkg, Next
<1>3. ASSUME NEW j \in 1..MaxJobs, FetchReturns(j)
      PROVE  Next
  <2>1. runs[j].token \in issued
    BY <1>3 DEF RuntimeInv, RestInv, RunsInv, FetchReturns
  <2>2. QED
    BY <1>3, <2>1, FetchDelivers DEF Next
<1>4. ASSUME NEW trigger \in RefreshTrigger, StartRun(trigger)
      PROVE  Next
  BY <1>4 DEF StartRun, Next
<1>5. CASE UNCHANGED rvars
  BY <1>5 DEF rvars
<1>6. ASSUME NEW c \in Call, Initialize(c) \/ BootStep(c)
      PROVE  [Next]_vars
  BY <1>1, <1>2, <1>6 DEF Initialize, BootStep, ResolveNothing, ReadInventory, ReadTombstone, SkipLkg
<1>7. CASE MarkSetupReturned \/ RefreshNow \/ PostSetupRefresh \/ RefreshDue
  BY <1>4, <1>7 DEF MarkSetupReturned, RefreshNow, PostSetupRefresh, RefreshDue, RefreshTrigger
<1>8. ASSUME NEW j \in 1..MaxJobs, FetchReturns(j) \/ Persist(j) \/ PersistFails(j)
      PROVE  [Next]_vars
  BY <1>3, <1>8 DEF Persist, PersistFails
<1>9. CASE DisposeRuntime \/ ChangeCredential \/ Tick
  BY <1>9 DEF DisposeRuntime, ChangeCredential, Tick, Next
<1>10. QED
  BY <1>5, <1>6, <1>7, <1>8, <1>9 DEF RuntimeNext

(* A new process has a new coordinator.                                    *)
LEMMA RestartIsInit == Restart => Init'
  BY DEF Restart, Init

(* The coordinator's invariant survives every step of the runtime: its own*)
(* steps keep it and a new process starts with it.                         *)
LEMMA CoordinatorKept ==
  ASSUME RuntimeInv, [RuntimeNext]_rvars
  PROVE  IInv'
<1>1. Init' => IInv'
  BY InitInv, PTL
<1>2. [Next]_vars => IInv'
  BY NextInv DEF RuntimeInv
<1>3. QED
  BY <1>1, <1>2, CoordinatorSteps, RestartIsInit

-----------------------------------------------------------------------------
(* A first process, with nothing on disk.                                  *)
LEMMA RuntimeInitInv == RuntimeInit => RuntimeInv
<1> SUFFICES ASSUME RuntimeInit PROVE RuntimeInv
  OBVIOUS
<1>1. IInv
  BY InitInv DEF RuntimeInit
<1>2. RuntimeTypeOK
  <2>1. boot \in [Call -> BootRun] /\ runs \in [1..MaxJobs -> Refresh]
    BY DEF RuntimeInit, NoBoot, BootRun, NoRun, Refresh, CompletionKind
  <2>2. QED
    BY <1>1, <2>1, RuntimeAssumption DEF RuntimeInit, RuntimeTypeOK, IInv
<1>3. OwnInv
  BY DEF RuntimeInit, Init, OwnInv
<1>4. BootInv /\ RunsInv
  BY DEF RuntimeInit, BootInv, RunsInv, NoBoot, NoRun
<1>5. DiskInv
  BY DEF RuntimeInit, DiskInv, DiskWasPublished
<1>6. ShownWasPublished
  BY DEF RuntimeInit, Init, ShownWasPublished, UnavailableDraft, DelegatedDraft
<1>7. QED
  BY <1>1, <1>2, <1>3, <1>4, <1>5, <1>6 DEF RuntimeInv, RestInv

(* A crash takes all but the disk; what the new process finds blocked is   *)
(* what lies there.                                                        *)
LEMMA RestartInv == RuntimeInv /\ Restart => RuntimeInv'
<1> SUFFICES ASSUME RuntimeInv, Restart PROVE RuntimeInv'
  OBVIOUS
<1>1. IInv'
  BY CoordinatorKept DEF RuntimeNext
<1>2. RuntimeTypeOK'
  <2>1. boot' \in [Call -> BootRun] /\ runs' \in [1..MaxJobs -> Refresh]
    BY DEF Restart, NoBoot, BootRun, NoRun, Refresh, CompletionKind
  <2>2. restarts' \in 0..MaxRestarts /\ blockedAtStart' \subseteq Identity
    BY RuntimeAssumption DEF Restart, RuntimeInv, RestInv, RuntimeTypeOK
  <2>3. QED
    BY <1>1, <2>1, <2>2, RuntimeAssumption DEF Restart, RuntimeInv, RestInv, RuntimeTypeOK, IInv, diskVars, pastVars
<1>3. OwnInv'
  BY DEF Restart, OwnInv
<1>4. BootInv' /\ RunsInv'
  BY DEF Restart, BootInv, RunsInv, NoBoot, NoRun
<1>5. DiskInv'
  BY DEF Restart, RuntimeInv, RestInv, DiskInv, DiskWasPublished, diskVars, pastVars
<1>6. ShownWasPublished'
  BY DEF Restart, ShownWasPublished, UnavailableDraft, DelegatedDraft
<1>7. QED
  BY <1>1, <1>2, <1>3, <1>4, <1>5, <1>6 DEF RuntimeInv, RestInv

-----------------------------------------------------------------------------
(* A start that begins, finds nothing or reads a file touches its own      *)
(* record only.                                                            *)
LEMMA BootReads ==
  ASSUME RuntimeInv, NEW c \in Call, NEW b \in BootRun,
         boot' = [boot EXCEPT ![c] = b],
         UNCHANGED <<vars, hostVars, setupAt, context, activeToken, lastComplete, runs, diskVars, pastVars>>,
         b.pc = "resolving" => b.unread = Part,
         b.pc = "loading" => b.ctx # None,
         b.lkg # None => b.lkg \in published /\ b.lkg.owner.sid = b.ctx.sid,
         b.pc = "loading" /\ "tombstone" \notin b.unread =>
           (b.ctx \in blockedAtStart => b.blocked)
  PROVE  RestInv'
<1> USE DEF RuntimeInv, RestInv, vars, idVars, viewVars, jobVars, hostVars, diskVars, pastVars
<1>1. boot \in [Call -> BootRun]
  BY DEF RuntimeTypeOK
<1>2. \A d \in Call : boot'[d] = IF d = c THEN b ELSE boot[d]
  BY <1>1
<1>3. RuntimeTypeOK'
  <2>1. TypeOK'
    BY DEF RuntimeTypeOK, TypeOK
  <2>2. boot' \in [Call -> BootRun]
    BY <1>1
  <2>3. QED
    BY <2>1, <2>2 DEF RuntimeTypeOK
<1>4. BootInv'
  BY <1>2 DEF BootInv
<1>5. OwnInv' /\ RunsInv' /\ DiskInv' /\ ShownWasPublished'
  BY DEF OwnInv, RunsInv, DiskInv, DiskWasPublished, ShownWasPublished
<1>6. QED
  BY <1>3, <1>4, <1>5 DEF RestInv

(* The steps of a start that read, or find nothing, keep the invariant.    *)
LEMMA BootQuiet ==
  ASSUME RuntimeInv, NEW c \in Call,
         Initialize(c) \/ ResolveNothing(c) \/ ReadInventory(c) \/ ReadTombstone(c) \/ SkipLkg(c)
  PROVE  RestInv'
<1>1. boot[c] \in BootRun /\ credential \in Identity \cup {None}
  BY DEF RuntimeInv, RestInv, RuntimeTypeOK
<1>2. UNCHANGED <<vars, hostVars, setupAt, context, activeToken, lastComplete, runs, diskVars, pastVars>>
  BY DEF Initialize, ResolveNothing, ReadInventory, ReadTombstone, SkipLkg
<1>3. CASE Initialize(c)
  <2>1. PICK b : b = [NoBoot EXCEPT !.pc = "resolving", !.ctx = credential]
    OBVIOUS
  <2>2. b \in BootRun /\ b.pc = "resolving" /\ b.unread = Part /\ b.lkg = None
    BY <1>1, <2>1 DEF NoBoot, BootRun
  <2>3. boot' = [boot EXCEPT ![c] = b]
    BY <1>3, <2>1 DEF Initialize
  <2>4. QED
    BY <1>2, <2>2, <2>3, BootReads
<1>4. CASE ResolveNothing(c) \/ SkipLkg(c)
  <2>1. PICK b : b = NoBoot
    OBVIOUS
  <2>2. b \in BootRun /\ b.pc = "idle" /\ b.lkg = None
    BY <2>1 DEF NoBoot, BootRun
  <2>3. boot' = [boot EXCEPT ![c] = b]
    BY <1>4, <2>1 DEF ResolveNothing, SkipLkg
  <2>4. QED
    BY <1>2, <2>2, <2>3, BootReads
<1>5. CASE ReadInventory(c)
  <2>1. boot[c].pc = "loading" /\ boot[c].ctx \in Identity
    BY <1>1, <1>5 DEF ReadInventory, RuntimeInv, RestInv, BootInv, BootRun
  <2>2. PICK found : found = inventory[boot[c].ctx.sid]
    OBVIOUS
  <2>3. /\ found \in Record \cup {None}
        /\ found # None => found \in published /\ found.owner.sid = boot[c].ctx.sid
    BY <2>1, <2>2 DEF RuntimeInv, RestInv, RuntimeTypeOK, DiskInv, DiskWasPublished, Identity
  <2>4. PICK b : b = [boot[c] EXCEPT !.unread = @ \ {"inventory"}, !.lkg = found]
    OBVIOUS
  <2>5. /\ b \in BootRun
        /\ b.pc = boot[c].pc /\ b.ctx = boot[c].ctx /\ b.blocked = boot[c].blocked /\ b.lkg = found
        /\ b.unread = boot[c].unread \ {"inventory"}
    BY <1>1, <2>3, <2>4 DEF BootRun
  <2>6. boot' = [boot EXCEPT ![c] = b]
    BY <1>5, <2>2, <2>4 DEF ReadInventory
  <2>7. b.pc = "loading" /\ "tombstone" \notin b.unread =>
          (b.ctx \in blockedAtStart => b.blocked)
    BY <2>5 DEF RuntimeInv, RestInv, BootInv
  <2>8. QED
    BY <1>2, <2>1, <2>3, <2>5, <2>6, <2>7, CoordinatorAssumption, BootReads
<1>6. CASE ReadTombstone(c)
  <2> DEFINE denial == boot[c].ctx \in tombstones
  <2>1. denial \in BOOLEAN /\ (boot[c].ctx \in blockedAtStart => denial)
    BY DEF RuntimeInv, RestInv, DiskInv
  <2>2. boot' = [boot EXCEPT ![c] = [boot[c] EXCEPT !.unread = @ \ {"tombstone"}, !.blocked = denial]]
    BY <1>6 DEF ReadTombstone
  <2> HIDE DEF denial
  <2>3. PICK b : b = [boot[c] EXCEPT !.unread = @ \ {"tombstone"}, !.blocked = denial]
    OBVIOUS
  <2>4. /\ b \in BootRun
        /\ b.pc = "loading" /\ b.ctx = boot[c].ctx /\ b.lkg = boot[c].lkg /\ b.blocked = denial
    BY <1>1, <1>6, <2>1, <2>3 DEF BootRun, ReadTombstone
  <2>5. b.ctx \in blockedAtStart => b.blocked
    BY <2>1, <2>4
  <2>6. /\ b.ctx # None
        /\ b.lkg # None => b.lkg \in published /\ b.lkg.owner.sid = b.ctx.sid
    BY <1>6, <2>4 DEF ReadTombstone, RuntimeInv, RestInv, BootInv
  <2>7. QED
    BY <1>2, <2>3, <2>4, <2>2, <2>5, <2>6, BootReads
<1>7. QED
  BY <1>3, <1>4, <1>5, <1>6

(* The identity that was resolved is observed and becomes the context.     *)
LEMMA ResolveIdentityRest ==
  ASSUME RuntimeInv, IInv', NEW c \in Call, ResolveIdentity(c)
  PROVE  RestInv'
<1> USE DEF hostVars, diskVars, pastVars
<1>1. boot \in [Call -> BootRun] /\ boot[c].ctx \in Identity
  BY DEF RuntimeInv, RestInv, RuntimeTypeOK, BootRun, ResolveIdentity
<1>2. /\ context' = boot[c].ctx
      /\ boot' = [boot EXCEPT ![c].pc = "loading"]
      /\ UNCHANGED <<hostVars, setupAt, activeToken, lastComplete, runs, diskVars, pastVars>>
  BY DEF ResolveIdentity, ContextAfter
<1>3. \/ disposed /\ UNCHANGED vars
      \/ ~disposed /\ ObserveIdentity(boot[c].ctx)
  BY DEF ResolveIdentity
<1>4. /\ issued' = issued
      /\ disposed' = disposed
      /\ ~disposed => identity' = boot[c].ctx
  BY <1>3 DEF ObserveIdentity, ChangeIdentity, KeepIdentity, vars, jobVars, idVars
<1>5. RuntimeTypeOK'
  <2>1. boot' \in [Call -> BootRun]
    BY <1>1, <1>2 DEF BootRun
  <2>2. TypeOK'
    BY DEF IInv
  <2>3. QED
    BY <1>1, <1>2, <2>1, <2>2 DEF RuntimeInv, RestInv, RuntimeTypeOK
<1>6. OwnInv'
  BY <1>2, <1>4 DEF OwnInv
<1>7. BootInv'
  <2>1. boot[c].pc = "resolving"
    BY DEF ResolveIdentity
  <2>2. ASSUME NEW d \in Call
        PROVE  /\ boot'[d].ctx = boot[d].ctx /\ boot'[d].lkg = boot[d].lkg
               /\ boot'[d].unread = boot[d].unread /\ boot'[d].blocked = boot[d].blocked
               /\ d # c => boot'[d].pc = boot[d].pc
    BY <1>1, <1>2 DEF BootRun
  <2>3. "tombstone" \in boot[c].unread
    BY <2>1 DEF Part, RuntimeInv, RestInv, BootInv
  <2>4. QED
    BY <1>1, <1>2, <2>2, <2>3, CoordinatorAssumption DEF RuntimeInv, RestInv, BootInv
<1>8. RunsInv' /\ DiskInv'
  BY <1>2, <1>4 DEF RuntimeInv, RestInv, RunsInv, DiskInv, DiskWasPublished
<1>9. ShownWasPublished'
  <2>1. \/ projection'.auto = {}
        \/ UNCHANGED <<projection, published>> /\ (projection.auto # {} => identity'.sid = identity.sid)
    <3>1. CASE UNCHANGED vars
      BY <1>2, <3>1 DEF vars, viewVars, idVars
    <3>2. CASE ChangeIdentity(boot[c].ctx)
      BY <3>2 DEF ChangeIdentity, Revoke, UnavailableDraft, DelegatedDraft
    <3>3. CASE KeepIdentity(boot[c].ctx) /\ ~disposed
      <4>1. UNCHANGED projection /\ ~SemanticChange(boot[c].ctx)
        BY <3>3 DEF KeepIdentity, viewVars
      <4>2. QED
        BY <1>2, <1>4, <3>3, <4>1 DEF SemanticChange
    <3>4. QED
      BY <1>3, <3>1, <3>2, <3>3 DEF ObserveIdentity
  <2>2. QED
    BY <2>1 DEF RuntimeInv, RestInv, ShownWasPublished
<1>10. QED
  BY <1>5, <1>6, <1>7, <1>8, <1>9 DEF RestInv

(* What is activated was published for the subject on record.              *)
LEMMA ActivateLkgRest ==
  ASSUME RuntimeInv, IInv', NEW c \in Call, ActivateLkg(c)
  PROVE  RestInv'
<1> USE DEF hostVars, diskVars, pastVars
<1>1. boot \in [Call -> BootRun]
  BY DEF RuntimeInv, RestInv, RuntimeTypeOK
<1>2. /\ boot[c].lkg # None /\ LkgAdmissible(boot[c].ctx)
      /\ ApplyLocalLkg(boot[c].ctx, boot[c].lkg.routes)
      /\ lastComplete' = boot[c].lkg.at
      /\ boot' = [boot EXCEPT ![c] = NoBoot]
      /\ UNCHANGED <<hostVars, setupAt, context, activeToken, runs, diskVars, pastVars>>
  BY DEF ActivateLkg, Usable
<1>3. UNCHANGED <<idVars, jobVars>>
  BY <1>2 DEF ApplyLocalLkg
<1>4. /\ boot[c].lkg \in Record /\ boot[c].lkg \in published
      /\ boot[c].lkg.owner.sid = boot[c].ctx.sid
  BY <1>1, <1>2 DEF RuntimeInv, RestInv, BootInv, BootRun
<1>5. RuntimeTypeOK'
  <2>1. boot' \in [Call -> BootRun]
    BY <1>1, <1>2 DEF BootRun, NoBoot
  <2>2. TypeOK'
    BY DEF IInv
  <2>3. lastComplete' \in 0..MaxNow
    BY <1>2, <1>4, RuntimeAssumption DEF Record
  <2>4. QED
    BY <1>2, <2>1, <2>2, <2>3 DEF RuntimeInv, RestInv, RuntimeTypeOK
<1>6. OwnInv'
  BY <1>2, <1>3 DEF RuntimeInv, RestInv, OwnInv, idVars
<1>7. BootInv'
  <2>1. \A d \in Call : boot'[d] = IF d = c THEN NoBoot ELSE boot[d]
    BY <1>1, <1>2
  <2>2. QED
    BY <1>2, <2>1 DEF RuntimeInv, RestInv, BootInv, NoBoot
<1>8. RunsInv' /\ DiskInv'
  BY <1>2, <1>3 DEF RuntimeInv, RestInv, RunsInv, DiskInv, DiskWasPublished, jobVars
<1>9. ShownWasPublished'
  <2>1. projection' = CompleteDraft(boot[c].lkg.routes) /\ identity' = boot[c].ctx
    BY <1>2, <1>3 DEF ApplyLocalLkg, LkgAdmissible, idVars
  <2>2. projection'.auto # {} => projection'.auto = Callable(boot[c].lkg.routes)
    BY <2>1 DEF CompleteDraft, DelegatedDraft
  <2>3. QED
    BY <1>2, <1>4, <2>1, <2>2 DEF ShownWasPublished
<1>10. QED
  BY <1>5, <1>6, <1>7, <1>8, <1>9 DEF RestInv

(* A run starts with the context its token was issued for.                 *)
LEMMA StartRunRest ==
  ASSUME RuntimeInv, IInv', NEW trigger \in RefreshTrigger, StartRun(trigger)
  PROVE  RestInv'
<1> USE DEF hostVars, diskVars, pastVars
<1>1. /\ ~disposed /\ identity # None /\ context = identity
      /\ nextJobId \in 1..MaxJobs
      /\ issued' = issued \cup {NewToken}
      /\ UNCHANGED <<idVars, projection>>
  BY DEF StartRun, BeginRefresh, RuntimeInv, RestInv, OwnInv, IInv, TypeOK
<1>2. PICK r : r = [NoRun EXCEPT !.pc = "fetching", !.token = NewToken, !.ctx = context]
  OBVIOUS
<1>3. /\ runs' = [runs EXCEPT ![nextJobId] = r]
      /\ activeToken' = NewToken
      /\ UNCHANGED <<hostVars, setupAt, context, lastComplete, boot, diskVars, pastVars>>
  BY <1>1, <1>2 DEF StartRun
<1>4. /\ NewToken \in Token
      /\ context \in Identity
      /\ runs \in [1..MaxJobs -> Refresh]
  BY <1>1, NewTokenType DEF RuntimeInv, RestInv, RuntimeTypeOK, IInv
<1>5. r \in Refresh /\ r.pc = "fetching" /\ r.token = NewToken /\ r.ctx = context
  BY <1>2, <1>4 DEF NoRun, Refresh, CompletionKind
<1>6. context = Pair(NewToken)
  BY <1>1, <1>4 DEF Pair, NewToken, Identity
<1>7. RuntimeTypeOK'
  <2>1. TypeOK'
    BY DEF IInv
  <2>2. runs' \in [1..MaxJobs -> Refresh]
    BY <1>3, <1>4, <1>5
  <2>3. QED
    BY <1>3, <1>4, <2>1, <2>2 DEF RuntimeInv, RestInv, RuntimeTypeOK
<1>8. OwnInv' /\ BootInv' /\ DiskInv'
  BY <1>1, <1>3 DEF RuntimeInv, RestInv, OwnInv, BootInv, DiskInv, DiskWasPublished, idVars
<1>9. RunsInv'
  <2>1. \A j \in 1..MaxJobs : runs'[j] = IF j = nextJobId THEN r ELSE runs[j]
    BY <1>3, <1>4
  <2>2. QED
    BY <1>1, <1>3, <1>5, <1>6, <2>1 DEF RuntimeInv, RestInv, RunsInv
<1>10. ShownWasPublished'
  BY <1>1, <1>3 DEF RuntimeInv, RestInv, ShownWasPublished, idVars
<1>11. QED
  BY <1>7, <1>8, <1>9, <1>10 DEF RestInv

(* What a completion makes of the show: the delivered routes, for the      *)
(* identity of the token, nothing, or what was there.                      *)
LEMMA DeliverShows ==
  ASSUME RuntimeInv, NEW j \in 1..MaxJobs, NEW kind, NEW routes, NEW confirmed,
         runs[j].token \in issued, runs[j].ctx = Pair(runs[j].token),
         Deliver(j, kind, routes, confirmed)
  PROVE  ShownWasPublished'
<1> DEFINE t == runs[j].token
<1>1. \/ UNCHANGED <<projection, identity>>
      \/ UNCHANGED identity /\ projection' = UnavailableDraft
      \/ /\ UNCHANGED identity /\ projection' = CompleteDraft(routes)
         /\ Answer(t) = "applied" /\ kind = "complete"
  BY DEF Deliver, CompleteRefresh, RejectCompletion, ApplyCompletion, idVars, viewVars
<1>2. published \subseteq published'
  BY DEF Deliver
<1>3. CASE UNCHANGED <<projection, identity>>
  BY <1>2, <1>3 DEF RuntimeInv, RestInv, ShownWasPublished
<1>4. CASE projection' = UnavailableDraft
  BY <1>4 DEF ShownWasPublished, UnavailableDraft, DelegatedDraft
<1>5. CASE /\ UNCHANGED identity /\ projection' = CompleteDraft(routes)
           /\ Answer(t) = "applied" /\ kind = "complete"
  <2>1. identity' = Pair(t)
    BY <1>5, CurrentIsActive DEF Pair, RuntimeInv
  <2>2. [owner |-> Pair(t), at |-> now, routes |-> routes] \in published'
    BY <1>5 DEF Deliver
  <2>3. projection'.auto # {} => projection'.auto = Callable(routes)
    BY <1>5 DEF CompleteDraft, DelegatedDraft
  <2>4. QED
    BY <2>1, <2>2, <2>3 DEF ShownWasPublished, Pair
<1>6. QED
  BY <1>1, <1>3, <1>4, <1>5

(* A fetch that returns publishes, or denies, before it persists.          *)
LEMMA FetchReturnsRest ==
  ASSUME RuntimeInv, IInv', NEW j \in 1..MaxJobs, FetchReturns(j)
  PROVE  RestInv'
<1> USE DEF hostVars, diskVars, pastVars
<1>1. /\ runs[j].token \in issued /\ runs[j].ctx = Pair(runs[j].token)
      /\ runs \in [1..MaxJobs -> Refresh]
  BY DEF FetchReturns, RuntimeInv, RestInv, RunsInv, RuntimeTypeOK
<1>2. PICK kind \in CompletionKind, routes \in SUBSET Route, confirmed \in BOOLEAN :
        Deliver(j, kind, routes, confirmed)
  BY FetchDelivers
<1>3. /\ activeToken' = None
      /\ UNCHANGED <<hostVars, setupAt, context, lastComplete, boot, diskVars>>
  BY DEF FetchReturns
<1>4. /\ issued' = issued /\ UNCHANGED idVars
  BY <1>2 DEF Deliver, CompleteRefresh, RejectCompletion, ApplyCompletion, jobVars
<1>5. runs[j].token \in Token /\ runs[j].ctx \in Identity /\ now \in 1..MaxNow
  BY <1>1 DEF RuntimeInv, RestInv, RuntimeTypeOK, IInv, TypeOK, Pair, Token, Identity
<1>6. PICK fetched : fetched = [owner |-> runs[j].ctx, at |-> now, routes |-> routes]
  OBVIOUS
<1>7. PICK r : r = IF Persists(j)
                   THEN [runs[j] EXCEPT !.pc = "persisting", !.kind = kind,
                                        !.confirmed = confirmed, !.record = fetched]
                   ELSE NoRun
  OBVIOUS
<1>8. runs' = [runs EXCEPT ![j] = r]
  BY <1>2, <1>6, <1>7 DEF Deliver
<1>9. fetched \in Record /\ fetched.owner = runs[j].ctx /\ fetched # None
  <2>1. fetched \in Record /\ fetched.owner = runs[j].ctx
    BY <1>5, <1>6 DEF Record
  <2>2. QED
    BY <2>1, RuntimeAssumption
<1>10. /\ published' = published \cup
            (IF Answer(runs[j].token) = "applied" /\ kind = "complete" THEN {fetched} ELSE {})
       /\ denied' = denied \cup
            (IF Answer(runs[j].token) = "applied" /\ kind = "auth-failure" /\ confirmed
             THEN {runs[j].ctx} ELSE {})
  BY <1>1, <1>2, <1>6 DEF Deliver
<1>11. /\ r \in Refresh
       /\ r.pc # "none" =>
            /\ Answer(runs[j].token) = "applied"
            /\ r.token = runs[j].token /\ r.ctx = runs[j].ctx
            /\ r.kind = kind /\ r.confirmed = confirmed /\ r.record = fetched
  BY <1>1, <1>7, <1>9 DEF Refresh, NoRun, CompletionKind, Persists
<1>12. RuntimeTypeOK'
  <2>1. TypeOK'
    BY DEF IInv
  <2>2. runs' \in [1..MaxJobs -> Refresh]
    BY <1>1, <1>8, <1>11
  <2>3. published' \subseteq Record /\ denied' \subseteq Identity
    BY <1>5, <1>9, <1>10 DEF RuntimeInv, RestInv, RuntimeTypeOK
  <2>4. QED
    BY <1>3, <2>1, <2>2, <2>3 DEF RuntimeInv, RestInv, RuntimeTypeOK
<1>13. OwnInv' /\ BootInv' /\ DiskInv'
  BY <1>3, <1>4, <1>10 DEF RuntimeInv, RestInv, OwnInv, BootInv, DiskInv, DiskWasPublished, idVars
<1>14. RunsInv'
  <2>1. \A i \in 1..MaxJobs : runs'[i] = IF i = j THEN r ELSE runs[i]
    BY <1>1, <1>8
  <2>2. QED
    BY <1>1, <1>4, <1>9, <1>10, <1>11, <2>1 DEF RuntimeInv, RestInv, RunsInv
<1>15. ShownWasPublished'
  BY <1>1, <1>2, DeliverShows
<1>16. QED
  BY <1>12, <1>13, <1>14, <1>15 DEF RestInv

(* A run that persists, or fails to, is over.                              *)
LEMMA PersistRest ==
  ASSUME RuntimeInv, IInv', NEW j \in 1..MaxJobs, Persist(j) \/ PersistFails(j)
  PROVE  RestInv'
<1> USE DEF hostVars, diskVars, pastVars
<1>1. /\ runs[j].pc = "persisting" /\ runs' = [runs EXCEPT ![j] = NoRun]
      /\ UNCHANGED <<vars, hostVars, setupAt, context, activeToken, boot, pastVars>>
  BY DEF Persist, PersistFails
<1>2. /\ runs \in [1..MaxJobs -> Refresh]
      /\ runs[j].record \in Record /\ runs[j].record.owner = runs[j].ctx
      /\ runs[j].record.owner \in Identity /\ runs[j].record.at \in 1..MaxNow
      /\ runs[j].kind = "complete" => runs[j].record \in published
      /\ runs[j].kind = "auth-failure" /\ runs[j].confirmed => runs[j].ctx \in denied
  BY <1>1 DEF RuntimeInv, RestInv, RuntimeTypeOK, RunsInv, Refresh, Record
<1>3. /\ \A s \in Sid : \/ inventory'[s] = inventory[s]
                        \/ /\ inventory'[s] = runs[j].record /\ runs[j].kind = "complete"
                           /\ s = runs[j].record.owner.sid
      /\ inventory' \in [Sid -> Record \cup {None}]
      /\ lastComplete' \in 0..MaxNow
      /\ tombstones \subseteq tombstones'
      /\ tombstones' \subseteq tombstones \cup
           (IF runs[j].kind = "auth-failure" /\ runs[j].confirmed THEN {runs[j].ctx} ELSE {})
  <2>1. inventory \in [Sid -> Record \cup {None}] /\ lastComplete \in 0..MaxNow
    BY DEF RuntimeInv, RestInv, RuntimeTypeOK
  <2>2. CASE PersistFails(j)
    BY <2>1, <2>2 DEF PersistFails
  <2>3. CASE Persist(j)
    <3>1. /\ inventory' = IF runs[j].kind = "complete"
                          THEN [inventory EXCEPT ![runs[j].record.owner.sid] = runs[j].record]
                          ELSE inventory
          /\ lastComplete' \in {lastComplete, runs[j].record.at}
          /\ tombstones' = tombstones \cup
               (IF runs[j].kind = "auth-failure" /\ runs[j].confirmed THEN {runs[j].ctx} ELSE {})
      BY <1>2, <2>3 DEF Persist, SavesInventory, WritesTombstone
    <3>2. lastComplete' \in 0..MaxNow
      BY <1>2, <2>1, <3>1, RuntimeAssumption
    <3>3. CASE runs[j].kind = "complete"
      <4>1. inventory' = [inventory EXCEPT ![runs[j].record.owner.sid] = runs[j].record]
        BY <3>1, <3>3
      <4>2. inventory' \in [Sid -> Record \cup {None}]
        BY <1>2, <2>1, <4>1
      <4>3. \A s \in Sid : \/ inventory'[s] = inventory[s]
                          \/ /\ inventory'[s] = runs[j].record /\ runs[j].kind = "complete"
                             /\ s = runs[j].record.owner.sid
        BY <2>1, <3>3, <4>1
      <4>4. QED
        BY <3>1, <3>2, <4>2, <4>3
    <3>4. CASE runs[j].kind # "complete"
      BY <2>1, <3>1, <3>2, <3>4
    <3>5. QED
      BY <3>3, <3>4
  <2>4. QED
    BY <2>2, <2>3
<1>4. \A i \in 1..MaxJobs : runs'[i] = IF i = j THEN NoRun ELSE runs[i]
  BY <1>1, <1>2
<1>5. RuntimeTypeOK'
  <2>1. TypeOK'
    BY DEF IInv
  <2>2. runs' \in [1..MaxJobs -> Refresh]
    BY <1>1, <1>2 DEF NoRun, Refresh, CompletionKind
  <2>3. tombstones' \subseteq Identity
    BY <1>2, <1>3 DEF RuntimeInv, RestInv, RuntimeTypeOK
  <2>4. QED
    BY <1>1, <1>3, <2>1, <2>2, <2>3 DEF RuntimeInv, RestInv, RuntimeTypeOK
<1>6. OwnInv' /\ BootInv' /\ ShownWasPublished'
  BY <1>1 DEF RuntimeInv, RestInv, OwnInv, BootInv, ShownWasPublished, vars, idVars, viewVars
<1>7. RunsInv'
  BY <1>1, <1>4 DEF RuntimeInv, RestInv, RunsInv, NoRun, vars, jobVars
<1>8. DiskInv'
  BY <1>1, <1>2, <1>3 DEF RuntimeInv, RestInv, DiskInv, DiskWasPublished
<1>9. QED
  BY <1>5, <1>6, <1>7, <1>8 DEF RestInv

(* Time, setup, the host's credential and disposal.                        *)
LEMMA HostRest ==
  ASSUME RuntimeInv, IInv', MarkSetupReturned \/ ChangeCredential \/ Tick \/ DisposeRuntime
  PROVE  RestInv'
<1> USE DEF hostVars, diskVars, pastVars
<1>1. /\ UNCHANGED <<context, boot, runs, diskVars, pastVars, blockedAtStart, issued, identity>>
      /\ projection'.auto = projection.auto
      /\ disposed' = disposed \/ disposed' = TRUE
  BY DEF MarkSetupReturned, ChangeCredential, Tick, DisposeRuntime, Dispose, vars, idVars, viewVars,
     jobVars, RuntimeInv, IInv, TypeOK, Draft
<1>2. RuntimeTypeOK'
  <2>1. TypeOK'
    BY DEF IInv
  <2>2. CASE DisposeRuntime
    BY <2>1, <2>2 DEF DisposeRuntime, RuntimeInv, RestInv, RuntimeTypeOK
  <2>3. CASE MarkSetupReturned
    BY <2>1, <2>3, RuntimeAssumption DEF MarkSetupReturned, RuntimeInv, RestInv, RuntimeTypeOK
  <2>4. CASE ChangeCredential
    BY <2>1, <2>4 DEF ChangeCredential, RuntimeInv, RestInv, RuntimeTypeOK
  <2>5. CASE Tick
    <3>1. now' \in 1..MaxNow
      BY <2>5, RuntimeAssumption DEF Tick, RuntimeInv, RestInv, RuntimeTypeOK
    <3>2. QED
      BY <2>1, <2>5, <3>1 DEF Tick, RuntimeInv, RestInv, RuntimeTypeOK
  <2>6. QED
    BY <2>2, <2>3, <2>4, <2>5
<1>3. OwnInv'
  BY <1>1 DEF RuntimeInv, RestInv, OwnInv
<1>4. BootInv' /\ RunsInv' /\ DiskInv'
  BY <1>1 DEF RuntimeInv, RestInv, BootInv, RunsInv, DiskInv, DiskWasPublished
<1>5. ShownWasPublished'
  BY <1>1 DEF RuntimeInv, RestInv, ShownWasPublished
<1>6. QED
  BY <1>2, <1>3, <1>4, <1>5 DEF RestInv

-----------------------------------------------------------------------------
(* Every step keeps the invariant.                                         *)
LEMMA RuntimeStepInv == RuntimeInv /\ [RuntimeNext]_rvars => RuntimeInv'
<1> SUFFICES ASSUME RuntimeInv, [RuntimeNext]_rvars PROVE RuntimeInv'
  OBVIOUS
<1>1. IInv'
  BY CoordinatorKept
<1>2. CASE UNCHANGED rvars
  BY <1>1, <1>2 DEF rvars, vars, idVars, viewVars, jobVars, hostVars, diskVars, pastVars, RuntimeInv,
     RestInv, RuntimeTypeOK, OwnInv, BootInv, RunsInv, DiskInv, DiskWasPublished, ShownWasPublished, IInv
<1>3. ASSUME NEW c \in Call, Initialize(c) \/ BootStep(c)
      PROVE  RestInv'
  BY <1>1, <1>3, BootQuiet, ResolveIdentityRest, ActivateLkgRest DEF BootStep
<1>4. ASSUME RefreshNow \/ PostSetupRefresh \/ RefreshDue
      PROVE  RestInv'
  BY <1>1, <1>4, StartRunRest DEF RefreshNow, PostSetupRefresh, RefreshDue, RefreshTrigger
<1>5. ASSUME NEW j \in 1..MaxJobs, FetchReturns(j) \/ Persist(j) \/ PersistFails(j)
      PROVE  RestInv'
  BY <1>1, <1>5, FetchReturnsRest, PersistRest
<1>6. ASSUME MarkSetupReturned \/ ChangeCredential \/ Tick \/ DisposeRuntime
      PROVE  RestInv'
  BY <1>1, <1>6, HostRest
<1>7. CASE Restart
  BY <1>7, RestartInv
<1>8. CASE RuntimeNext
  BY <1>1, <1>3, <1>4, <1>5, <1>6, <1>7, <1>8 DEF RuntimeNext, RuntimeInv
<1>9. QED
  BY <1>2, <1>8

(* The invariant holds in every state a runtime reaches.                   *)
LEMMA RuntimeInvHolds == RuntimeSpec => []RuntimeInv
  BY RuntimeInitInv, RuntimeStepInv, PTL DEF RuntimeSpec

(* Every variable of the runtime keeps its type.                           *)
THEOREM RuntimeTypes == RuntimeSpec => []RuntimeTypeOK
<1>1. RuntimeInv => RuntimeTypeOK
  BY DEF RuntimeInv, RestInv
<1>2. QED
  BY <1>1, RuntimeInvHolds, PTL

(* An adapter fetches with the pair its token was issued for, whatever     *)
(* identities are resolved between its awaits (runActiveRefresh).          *)
THEOREM FetchIsForToken == RuntimeSpec => []FetchMatchesToken
<1>1. RuntimeInv => FetchMatchesToken
  BY DEF RuntimeInv, RestInv, RunsInv, FetchMatchesToken
<1>2. QED
  BY <1>1, RuntimeInvHolds, PTL

(* Nothing is on disk, through any crashes, that was not published or      *)
(* denied for the pair it is filed under (applyRefreshCompletion).         *)
THEOREM DiskIsPublished == RuntimeSpec => []DiskWasPublished
<1>1. RuntimeInv => DiskWasPublished
  BY DEF RuntimeInv, RestInv, DiskInv
<1>2. QED
  BY <1>1, RuntimeInvHolds, PTL

(* What is on show was published, in this process or before a crash, for   *)
(* the subject observed last.                                              *)
THEOREM ShownIsPublished == RuntimeSpec => []ShownWasPublished
<1>1. RuntimeInv => ShownWasPublished
  BY DEF RuntimeInv, RestInv
<1>2. QED
  BY <1>1, RuntimeInvHolds, PTL

(* A denial that lay on disk when the process began keeps the cache's      *)
(* inventory from coming back, whichever of the two files is read first    *)
(* (initialize and loadStartupCacheState).                                 *)
THEOREM DenialOutlivesCrash == RuntimeSpec => TombstoneOutlivesCrash
<1> DEFINE Blocked == \A c \in Call : ActivateLkg(c) => boot[c].ctx \notin blockedAtStart
<1>1. ASSUME RuntimeInv PROVE Blocked
  BY <1>1 DEF RuntimeInv, RestInv, BootInv, ActivateLkg, Loaded, Usable
<1>2. RuntimeInv /\ [RuntimeNext]_rvars => [Blocked]_rvars
  BY <1>1
<1>3. QED
  BY <1>2, RuntimeInvHolds, PTL DEF RuntimeSpec, TombstoneOutlivesCrash

(* Between two crashes the runtime shows what the publication gate allows: *)
(* the files, the overlapping starts and the runs add no way around it.    *)
THEOREM GateBetweenCrashes ==
  RuntimeSpec => [][Restart \/ Gate!GateNext \/ UNCHANGED Gate!gateVars]_rvars
<1>1. RuntimeInv /\ [RuntimeNext]_rvars =>
        [Restart \/ Gate!GateNext \/ UNCHANGED Gate!gateVars]_rvars
  <2> SUFFICES ASSUME RuntimeInv, [RuntimeNext]_rvars
               PROVE  Restart \/ Gate!GateNext \/ UNCHANGED Gate!gateVars
    OBVIOUS
  <2>1. [Next]_vars => [Gate!GateNext]_(Gate!gateVars)
    BY GateStep DEF RuntimeInv
  <2>2. QED
    BY <2>1, CoordinatorSteps
<1>2. QED
  BY <1>1, RuntimeInvHolds, PTL DEF RuntimeSpec
-----------------------------------------------------------------------------
(***************************************************************************)
(* The active job and its run.  The coordinator gives the job up when a    *)
(* completion of its token is applied; a run that is no longer fetching    *)
(* will not deliver one.                                                   *)
(***************************************************************************)

Fetching(j) == runs[j].pc = "fetching"

(* There is an active job, and nobody will complete it.                    *)
Lost == activeJob # None /\ ~Fetching(activeJob.jobId)

(* The run of job j is for the token numbered j.                           *)
NumberInv == \A j \in 1..MaxJobs : Fetching(j) => runs[j].token.jobId = j

AtWorkInv == RuntimeInv /\ NumberInv

(* Only a fetch that returns, a write that ends, the start of a run and a  *)
(* new process touch the runs; any other step leaves the active job alone  *)
(* or gives it up with its epoch.                                          *)
LEMMA RunsStep ==
  ASSUME RuntimeInv, [RuntimeNext]_rvars
  PROVE  \/ /\ UNCHANGED <<runs, nextJobId>>
            /\ activeJob' = activeJob \/ (activeJob' = None /\ epoch' = epoch + 1)
         \/ \E j \in 1..MaxJobs : FetchReturns(j)
         \/ \E j \in 1..MaxJobs : /\ runs[j].pc = "persisting"
                                  /\ runs' = [runs EXCEPT ![j] = NoRun]
                                  /\ UNCHANGED vars
         \/ \E trigger \in RefreshTrigger : StartRun(trigger)
         \/ Restart
<1> DEFINE Others == /\ UNCHANGED <<runs, nextJobId>>
                     /\ activeJob' = activeJob \/ (activeJob' = None /\ epoch' = epoch + 1)
<1>1. CASE UNCHANGED rvars
  BY <1>1 DEF rvars, vars, jobVars
<1>2. ASSUME NEW c \in Call, Initialize(c) \/ BootStep(c)
      PROVE  Others
  <2>1. CASE ResolveIdentity(c)
    BY <2>1 DEF ResolveIdentity, ObserveIdentity, ChangeIdentity, KeepIdentity, InvalidateJob, vars, jobVars
  <2>2. CASE ActivateLkg(c)
    BY <2>2 DEF ActivateLkg, ApplyLocalLkg, jobVars
  <2>3. QED
    BY <1>2, <2>1, <2>2 DEF Initialize, BootStep, ResolveNothing, ReadInventory, ReadTombstone, SkipLkg, vars, jobVars
<1>3. ASSUME RefreshNow \/ PostSetupRefresh \/ RefreshDue
      PROVE  \E trigger \in RefreshTrigger : StartRun(trigger)
  BY <1>3 DEF RefreshNow, PostSetupRefresh, RefreshDue, RefreshTrigger
<1>4. ASSUME MarkSetupReturned \/ DisposeRuntime \/ ChangeCredential \/ Tick
      PROVE  Others
  BY <1>4 DEF MarkSetupReturned, DisposeRuntime, ChangeCredential, Tick, Dispose, vars, jobVars
<1>5. ASSUME NEW j \in 1..MaxJobs, Persist(j) \/ PersistFails(j)
      PROVE  /\ runs[j].pc = "persisting"
             /\ runs' = [runs EXCEPT ![j] = NoRun]
             /\ UNCHANGED vars
  BY <1>5 DEF Persist, PersistFails
<1>6. QED
  BY <1>1, <1>2, <1>3, <1>4, <1>5 DEF RuntimeNext

(* A fetch that returns ends its run's fetching and no other's, and leaves *)
(* the active job unless its token is the active job.                      *)
LEMMA FetchEnds ==
  ASSUME RuntimeInv, NEW j \in 1..MaxJobs, FetchReturns(j)
  PROVE  /\ \A i \in 1..MaxJobs : Fetching(i)' <=> Fetching(i) /\ i # j
         /\ \A i \in 1..MaxJobs : i # j => runs'[i] = runs[i]
         /\ UNCHANGED <<idVars, nextJobId>>
         /\ \/ activeJob' = activeJob /\ Answer(runs[j].token) # "applied"
            \/ activeJob' = None /\ activeJob # None /\ activeJob = runs[j].token
<1>1. PICK kind \in CompletionKind, routes \in SUBSET Route, confirmed \in BOOLEAN :
        Deliver(j, kind, routes, confirmed)
  BY FetchDelivers
<1>2. runs[j].token \in issued /\ runs \in [1..MaxJobs -> Refresh]
  BY DEF RuntimeInv, RestInv, RunsInv, RuntimeTypeOK, FetchReturns
<1>3. PICK record : record = [owner |-> runs[j].ctx, at |-> now, routes |-> routes]
  OBVIOUS
<1>4. PICK r : r = IF Persists(j)
                   THEN [runs[j] EXCEPT !.pc = "persisting", !.kind = kind,
                                        !.confirmed = confirmed, !.record = record]
                   ELSE NoRun
  OBVIOUS
<1>5. runs' = [runs EXCEPT ![j] = r]
  BY <1>1, <1>3, <1>4 DEF Deliver
<1>6. r.pc # "fetching"
  <2>1. runs[j] \in Refresh
    BY <1>2
  <2>2. QED
    BY <1>4, <2>1 DEF Refresh, NoRun
<1>7. \A i \in 1..MaxJobs : runs'[i] = IF i = j THEN r ELSE runs[i]
  BY <1>2, <1>5
<1>8. /\ UNCHANGED <<idVars, nextJobId>>
      /\ \/ activeJob' = activeJob /\ Answer(runs[j].token) # "applied"
         \/ activeJob' = None /\ Answer(runs[j].token) = "applied"
  BY <1>1 DEF Deliver, CompleteRefresh, RejectCompletion, ApplyCompletion, jobVars
<1>9. Answer(runs[j].token) = "applied" => activeJob # None /\ activeJob = runs[j].token
  BY <1>2, CurrentIsActive DEF RuntimeInv
<1>10. QED
  BY <1>6, <1>7, <1>8, <1>9 DEF Fetching

(* A run that starts fetches for the job it begins.                        *)
LEMMA StartFetches ==
  ASSUME RuntimeInv, NEW trigger \in RefreshTrigger, StartRun(trigger)
  PROVE  /\ activeJob = None /\ activeJob' = NewToken
         /\ nextJobId \in 1..MaxJobs /\ NewToken.jobId = nextJobId
         /\ runs'[nextJobId].pc = "fetching" /\ runs'[nextJobId].token = NewToken
         /\ \A i \in 1..MaxJobs : i # nextJobId => runs'[i] = runs[i]
<1>1. /\ ~disposed /\ identity # None /\ context = identity
      /\ nextJobId \in 1..MaxJobs
      /\ activeJob = None /\ activeJob' = NewToken
  BY DEF StartRun, BeginRefresh, RuntimeInv, RestInv, OwnInv, IInv, TypeOK
<1>2. PICK r : r = [NoRun EXCEPT !.pc = "fetching", !.token = NewToken, !.ctx = context]
  OBVIOUS
<1>3. runs' = [runs EXCEPT ![nextJobId] = r]
  BY <1>1, <1>2 DEF StartRun
<1>4. r.pc = "fetching" /\ r.token = NewToken
  BY <1>2 DEF NoRun
<1>5. runs \in [1..MaxJobs -> Refresh]
  BY DEF RuntimeInv, RestInv, RuntimeTypeOK
<1>6. \A i \in 1..MaxJobs : runs'[i] = IF i = nextJobId THEN r ELSE runs[i]
  BY <1>3, <1>5
<1>7. NewToken.jobId = nextJobId
  BY DEF NewToken
<1>8. QED
  BY <1>1, <1>4, <1>6, <1>7 DEF Fetching

(* Runs keep their numbers.                                                *)
LEMMA NumberStep == AtWorkInv /\ [RuntimeNext]_rvars => AtWorkInv'
<1> SUFFICES ASSUME AtWorkInv, [RuntimeNext]_rvars PROVE NumberInv'
  BY RuntimeStepInv DEF AtWorkInv
<1>1. RuntimeInv /\ NumberInv
  BY DEF AtWorkInv
<1>2. CASE UNCHANGED runs
  BY <1>1, <1>2 DEF NumberInv, Fetching
<1>3. ASSUME NEW j \in 1..MaxJobs, FetchReturns(j)
      PROVE  NumberInv'
  BY <1>1, <1>3, FetchEnds DEF NumberInv
<1>4. ASSUME NEW j \in 1..MaxJobs, runs' = [runs EXCEPT ![j] = NoRun]
      PROVE  NumberInv'
  BY <1>1, <1>4 DEF NumberInv, Fetching, NoRun, RuntimeInv, RestInv, RuntimeTypeOK
<1>5. ASSUME NEW trigger \in RefreshTrigger, StartRun(trigger)
      PROVE  NumberInv'
  <2>1. /\ nextJobId \in 1..MaxJobs /\ NewToken.jobId = nextJobId
        /\ runs'[nextJobId].token = NewToken
        /\ \A i \in 1..MaxJobs : i # nextJobId => runs'[i] = runs[i]
    BY <1>1, <1>5, StartFetches
  <2>2. QED
    BY <1>1, <2>1 DEF NumberInv, Fetching
<1>6. CASE Restart
  BY <1>6 DEF Restart, NumberInv, Fetching, NoRun
<1>7. QED
  BY <1>1, <1>2, <1>3, <1>4, <1>5, <1>6, RunsStep

LEMMA AtWorkHolds == RuntimeSpec => []AtWorkInv
<1>1. RuntimeInit => AtWorkInv
  BY RuntimeInitInv DEF AtWorkInv, NumberInv, Fetching, RuntimeInit, NoRun
<1>2. QED
  BY <1>1, NumberStep, PTL DEF RuntimeSpec

(* The token of a fetching run is the active job when their numbers agree. *)
LEMMA SameNumber ==
  ASSUME AtWorkInv, activeJob # None, NEW j \in 1..MaxJobs, Fetching(j)
  PROVE  /\ activeJob.jobId \in 1..MaxJobs
         /\ activeJob = runs[j].token <=> activeJob.jobId = j
<1>1. /\ runs[j].token \in issued /\ runs[j].token.jobId = j
      /\ activeJob \in issued
  BY DEF AtWorkInv, NumberInv, RuntimeInv, RestInv, RunsInv, Fetching, IInv, ActiveJobInv
<1>2. \A t, u \in issued : t.jobId = u.jobId => t = u
  BY DEF AtWorkInv, RuntimeInv, IInv, TokensInv
<1>3. activeJob \in Token
  BY <1>1 DEF AtWorkInv, RuntimeInv, IInv, TypeOK
<1>4. QED
  BY <1>1, <1>2, <1>3 DEF Token

(* What a step does to the active job.                                     *)
LEMMA JobStep ==
  ASSUME AtWorkInv, activeJob # None, [RuntimeNext]_rvars
  PROVE  \/ UNCHANGED <<activeJob, nextJobId>> /\ UNCHANGED Fetching(activeJob.jobId)
         \/ /\ UNCHANGED <<activeJob, nextJobId, identity>>
            /\ Fetching(activeJob.jobId)
            /\ Answer(activeJob) # "applied"
         \/ activeJob' = None /\ Fetching(activeJob.jobId)
         \/ activeJob' = None /\ (epoch' # epoch \/ restarts' # restarts)
<1>1. RuntimeInv
  BY DEF AtWorkInv
<1>2. activeJob.jobId \in 1..MaxJobs /\ epoch \in Nat /\ restarts \in 0..MaxRestarts
  BY <1>1 DEF RuntimeInv, RestInv, RuntimeTypeOK, TypeOK, Token
<1>3. ASSUME NEW j \in 1..MaxJobs, FetchReturns(j)
      PROVE  \/ UNCHANGED <<activeJob, nextJobId>> /\ UNCHANGED Fetching(activeJob.jobId)
             \/ /\ UNCHANGED <<activeJob, nextJobId, identity>>
                /\ Fetching(activeJob.jobId)
                /\ Answer(activeJob) # "applied"
             \/ activeJob' = None /\ Fetching(activeJob.jobId)
  <2>1. Fetching(j)
    BY <1>3 DEF FetchReturns, Fetching
  <2>2. activeJob = runs[j].token <=> activeJob.jobId = j
    BY <2>1, SameNumber
  <2>3. /\ \A i \in 1..MaxJobs : i # j => runs'[i] = runs[i]
        /\ UNCHANGED <<identity, nextJobId>>
        /\ \/ activeJob' = activeJob /\ Answer(runs[j].token) # "applied"
           \/ activeJob' = None /\ activeJob = runs[j].token
    BY <1>1, <1>3, FetchEnds DEF idVars
  <2>4. CASE activeJob.jobId = j
    BY <2>1, <2>2, <2>3, <2>4
  <2>5. CASE activeJob.jobId # j
    BY <1>2, <2>2, <2>3, <2>5 DEF Fetching
  <2>6. QED
    BY <2>4, <2>5
<1>4. ASSUME NEW j \in 1..MaxJobs, runs[j].pc = "persisting",
             runs' = [runs EXCEPT ![j] = NoRun], UNCHANGED vars
      PROVE  UNCHANGED <<activeJob, nextJobId>> /\ UNCHANGED Fetching(activeJob.jobId)
  <2>1. UNCHANGED <<activeJob, nextJobId>>
    BY <1>4 DEF vars, jobVars
  <2>2. runs \in [1..MaxJobs -> Refresh]
    BY <1>1 DEF RuntimeInv, RestInv, RuntimeTypeOK
  <2>3. QED
    BY <1>2, <1>4, <2>1, <2>2 DEF Fetching, NoRun
<1>5. ASSUME NEW trigger \in RefreshTrigger, StartRun(trigger)
      PROVE  FALSE
  BY <1>1, <1>5, StartFetches
<1>6. CASE Restart
  BY <1>2, <1>6 DEF Restart
<1>7. CASE /\ UNCHANGED <<runs, nextJobId>>
           /\ activeJob' = activeJob \/ (activeJob' = None /\ epoch' = epoch + 1)
  BY <1>2, <1>7 DEF Fetching
<1>8. QED
  BY <1>1, <1>3, <1>4, <1>5, <1>6, <1>7, RunsStep

(* A job loses its run in one way: the fetch returns under a generation    *)
(* observed after it began, and its completion is answered "stale-job"     *)
(* while the job stays active (completeRefresh, observeIdentity).          *)
THEOREM LostToRotation ==
  RuntimeSpec => [][ ~Lost /\ Lost' => /\ UNCHANGED activeJob
                                       /\ activeJob.sid = identity.sid
                                       /\ activeJob.gen # identity.gen ]_rvars
<1> DEFINE Rotated == ~Lost /\ Lost' => /\ UNCHANGED activeJob
                                        /\ activeJob.sid = identity.sid
                                        /\ activeJob.gen # identity.gen
<1>1. AtWorkInv /\ [RuntimeNext]_rvars => [Rotated]_rvars
  <2> SUFFICES ASSUME AtWorkInv, [RuntimeNext]_rvars, ~Lost, Lost'
               PROVE  /\ UNCHANGED activeJob
                      /\ activeJob.sid = identity.sid
                      /\ activeJob.gen # identity.gen
    OBVIOUS
  <2>1. RuntimeInv
    BY DEF AtWorkInv
  <2>2. CASE activeJob = None
    <3>1. \A j \in 1..MaxJobs : ~FetchReturns(j) \/ activeJob' = None
      BY <2>1, <2>2, FetchEnds
    <3>2. \A trigger \in RefreshTrigger : StartRun(trigger) => runs'[activeJob'.jobId].pc = "fetching"
      BY <2>1, StartFetches
    <3>3. Restart => activeJob' = None
      BY DEF Restart
    <3>4. QED
      BY <2>1, <2>2, <3>1, <3>2, <3>3, RunsStep DEF Lost, Fetching, vars, jobVars
  <2>3. CASE activeJob # None
    <3>1. UNCHANGED activeJob /\ Answer(activeJob) # "applied"
      BY <2>3, JobStep DEF Lost, Fetching
    <3>2. ~TokenIsCurrent(activeJob) /\ ~disposed
      BY <2>1, <2>3, <3>1 DEF Answer, RuntimeInv, IInv, ActiveJobInv
    <3>3. /\ identity # None /\ activeJob.sid = identity.sid
          /\ identity \in Identity /\ activeJob \in Token
      BY <2>1, <2>3 DEF RuntimeInv, IInv, ActiveJobInv, TypeOK
    <3>4. QED
      BY <2>3, <3>1, <3>2, <3>3 DEF TokenIsCurrent
  <2>4. QED
    BY <2>2, <2>3
<1>2. QED
  BY <1>1, AtWorkHolds, PTL DEF RuntimeSpec

(* Nothing in the runtime finds a lost job: it stays active and no refresh *)
(* begins until the coordinator's epoch changes, with the semantic         *)
(* identity or at disposal, or the process is started again.  A fetch, a   *)
(* timer or a further rotation does not help.                              *)
THEOREM LostForGood ==
  RuntimeSpec => [][ Lost => \/ Lost' /\ UNCHANGED <<activeJob, nextJobId>>
                             \/ epoch' # epoch
                             \/ restarts' # restarts ]_rvars
<1> DEFINE Stays == Lost => \/ Lost' /\ UNCHANGED <<activeJob, nextJobId>>
                            \/ epoch' # epoch
                            \/ restarts' # restarts
<1>1. AtWorkInv /\ [RuntimeNext]_rvars => [Stays]_rvars
  BY JobStep DEF Lost, Fetching
<1>2. QED
  BY <1>1, AtWorkHolds, PTL DEF RuntimeSpec
=============================================================================
