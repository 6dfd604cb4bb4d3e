--------------------------- MODULE CacheLockProofs --------------------------
(***************************************************************************)
(* Mutual exclusion of the cache lock, for any set of processes and any    *)
(* number of crashes, as long as no lock has outlived its time to live.    *)
(*                                                                         *)
(* The argument: a process in its critical part made the directory that is *)
(* at lockDir, and a directory has one maker.  That stays so because the   *)
(* only step that takes another's directory away, Rename, is reached by    *)
(* way of Decide, which never sends a process there before some lock has   *)
(* outlived its time to live; "expired" records that one has.              *)
(***************************************************************************)
EXTENDS CacheLock, TLAPS

NothingStale == ~IsStale(dir.age) /\ ~IsStale(dir.since)

MadeIt == \A p \in Process : pc[p] \in Owning => dir.maker = p

NoTakeover == \A p \in Process : pc[p] \notin {"renaming", "racing"}

(* A manifest that is about to be written is not older than its directory. *)
StampIsYoung == \A p \in Process : pc[p] = "writing" => stamp[p] <= dir.age

Timely == NothingStale /\ MadeIt /\ NoTakeover /\ StampIsYoung

LockInv == LockTypeOK /\ (~expired => Timely)

(* Ageing stays within the bound of the model. *)
LEMMA OlderIsAge ==
  ASSUME NEW age \in Age
  PROVE  Older(age) \in Age
BY LockAssumption DEF Older, Age

(* Ageing keeps the order of two ages. *)
LEMMA OlderIsMonotone ==
  ASSUME NEW age \in Age, NEW other \in Age, age <= other
  PROVE  Older(age) <= Older(other)
BY LockAssumption DEF Older, Age

(* A free lock is a lock, and not a stale one. *)
LEMMA FreeIsDir == Free \in Dir /\ ~IsStale(0)
BY LockAssumption DEF Free, Dir, Age, IsStale

(* The initial state satisfies the inductive invariant. *)
THEOREM LockInitInv == LockInit => LockInv
<1>1. LockInit => LockTypeOK
  <2> SUFFICES ASSUME LockInit PROVE LockTypeOK
    OBVIOUS
  <2>1. dir \in Dir /\ expired \in BOOLEAN
    BY FreeIsDir DEF LockInit
  <2>2. pc \in [Process -> Step]
    BY DEF LockInit, Step
  <2>3. 0 \in Age /\ crashes \in 0..MaxCrash
    BY LockAssumption DEF LockInit, Age
  <2>4. stamp \in [Process -> Age]
    BY <2>3 DEF LockInit
  <2> QED
    BY <2>1, <2>2, <2>3, <2>4 DEF LockTypeOK
<1>2. LockInit => NothingStale
  BY FreeIsDir DEF LockInit, NothingStale, Free
<1>3. LockInit => MadeIt /\ NoTakeover /\ StampIsYoung
  BY DEF LockInit, MadeIt, NoTakeover, StampIsYoung, Owning
<1> QED
  BY <1>1, <1>2, <1>3 DEF LockInv, Timely

(* Every step keeps the types. *)
LEMMA LockStepType ==
  ASSUME LockTypeOK, [LockNext]_lockVars
  PROVE  LockTypeOK'
<1> USE LockAssumption, FreeIsDir
<1> USE DEF LockTypeOK, Step, Goto
<1>0. 0 \in Age
  BY DEF Age
<1>1. ASSUME NEW p \in Process, NEW step \in Step, Mkdir(p, step), UNCHANGED <<crashes, expired>>
      PROVE  LockTypeOK'
  <2>1. [Free EXCEPT !.maker = p] \in Dir
    BY <1>0 DEF Free, Dir
  <2> QED
    BY <1>0, <1>1, <2>1 DEF Mkdir
<1>2. ASSUME NEW p \in Process, TryLock(p) \/ Race(p)
      PROVE  LockTypeOK'
  BY <1>1, <1>2 DEF TryLock, Race
<1>3. ASSUME NEW p \in Process, ReadManifest(p) \/ Stat(p) \/ WriteFails(p) \/ VerifyOwner(p)
      PROVE  LockTypeOK'
  BY <1>3 DEF ReadManifest, Stat, WriteFails, VerifyOwner, Decide
<1>4. ASSUME NEW p \in Process, Rename(p) \/ BackOut(p) \/ Remove(p)
      PROVE  LockTypeOK'
  BY <1>4 DEF Rename, BackOut, Remove
<1>5. ASSUME NEW p \in Process, WriteManifest(p)
      PROVE  LockTypeOK'
  <2> DEFINE renewed == IF dir.holder = None THEN 0 ELSE dir.age
  <2>1. renewed \in Age /\ stamp[p] \in Age
    BY <1>0 DEF Dir
  <2>2. dir' = [dir EXCEPT !.holder = p, !.since = stamp[p], !.age = renewed]
    BY <1>5 DEF WriteManifest
  <2>3. dir' \in Dir
    <3> HIDE DEF renewed
    <3> QED
      BY <2>1, <2>2 DEF Dir
  <2> QED
    BY <1>5, <2>3 DEF WriteManifest
<1>6. ASSUME NEW p \in Process, Crash(p)
      PROVE  LockTypeOK'
  <2>1. crashes' \in 0..MaxCrash
    BY <1>6 DEF Crash
  <2> QED
    BY <1>6, <2>1 DEF Crash
<1>7. ASSUME Tick
      PROVE  LockTypeOK'
  <2>1. dir' \in Dir
    <3>1. Older(dir.age) \in Age /\ Older(dir.since) \in Age
      BY OlderIsAge DEF Dir
    <3> QED
      BY <1>0, <1>7, <3>1 DEF Tick, Dir
  <2>2. stamp' \in [Process -> Age]
    BY <1>0, <1>7, OlderIsAge DEF Tick
  <2>3. expired' \in BOOLEAN
    BY <1>7 DEF Tick
  <2> QED
    BY <1>7, <2>1, <2>2, <2>3 DEF Tick
<1>8. ASSUME UNCHANGED lockVars
      PROVE  LockTypeOK'
  BY <1>8 DEF lockVars
<1> QED
  BY <1>2, <1>3, <1>4, <1>5, <1>6, <1>7, <1>8 DEF LockNext, Attempt

(* Every step keeps the order of the critical part until a lock expires. *)
LEMMA LockStepTimely ==
  ASSUME LockTypeOK, LockTypeOK', Timely, [LockNext]_lockVars, ~expired'
  PROVE  Timely'
<1> USE LockAssumption, FreeIsDir
<1> USE DEF LockTypeOK, Timely, NothingStale, MadeIt, NoTakeover, StampIsYoung, Owning, Step, Goto
<1>1. ASSUME NEW p \in Process, TryLock(p)
      PROVE  Timely'
  <2>1. CASE dir = Free
    <3>1. \A q \in Process : pc[q] \notin Owning
      BY <2>1 DEF Free
    <3>2. dir' = [Free EXCEPT !.maker = p] /\ stamp' = [stamp EXCEPT ![p] = 0]
      BY <1>1, <2>1 DEF TryLock, Mkdir
    <3>3. dir'.maker = p /\ dir'.age = 0 /\ dir'.since = 0
      BY <3>2 DEF Free
    <3> QED
      BY <1>1, <2>1, <3>1, <3>2, <3>3 DEF TryLock, Mkdir
  <2>2. CASE dir # Free
    BY <1>1, <2>2 DEF TryLock, Mkdir
  <2> QED
    BY <2>1, <2>2
<1>2. ASSUME NEW p \in Process, ReadManifest(p) \/ Stat(p)
      PROVE  Timely'
  <2>1. pc' = [pc EXCEPT ![p] = "idle"] \/ pc' = [pc EXCEPT ![p] = "stating"]
    BY <1>2 DEF ReadManifest, Stat, Decide
  <2> QED
    BY <1>2, <2>1 DEF ReadManifest, Stat
<1>3. ASSUME NEW p \in Process, Rename(p) \/ Race(p)
      PROVE  Timely'
  BY <1>3 DEF Rename, Race
<1>4. ASSUME NEW p \in Process, WriteManifest(p)
      PROVE  Timely'
  <2>1. dir' = [dir EXCEPT !.holder = p, !.since = stamp[p],
                           !.age = IF dir.holder = None THEN 0 ELSE dir.age]
    BY <1>4 DEF WriteManifest
  <2>2. /\ dir'.maker = dir.maker
        /\ dir'.since = stamp[p]
        /\ dir'.age = 0 \/ dir'.age = dir.age
    BY <2>1 DEF Dir
  <2>3. ~IsStale(stamp[p])
    BY <1>4 DEF WriteManifest, IsStale, Age, Dir
  <2>4. \A q \in Process : pc[q] = "writing" => q = p
    BY <1>4 DEF WriteManifest
  <2> QED
    BY <1>4, <2>2, <2>3, <2>4 DEF WriteManifest
<1>5. ASSUME NEW p \in Process, WriteFails(p) \/ VerifyOwner(p) \/ Crash(p)
      PROVE  Timely'
  BY <1>5 DEF WriteFails, VerifyOwner, Crash
<1>6. ASSUME NEW p \in Process, BackOut(p) \/ Remove(p)
      PROVE  Timely'
  <2>1. dir' = Free /\ pc' = [pc EXCEPT ![p] = "idle"] /\ UNCHANGED stamp
    BY <1>6 DEF BackOut, Remove
  <2>2. \A q \in Process : pc'[q] \notin Owning
    BY <1>6, <2>1 DEF BackOut, Remove
  <2>3. NothingStale'
    BY <2>1 DEF Free
  <2> QED
    BY <2>1, <2>2, <2>3
<1>7. ASSUME Tick
      PROVE  Timely'
  <2>1. NothingStale'
    BY <1>7 DEF Tick
  <2>2. dir'.maker = dir.maker
    BY <1>7 DEF Tick, Dir, Free
  <2>3. ASSUME NEW p \in Process, pc[p] = "writing"
        PROVE  stamp'[p] <= dir'.age
    <3>1. dir # Free
      BY <2>3 DEF Free
    <3>2. dir'.age = Older(dir.age) /\ stamp'[p] = Older(stamp[p])
      BY <1>7, <2>3, <3>1 DEF Tick, Dir
    <3>3. stamp[p] \in Age /\ dir.age \in Age /\ stamp[p] <= dir.age
      BY <2>3 DEF Dir
    <3> QED
      BY <3>2, <3>3, OlderIsMonotone
  <2> QED
    BY <1>7, <2>1, <2>2, <2>3 DEF Tick
<1>8. ASSUME UNCHANGED lockVars
      PROVE  Timely'
  BY <1>8 DEF lockVars
<1> QED
  BY <1>1, <1>2, <1>3, <1>4, <1>5, <1>6, <1>7, <1>8 DEF LockNext, Attempt

(* A lock that has expired stays so for the record. *)
LEMMA ExpiredIsForGood ==
  ASSUME [LockNext]_lockVars, expired
  PROVE  expired'
BY DEF LockNext, lockVars, Attempt, TryLock, ReadManifest, Stat, Rename, Race, WriteManifest,
       WriteFails, BackOut, VerifyOwner, Remove, Crash, Tick

(* The invariant holds in every state, for every number of processes. *)
THEOREM LockInvariant == LockSpec => []LockInv
<1>1. LockInv /\ [LockNext]_lockVars => LockInv'
  BY LockStepType, LockStepTimely, ExpiredIsForGood DEF LockInv
<1> QED
  BY <1>1, LockInitInv, PTL DEF LockSpec

(* While no lock has outlived its time to live at most one process is in    *)
(* its critical part, from mkdir to the removal.                            *)
THEOREM LockIsExclusive == LockSpec => []MutualExclusion
<1>1. LockInv => MutualExclusion
  BY DEF LockInv, Timely, MadeIt, MutualExclusion
<1> QED
  BY <1>1, LockInvariant, PTL

(* ... and no release, failed write or takeover removes another's lock. *)
THEOREM LockIsRespected == LockSpec => NobodyElsesLock
<1>1. LockInv => (~expired => \A p \in Process : BackOut(p) \/ Remove(p) \/ Rename(p) => dir.maker = p)
  BY DEF LockInv, Timely, MadeIt, NoTakeover, Owning, BackOut, Remove, Rename
<1> QED
  BY <1>1, LockInvariant, PTL DEF NobodyElsesLock

=============================================================================
