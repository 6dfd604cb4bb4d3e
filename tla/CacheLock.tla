----------------------------- MODULE CacheLock ------------------------------
(***************************************************************************)
(* The cross-process lock of src/src/cache/lock.ts: a directory whose      *)
(* creation is the lock and a manifest in it that names the holder.  Every *)
(* call of the file system is a step.  A process has one attempt or handle *)
(* at a time, so its name stands for the random token of the attempt.      *)
(*                                                                         *)
(* Times enter the code only as now() - t compared with ttlMs, so ages are *)
(* kept instead, and stop growing at MaxAge, which is beyond the time to   *)
(* live.  The removal of a directory is one step.                          *)
(***************************************************************************)
EXTENDS Naturals

CONSTANTS
  Process,
  None,
  Ttl,       \* ttlMs
  MaxAge,    \* bound of the model on ages
  MaxCrash   \* bound of the model on crashes

ASSUME LockAssumption ==
  /\ None \notin Process
  /\ Ttl \in Nat
  /\ MaxAge \in Nat
  /\ MaxAge > Ttl
  /\ MaxCrash \in Nat

VARIABLES
  dir,     \* lockDir: its maker, its mtime's age, and the manifest; or Free
  pc,      \* where each process is in acquireCacheLock or release
  stamp,   \* the age of the acquiredAtMs a process is about to write
  crashes,
  expired  \* History: a lock has outlived the time to live

lockVars == <<dir, pc, stamp, crashes, expired>>

Age  == 0..MaxAge
Dir  == [maker : Process \cup {None}, age : Age, holder : Process \cup {None}, since : Age]
Free == [maker |-> None, age |-> 0, holder |-> None, since |-> 0]

Step == {"idle", "reading", "stating", "renaming", "racing", "writing", "backing-out",
         "held", "removing"}

LockTypeOK ==
  /\ dir \in Dir
  /\ pc \in [Process -> Step]
  /\ stamp \in [Process -> Age]
  /\ crashes \in 0..MaxCrash
  /\ expired \in BOOLEAN

LockInit ==
  /\ dir = Free
  /\ pc = [p \in Process |-> "idle"]
  /\ stamp = [p \in Process |-> 0]
  /\ crashes = 0
  /\ expired = FALSE

Goto(p, step) == pc' = [pc EXCEPT ![p] = step]

-----------------------------------------------------------------------------
(* acquireCacheLock                                                        *)

(* Mutant: with recursive: true an existing directory is no error. *)
MkdirRecursive(p, otherwise) ==
  /\ dir' = IF dir = Free THEN [Free EXCEPT !.maker = p] ELSE dir
  /\ stamp' = [stamp EXCEPT ![p] = 0]
  /\ Goto(p, "writing")

(* mkdir succeeds for one contender; the others go to "otherwise". *)
Mkdir(p, otherwise) ==
  IF dir = Free
  THEN /\ dir' = [Free EXCEPT !.maker = p]
       /\ stamp' = [stamp EXCEPT ![p] = 0]
       /\ Goto(p, "writing")
  ELSE Goto(p, otherwise) /\ UNCHANGED <<dir, stamp>>

TryLock(p) ==
  /\ pc[p] = "idle"
  /\ Mkdir(p, "reading")
  /\ UNCHANGED <<crashes, expired>>

IsStale(age) == age > Ttl

Decide(p, age) == Goto(p, IF IsStale(age) THEN "renaming" ELSE "idle")

ReadManifest(p) ==
  /\ pc[p] = "reading"
  /\ IF dir.holder # None THEN Decide(p, dir.since) ELSE Goto(p, "stating")
  /\ UNCHANGED <<dir, stamp, crashes, expired>>

(* Mutants: a lock without a manifest is taken for a dead one; it is never *)
(* taken over.                                                              *)
StatAsDead(p) ==
  /\ pc[p] = "stating"
  /\ Goto(p, IF dir = Free THEN "idle" ELSE "renaming")
  /\ UNCHANGED <<dir, stamp, crashes, expired>>

StatAsLive(p) ==
  /\ pc[p] = "stating"
  /\ Goto(p, "idle")
  /\ UNCHANGED <<dir, stamp, crashes, expired>>

(* Without a manifest the directory's mtime decides. *)
Stat(p) ==
  /\ pc[p] = "stating"
  /\ IF dir = Free THEN Goto(p, "idle") ELSE Decide(p, dir.age)
  /\ UNCHANGED <<dir, stamp, crashes, expired>>

(* Whatever is at lockDir by now is moved aside (and then deleted there). *)
Rename(p) ==
  /\ pc[p] = "renaming"
  /\ dir' = Free
  /\ Goto(p, IF dir = Free THEN "idle" ELSE "racing")
  /\ UNCHANGED <<stamp, crashes, expired>>

Race(p) ==
  /\ pc[p] = "racing"
  /\ Mkdir(p, "idle")
  /\ UNCHANGED <<crashes, expired>>

(* A new file in a directory renews its mtime; an overwritten one does not. *)
WriteManifest(p) ==
  /\ pc[p] = "writing"
  /\ dir # Free
  /\ dir' = [dir EXCEPT !.holder = p, !.since = stamp[p],
                        !.age = IF dir.holder = None THEN 0 ELSE @]
  /\ Goto(p, "held")
  /\ UNCHANGED <<stamp, crashes, expired>>

(* The directory is gone, or the disk is full. *)
WriteFails(p) ==
  /\ pc[p] = "writing"
  /\ Goto(p, "backing-out")
  /\ UNCHANGED <<dir, stamp, crashes, expired>>

BackOut(p) ==
  /\ pc[p] = "backing-out"
  /\ dir' = Free
  /\ Goto(p, "idle")
  /\ UNCHANGED <<stamp, crashes, expired>>

-----------------------------------------------------------------------------
(* release                                                                 *)

VerifyOwner(p) ==
  /\ pc[p] = "held"
  /\ Goto(p, IF dir.holder = p THEN "removing" ELSE "idle")
  /\ UNCHANGED <<dir, stamp, crashes, expired>>

Remove(p) ==
  /\ pc[p] = "removing"
  /\ dir' = Free
  /\ Goto(p, "idle")
  /\ UNCHANGED <<stamp, crashes, expired>>

-----------------------------------------------------------------------------
(* The environment                                                         *)

(* A process dies in the middle of an attempt or with the lock. *)
Crash(p) ==
  /\ pc[p] # "idle"
  /\ crashes < MaxCrash
  /\ crashes' = crashes + 1
  /\ Goto(p, "idle")
  /\ UNCHANGED <<dir, stamp, expired>>

Older(age) == IF age < MaxAge THEN age + 1 ELSE age

Tick ==
  /\ dir' = IF dir = Free THEN Free
            ELSE [dir EXCEPT !.age = Older(@),
                             !.since = IF dir.holder = None THEN 0 ELSE Older(@)]
  /\ stamp' = [p \in Process |-> IF pc[p] = "writing" THEN Older(stamp[p]) ELSE 0]
  /\ expired' = (expired \/ IsStale(dir'.age) \/ IsStale(dir'.since))
  /\ UNCHANGED <<pc, crashes>>

Attempt(p) ==
  \/ TryLock(p)
  \/ ReadManifest(p) \/ Stat(p) \/ Rename(p) \/ Race(p)
  \/ WriteManifest(p) \/ WriteFails(p) \/ BackOut(p)

LockNext ==
  \/ \E p \in Process : Attempt(p) \/ VerifyOwner(p) \/ Remove(p) \/ Crash(p)
  \/ Tick

LockSpec == LockInit /\ [][LockNext]_lockVars

(* A process that is not dead goes on: the code after an await is run, and  *)
(* contenders try again.  Nothing makes a holder call release, and a write  *)
(* that could succeed does so some day.                                     *)
LockFairSpec ==
  /\ LockSpec
  /\ WF_lockVars(Tick)
  /\ \A p \in Process :
       /\ WF_lockVars(Attempt(p) \/ Remove(p))
       /\ SF_lockVars(WriteManifest(p))

-----------------------------------------------------------------------------
Owning == {"writing", "backing-out", "held", "removing"}

(* As long as no lock has outlived its time to live, at most one process    *)
(* believes that it owns the lock, whoever crashes or fails to write.       *)
MutualExclusion ==
  ~expired => \A p, q \in Process : pc[p] \in Owning /\ pc[q] \in Owning => p = q

(* ... and nobody's release, failed write or takeover removes the lock of   *)
(* another.                                                                 *)
NobodyElsesLock ==
  [][ ~expired => \A p \in Process : BackOut(p) \/ Remove(p) \/ Rename(p) => dir.maker = p ]_lockVars

(* "Crashed holders cannot wedge refresh forever": some contender owns the  *)
(* lock again after every crash.                                            *)
NeverWedged == []<>(\E p \in Process : pc[p] = "held")

-----------------------------------------------------------------------------
(* What the comments promise and the code does not do.                     *)

Fresh == (dir.holder # None => ~IsStale(dir.since)) /\ (dir.holder = None => ~IsStale(dir.age))

(* "Someone holds the lock.  Take it over only when provably stale." *)
OnlyStaleTaken == [][ \A p \in Process : Rename(p) /\ dir # Free => ~Fresh ]_lockVars

=============================================================================
