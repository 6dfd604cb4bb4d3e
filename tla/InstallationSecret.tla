------------------------- MODULE InstallationSecret -------------------------
(***************************************************************************)
(* loadOrCreateInstallationSecret of src/src/cache/installation-secret.ts, *)
(* called by several processes at a time.  Each call of the file system on *)
(* the key file is a step.  The random bytes a process writes are named    *)
(* after it: it writes at most once, because the file never goes away.     *)
(* Symlinks and permissions are the machine's set-up and never change.     *)
(***************************************************************************)
EXTENDS Naturals, FiniteSets

CONSTANTS
  Process,
  Absent, Empty,  \* no file; a file without its 64 characters
  MaxFailures     \* bound of the model on crashes and failed writes

ASSUME SecretAssumption ==
  /\ Absent \notin Process
  /\ Empty \notin Process
  /\ Absent # Empty
  /\ MaxFailures \in Nat

VARIABLES
  file,      \* Absent, Empty or the secret in it
  pc,
  failures,
  answers,   \* History: the secrets callers have been given
  refused    \* History: the processes that were answered CORRUPT_SECRET

secretVars == <<file, pc, failures, answers, refused>>

SecretTypeOK ==
  /\ file \in Process \cup {Absent, Empty}
  /\ pc \in [Process -> {"idle", "inspecting", "reading", "opening", "writing", "closing"}]
  /\ failures \in 0..MaxFailures
  /\ answers \subseteq Process
  /\ refused \subseteq Process

SecretInit ==
  /\ file = Absent
  /\ pc = [p \in Process |-> "idle"]
  /\ failures = 0
  /\ answers = {}
  /\ refused = {}

Goto(p, step) == pc' = [pc EXCEPT ![p] = step]

Call(p) ==
  /\ pc[p] = "idle"
  /\ Goto(p, "inspecting")
  /\ UNCHANGED <<file, failures, answers, refused>>

(* lstat.  The file a caller lost the race for is there. *)
Inspect(p) ==
  /\ pc[p] = "inspecting"
  /\ Goto(p, IF file = Absent THEN "opening" ELSE "reading")
  /\ UNCHANGED <<file, failures, answers, refused>>

Read(p) ==
  /\ pc[p] = "reading"
  /\ answers' = answers \cup ({file} \cap Process)
  /\ refused' = refused \cup (IF file = Empty THEN {p} ELSE {})
  /\ Goto(p, "idle")
  /\ UNCHANGED <<file, failures>>

(* Mutant: without O_EXCL the second opener truncates the file. *)
OpenShared(p) ==
  /\ pc[p] = "opening"
  /\ file' = Empty
  /\ Goto(p, "writing")
  /\ UNCHANGED <<failures, answers, refused>>

Open(p) ==
  /\ pc[p] = "opening"
  /\ file' = IF file = Absent THEN Empty ELSE file
  /\ Goto(p, IF file = Absent THEN "writing" ELSE "inspecting")
  /\ UNCHANGED <<failures, answers, refused>>

Write(p) ==
  /\ pc[p] = "writing"
  /\ file' = p
  /\ Goto(p, "closing")
  /\ UNCHANGED <<failures, answers, refused>>

(* The handle is closed, and the file read back. *)
Close(p) ==
  /\ pc[p] = "closing"
  /\ Goto(p, "inspecting")
  /\ UNCHANGED <<file, failures, answers, refused>>

(* The process dies, or the write fails and the call throws. *)
Fail(p) ==
  /\ pc[p] # "idle"
  /\ failures < MaxFailures
  /\ failures' = failures + 1
  /\ Goto(p, "idle")
  /\ UNCHANGED <<file, answers, refused>>

SecretNext ==
  \E p \in Process :
    \/ Call(p) \/ Inspect(p) \/ Read(p) \/ Open(p) \/ Write(p) \/ Close(p)
    \/ Fail(p)

SecretSpec == SecretInit /\ [][SecretNext]_secretVars

-----------------------------------------------------------------------------
(* All callers that are given a secret are given the same one, whoever      *)
(* creates the file, crashes, or calls again later.                         *)
OneSecret == \A s, t \in answers : s = t

(* The first answer is for good: whoever crashes or calls later, nobody is  *)
(* told any more that the secret is corrupt.  (Before it a loser may read   *)
(* the file between the winner's open and write and be refused.)            *)
AnsweredForGood == [][answers # {} => refused' = refused]_secretVars

=============================================================================
