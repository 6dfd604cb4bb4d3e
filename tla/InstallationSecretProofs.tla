---------------------- MODULE InstallationSecretProofs ----------------------
(***************************************************************************)
(* One secret for every caller, for any number of processes and failures.  *)
(* Exclusive creation leaves one process between open and write, so a file *)
(* that holds a secret is never written again, and what callers were given *)
(* is what the file holds.                                                 *)
(***************************************************************************)
EXTENDS InstallationSecret, TLAPS

OneWriter == \A p \in Process : pc[p] = "writing" =>
               file = Empty /\ \A q \in Process : pc[q] = "writing" => q = p

AnswersAreTheFile == answers \subseteq {file}

SecretInv == SecretTypeOK /\ OneWriter /\ AnswersAreTheFile

(* Initially there is no file and no caller. *)
THEOREM SecretInitInv == SecretInit => SecretInv
BY SecretAssumption DEF SecretInit, SecretInv, SecretTypeOK, OneWriter, AnswersAreTheFile

(* Every step keeps the inductive invariant. *)
THEOREM SecretStepInv ==
  ASSUME SecretInv, [SecretNext]_secretVars
  PROVE  SecretInv'
<1> USE SecretAssumption
<1> USE DEF SecretInv, SecretTypeOK, OneWriter, AnswersAreTheFile, Goto
<1>1. ASSUME NEW p \in Process, Call(p) \/ Inspect(p) \/ Close(p)
      PROVE  SecretInv'
  BY <1>1 DEF Call, Inspect, Close
<1>2. ASSUME NEW p \in Process, Read(p)
      PROVE  SecretInv'
  BY <1>2 DEF Read
<1>3. ASSUME NEW p \in Process, Open(p)
      PROVE  SecretInv'
  <2>1. CASE file = Absent
    <3>1. answers = {}
      BY <2>1
    <3> QED
      BY <1>3, <2>1, <3>1 DEF Open
  <2>2. CASE file # Absent
    BY <1>3, <2>2 DEF Open
  <2> QED
    BY <2>1, <2>2
<1>4. ASSUME NEW p \in Process, Write(p)
      PROVE  SecretInv'
  <2>1. answers = {}
    BY <1>4 DEF Write
  <2>2. \A q \in Process : pc'[q] # "writing"
    BY <1>4 DEF Write
  <2> QED
    BY <1>4, <2>1, <2>2 DEF Write
<1>5. ASSUME NEW p \in Process, Fail(p)
      PROVE  SecretInv'
  <2>1. failures' \in 0..MaxFailures
    BY <1>5 DEF Fail
  <2> QED
    BY <1>5, <2>1 DEF Fail
<1>6. ASSUME UNCHANGED secretVars
      PROVE  SecretInv'
  BY <1>6 DEF secretVars
<1> QED
  BY <1>1, <1>2, <1>3, <1>4, <1>5, <1>6 DEF SecretNext

(* All callers are given one secret, for every set of processes. *)
THEOREM SecretIsOne == SecretSpec => []OneSecret
<1>1. SecretInv => OneSecret
  BY DEF SecretInv, AnswersAreTheFile, OneSecret
<1> QED
  BY <1>1, SecretInitInv, SecretStepInv, PTL DEF SecretSpec

(* The first answer is for good: the file that gave it stays a whole one.  *)
THEOREM SecretIsForGood == SecretSpec => AnsweredForGood
<1>1. ASSUME SecretInv, [SecretNext]_secretVars, answers # {}
      PROVE  refused' = refused
  <2>1. file # Empty
    BY <1>1, SecretAssumption DEF SecretInv, SecretTypeOK, AnswersAreTheFile
  <2>2. \A p \in Process : Read(p) => refused' = refused
    BY <2>1, <1>1 DEF Read, SecretInv, SecretTypeOK
  <2> QED
    BY <1>1, <2>2 DEF SecretNext, secretVars, Call, Inspect, Open, Write, Close, Fail
<1> QED
  BY <1>1, SecretInitInv, SecretStepInv, PTL DEF SecretSpec, AnsweredForGood

=============================================================================
