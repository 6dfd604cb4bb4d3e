----------------------------- MODULE SafeFile ------------------------------
(***************************************************************************)
(* src/src/cache/safe-file.ts: JSON files written under a temporary name   *)
(* and renamed into place.  A write is two steps, the file being open in   *)
(* between; a reader sees a file as it was renamed, no file, or, were it   *)
(* ever written in place, a torn one.  Directories, names and modes are    *)
(* left out.                                                               *)
(***************************************************************************)
EXTENDS Integers, FiniteSets

CONSTANTS Name,      \* file names of one directory
          None,
          Torn       \* the content of a file written in part

VARIABLES disk,      \* name -> content, None or Torn
          saved      \* ghost: every name that a rename has published

(* The stores that keep one file per key start with an empty directory.    *)
SafeFileInit == disk = [n \in Name |-> None] /\ saved = {}

(* What the directory holds while a file is being written: the temporary   *)
(* name is no reader's (the second operator), unlike a write in place.     *)
StagedInPlace(n) == [disk EXCEPT ![n] = Torn]
Staged(n) == disk

(* writeJsonAtomic up to the close of the temporary file, and its rename.  *)
Stage(n) == disk' = Staged(n) /\ UNCHANGED saved
Publish(n, value) ==
  /\ disk' = [disk EXCEPT ![n] = value]
  /\ saved' = saved \cup {n}

(* readJsonOptional: the content of a file that exists and parses.         *)
Readable(n) == disk[n] \notin {None, Torn}

Listed == {n \in Name : disk[n] # None}

RemoveCacheFile(n) == disk' = [disk EXCEPT ![n] = None] /\ UNCHANGED saved
=============================================================================
