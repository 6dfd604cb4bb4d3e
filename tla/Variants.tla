----------------------------- MODULE Variants -----------------------------
(***************************************************************************)
(* The two ways to variants, side by side: a plan from bound evidence      *)
(* (Capabilities) and the enrichment of a discovered model (Reasoning).    *)
(* They share no state; a behaviour takes one of them.                     *)
(***************************************************************************)
EXTENDS Capabilities, Reasoning

Init ==
  /\ CapInit
  /\ ReasonInit \/ (question = Absent /\ answer = Absent)

Next ==
  \/ question = Absent /\ CapNext /\ UNCHANGED reasonVars
  \/ question # Absent /\ Enrich /\ UNCHANGED capVars

Spec == Init /\ [][Next]_<<capVars, reasonVars>>
=============================================================================
