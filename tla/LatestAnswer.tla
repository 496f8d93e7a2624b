---------------------------- MODULE LatestAnswer ----------------------------
(***************************************************************************)
(* What a view of a growing log promises its reader: it shows nothing, or  *)
(* an answer to the question that is selected now, and no answer is older  *)
(* than one the reader has seen.                                           *)
(***************************************************************************)
EXTENDS Naturals

CONSTANTS Question, Loading

VARIABLES
  clock,     \* how far the log has got
  question,  \* what is selected
  shown,     \* the question whose answer is on display, or Loading
  asOf       \* when the newest answer ever shown was taken

vars == <<clock, question, shown, asOf>>

Init ==
  /\ clock \in Nat
  /\ question \in Question
  /\ shown = Loading
  /\ asOf = 0

Tick ==
  /\ clock' \in {t \in Nat : t > clock}
  /\ UNCHANGED <<question, shown, asOf>>

Ask ==
  /\ question' \in Question
  /\ shown' = Loading
  /\ UNCHANGED <<clock, asOf>>

\* An answer or, with asOf as it was, the news that there is none.
Show ==
  /\ shown' = question
  /\ asOf' \in {t \in Nat : asOf <= t /\ t <= clock}
  /\ UNCHANGED <<clock, question>>

Spec == Init /\ [][Tick \/ Ask \/ Show]_vars
=============================================================================
