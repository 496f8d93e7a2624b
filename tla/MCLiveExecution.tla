--------------------------- MODULE MCLiveExecution ---------------------------
(***************************************************************************)
(* Instances of LiveExecution for TLC.                                     *)
(***************************************************************************)
EXTENDS LiveExecution

\* DriftPolicy::default().
DefaultPolicy == [missing |-> "adopt", unknown |-> "flatten", mismatch |-> "flatten"]

\* The same, but an unknown position halts the PERP.
HaltPolicy == [DefaultPolicy EXCEPT !["unknown"] = "halt"]

\* A policy that re-submits whatever drifted away from the virtual position and
\* halts the PERP when the exchange reports a position of nobody's.
ResubmitPolicy == [missing |-> "resubmit", unknown |-> "halt", mismatch |-> "resubmit"]

\* The decision maker asks for either direction.
BothWays == {-1, 1}

\* Others trade by hand in the account.
ByHand == {-1, 0, 1}
=============================================================================
