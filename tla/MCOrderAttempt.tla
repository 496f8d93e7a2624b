--------------------------- MODULE MCOrderAttempt ---------------------------
(***************************************************************************)
(* The Order Attempt, for TLC, over two networks: one that drops requests  *)
(* but never delivers one after its call has ended, and, in Late, one that *)
(* does, to an exchange that may refuse a duplicate. Each is looked at on  *)
(* its own.                                                                *)
(***************************************************************************)
EXTENDS OrderAttempt

VARIABLES
  network,   \* which of the two: "calm" or "late"
  lTerms, lBook, lPos, lRow, lMem, lCall, lReply, lUnknown, lLate, lFaults

Late == INSTANCE OrderAttempt WITH
  Resting <- FALSE, Delayed <- TRUE, DupReplies <- {"empty", "duplicate"}, MaxFaults <- 1,
  MaxPos <- 1,
  terms <- lTerms, book <- lBook, pos <- lPos, row <- lRow, mem <- lMem, call <- lCall,
  reply <- lReply, unknown <- lUnknown, late <- lLate, faults <- lFaults

lateVars    == <<lTerms, lBook, lPos, lRow, lMem, lCall, lReply, lUnknown, lLate, lFaults>>
networkVars == <<attemptVars, lateVars, network>>

NetworkInit == network \in {"calm", "late"} /\ AttemptInit /\ Late!AttemptInit

NetworkNext ==
  /\ \/ network = "calm" /\ AttemptNext /\ UNCHANGED lateVars
     \/ network = "late" /\ Late!AttemptNext /\ UNCHANGED attemptVars
  /\ UNCHANGED network

NetworkSpec == NetworkInit /\ [][NetworkNext]_networkVars

\* "A PERP has at most one Order Attempt at a time", on the worse network too,
\* where an order may execute after the engine has settled its attempt.
AnyNetwork == [][Late!OneAttempt]_lateVars
=============================================================================
