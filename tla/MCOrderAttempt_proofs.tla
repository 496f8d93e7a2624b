------------------------ MODULE MCOrderAttempt_proofs ------------------------
(***************************************************************************)
(* Proofs about MCOrderAttempt: the network that delivers requests late is *)
(* one that OrderAttempt_proofs speaks of, so what is proved there for any *)
(* network holds on it. Late and Proved are two instances of one module    *)
(* with the same values, whose definitions agree once they are expanded.   *)
(***************************************************************************)
EXTENDS MCOrderAttempt, TLAPS

Proved == INSTANCE OrderAttempt_proofs WITH
  Resting <- FALSE, Delayed <- TRUE, DupReplies <- {"empty", "duplicate"}, MaxFaults <- 1,
  MaxPos <- 1,
  terms <- lTerms, book <- lBook, pos <- lPos, row <- lRow, mem <- lMem, call <- lCall,
  reply <- lReply, unknown <- lUnknown, late <- lLate, faults <- lFaults

-----------------------------------------------------------------------------
\* The two instances take the same steps from the same states.
LEMMA SameNext == Late!AttemptNext <=> Proved!AttemptNext
BY DEF
   Late!Cloid, Proved!Cloid, Late!None, Proved!None, Late!Terms, Proved!Terms,
   Late!Abs, Proved!Abs, Late!Fills, Proved!Fills, Late!Execute,
   Proved!Execute, Late!Acknowledge, Proved!Acknowledge, Late!Outside,
   Proved!Outside, Late!Free, Proved!Free, Late!Entry, Proved!Entry,
   Late!Invoke, Proved!Invoke, Late!Goto, Proved!Goto, Late!Return,
   Proved!Return, Late!Fault, Proved!Fault, Late!Procs, Proved!Procs,
   Late!NoTerms, Proved!NoTerms, Late!NoCall, Proved!NoCall, Late!InUse,
   Proved!InUse, Late!Inserted, Proved!Inserted, Late!Abandon, Proved!Abandon,
   Late!Confirmed, Proved!Confirmed, Late!Cleared, Proved!Cleared,
   Late!Answer, Proved!Answer, Late!exchangeVars, Proved!exchangeVars,
   Late!attemptVars, Proved!attemptVars, Late!PropagateError,
   Proved!PropagateError, Late!Load, Proved!Load, Late!Sign, Proved!Sign,
   Late!Persist, Proved!Persist, Late!Remember, Proved!Remember, Late!Reload,
   Proved!Reload, Late!Send, Proved!Send, Late!ReplyOk, Proved!ReplyOk,
   Late!ReplyRejected, Proved!ReplyRejected, Late!TransportError,
   Proved!TransportError, Late!Lookup, Proved!Lookup, Late!Status,
   Proved!Status, Late!ClearMem, Proved!ClearMem, Late!ClearRow,
   Proved!ClearRow, Late!Ask, Proved!Ask, Late!Deliver, Proved!Deliver,
   Late!DeliverLate, Proved!DeliverLate, Late!Settle, Proved!Settle,
   Late!CallerStep, Proved!CallerStep, Late!Crash, Proved!Crash, Late!Abort,
   Proved!Abort, Late!OutsideStep, Proved!OutsideStep, Late!AttemptStep,
   Proved!AttemptStep, Late!NetworkStep, Proved!NetworkStep, Late!AttemptNext,
   Proved!AttemptNext

LEMMA SameInit == Late!AttemptInit <=> Proved!AttemptInit
BY DEF
   Late!AttemptInit, Proved!AttemptInit, Late!Cloid, Proved!Cloid, Late!None,
   Proved!None, Late!NoTerms, Proved!NoTerms, Late!NoCall, Proved!NoCall

\* A step of the two networks is one of the late network, or leaves it alone.
LEMMA LateRuns == NetworkSpec => Proved!AttemptSpec
<1>1. NetworkInit => Proved!AttemptInit
  BY SameInit DEF NetworkInit
<1>2. [NetworkNext]_networkVars => [Proved!AttemptNext]_(Proved!attemptVars)
  BY SameNext DEF NetworkNext, networkVars, lateVars, Proved!attemptVars
<1> QED
  BY <1>1, <1>2, PTL DEF NetworkSpec, Proved!AttemptSpec

LEMMA SameStep == [Proved!OneAttempt]_(Proved!attemptVars) => [Late!OneAttempt]_lateVars
BY DEF lateVars, Proved!attemptVars, Late!OneAttempt, Proved!OneAttempt,
       Late!MemBacked, Proved!MemBacked, Late!None, Proved!None

-----------------------------------------------------------------------------
\* The values Late is given are such as OrderAttempt assumes, if nobody trades
\* a larger position by hand than Late has room for.
LEMMA LateAssumptions ==
  ASSUME OutsidePos \subseteq -1..1
  PROVE  Proved!ExchangeAssumption /\ Proved!AttemptAssumption
<1>1. Proved!ExchangeAssumption
  BY ExchangeAssumption DEF Proved!ExchangeAssumption
<1>2. Proved!AttemptAssumption
  BY DEF Proved!AttemptAssumption
<1> QED
  BY <1>1, <1>2

\* Where an order may execute after the engine has settled its attempt, and the
\* exchange may refuse a duplicate, an order is still signed only while neither
\* the row nor the memory copy holds an attempt (live_execution.rs, place_order).
THEOREM OneAttemptOnAny ==
  ASSUME OutsidePos \subseteq -1..1
  PROVE  NetworkSpec => AnyNetwork
<1>1. Proved!ExchangeAssumption /\ Proved!AttemptAssumption
  BY LateAssumptions
<1>2. Proved!AttemptSpec => [][Proved!OneAttempt]_(Proved!attemptVars)
  BY <1>1, Proved!OneAttemptHolds, PTL
<1>3. [][Proved!OneAttempt]_(Proved!attemptVars) => [][Late!OneAttempt]_lateVars
  BY SameStep, PTL
<1> QED
  BY LateRuns, <1>2, <1>3, PTL DEF AnyNetwork
=============================================================================
