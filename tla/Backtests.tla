------------------------------ MODULE Backtests ------------------------------
(***************************************************************************)
(* Backtest runs: the API that creates them (api/src/backtests), the loop  *)
(* that claims and replays them one at a time (backtest/runner.rs) with    *)
(* the decision cycle and funding sweep of the live engine                 *)
(* (decision/supervisor.rs, funding/scheduler.rs) on an adapter of its own *)
(* (backtest/execution.rs).                                                *)
(*                                                                         *)
(* One loop replays every run, so each action is the next query that       *)
(* changes something. A write that fails may still have taken effect.      *)
(***************************************************************************)
EXTENDS Integers, Sequences

CONSTANTS
  Run,           \* backtest runs that may ever be requested
  Nobody,        \* not a run
  Step,          \* decision_frequency_seconds, in units of simulated time
  Hour,          \* FUNDING_INTERVAL
  EndTime,       \* a run's end_time; its start_time is 0
  FlattenAfter,  \* AUTO_FLATTEN_THRESHOLD
  MaxErrors      \* bound: failures the environment may still inject

ASSUME BacktestAssumption ==
  /\ Nobody \notin Run
  /\ Step \in Nat \ {0}
  /\ Hour \in Nat \ {0}
  /\ EndTime \in Nat \ {0}
  /\ FlattenAfter \in Nat \ {0}
  /\ MaxErrors \in Nat

VARIABLES
  phase,     \* backtest_runs.status
  line,      \* the pending runs by created_at
  at,        \* the await the loop is in
  run,       \* the run it replays
  time,      \* sim_time
  due,       \* next_funding_at
  fails,     \* InMemoryFailureTracker, counted up to FlattenAfter
  dir,       \* direction the cycle opens next, 0 for none
  side,      \* backtest_positions: each run's direction, 0 when flat
  openings,  \* history: positions opened
  trades,    \* backtest_trades: trades recorded, each credited to the run
  paid,      \* history: funding payments applied to current_balance_usd
  recorded,  \* backtest_funding_payments
  errors     \* failures left to inject

loopVars     == <<at, run, time, due, fails, dir>>
tradeVars    == <<side, openings, trades>>
fundVars     == <<paid, recorded>>
backtestVars == <<phase, line, loopVars, tradeVars, fundVars, errors>>

Sides == {-1, 1}
Awaits == {"idle", "fetch", "cycle", "open", "close", "auto", "funding", "apply", "record",
           "step", "flatten", "completed", "failed"}

QueueOK ==
  /\ phase \in [Run -> {"none", "pending", "running", "completed", "failed"}]
  /\ line \in Seq(Run)

LoopOK ==
  /\ at \in Awaits
  /\ run \in Run \cup {Nobody}
  /\ at # "idle" => run \in Run
  /\ time \in Nat
  /\ due \in Nat
  /\ fails \in 0..FlattenAfter
  /\ dir \in Sides \cup {0}
  /\ errors \in 0..MaxErrors

TablesOK ==
  /\ side \in [Run -> Sides \cup {0}]
  /\ openings \in [Run -> Nat]
  /\ trades \in [Run -> Nat]
  /\ paid \in [Run -> Nat]
  /\ recorded \in [Run -> Nat]

BacktestTypeOK == QueueOK /\ LoopOK /\ TablesOK

Err == errors > 0 /\ errors' = errors - 1

-----------------------------------------------------------------------------
(* The API and the claim of a run.                                         *)

\* POST /perps/:symbol/backtests.
Request(r) ==
  /\ phase[r] = "none"
  /\ phase' = [phase EXCEPT ![r] = "pending"]
  /\ line' = Append(line, r)
  /\ UNCHANGED <<loopVars, tradeVars, fundVars, errors>>

\* claim_next_pending: the oldest pending run. A claim that took effect and
\* whose answer is lost is not replayed by anyone.
Claim ==
  /\ at = "idle"
  /\ line # <<>>
  /\ phase' = [phase EXCEPT ![Head(line)] = "running"]
  /\ line' = Tail(line)
  /\ \/ at' = "fetch" /\ run' = Head(line) /\ UNCHANGED errors
     \/ Err /\ UNCHANGED <<at, run>>
  /\ UNCHANGED <<time, due, fails, dir, tradeVars, fundVars>>

\* Faulty variant: the first sweep is made at once, as the live scheduler's is.
FetchDue ==
  /\ at = "fetch"
  /\ time' = 0
  /\ due' = 0
  /\ fails' = 0
  /\ dir' = 0
  /\ \/ at' = "cycle" /\ UNCHANGED errors
     \/ at' = "failed" /\ Err
  /\ UNCHANGED <<phase, line, run, tradeVars, fundVars>>

\* run_backtest fetches the historical funding and sets the clock; a run
\* whose funding cannot be fetched has failed.
Fetch ==
  /\ at = "fetch"
  /\ time' = 0
  /\ due' = Hour
  /\ fails' = 0
  /\ dir' = 0
  /\ \/ at' = "cycle" /\ UNCHANGED errors
     \/ at' = "failed" /\ Err
  /\ UNCHANGED <<phase, line, run, tradeVars, fundVars>>

-----------------------------------------------------------------------------
(* One simulated step: a decision cycle and, every hour, a funding sweep.  *)

\* Faulty variant: the failure after the one that reaches the threshold flattens.
CycleFailsLate ==
  /\ fails' = IF fails = FlattenAfter THEN fails ELSE fails + 1
  /\ at' = IF fails = FlattenAfter THEN "auto" ELSE "funding"

\* record_failure; a failure at or beyond the threshold flattens.
CycleFails ==
  /\ fails' = IF fails = FlattenAfter THEN fails ELSE fails + 1
  /\ at' = IF fails + 1 >= FlattenAfter THEN "auto" ELSE "funding"

CycleDone == fails' = 0 /\ at' = "funding"

\* run_decision_cycle of an active session: no data in the window, a failed
\* read or decision, or a decision. decide_action compares it with the
\* position; a decision below the confidence floor keeps the position.
Cycle ==
  /\ at = "cycle"
  /\ \/ at' = "funding" /\ UNCHANGED <<fails, dir, errors>>
     \/ CycleFails /\ UNCHANGED <<dir, errors>>
     \/ \E target \in Sides \cup {0} :
          IF target = side[run]
            THEN CycleDone /\ UNCHANGED <<dir, errors>>
            ELSE /\ dir' = target
                 /\ at' = IF side[run] = 0 THEN "open" ELSE "close"
                 /\ UNCHANGED <<fails, errors>>
  /\ UNCHANGED <<phase, line, run, time, due, tradeVars, fundVars>>

InsertPosition ==
  /\ side[run] = 0
  /\ side' = [side EXCEPT ![run] = dir]
  /\ openings' = [openings EXCEPT ![run] = @ + 1]

\* BacktestExecutionAdapter::open; nothing may be left to trade with.
OpenTrade ==
  /\ at = "open"
  /\ \/ InsertPosition /\ CycleDone /\ UNCHANGED errors
     \/ CycleFails /\ UNCHANGED <<side, openings, errors>>
     \/ InsertPosition /\ CycleFails /\ Err
  /\ UNCHANGED <<phase, line, run, time, due, dir, trades, fundVars>>

\* Faulty variant: the position is deleted outside the transaction, and the
\* delete may fail.
BookTradeKept ==
  /\ \/ side' = [side EXCEPT ![run] = 0]
     \/ errors > 0 /\ UNCHANGED side
  /\ trades' = [trades EXCEPT ![run] = @ + 1]

\* The transaction of BacktestExecutionAdapter::close.
BookTrade ==
  /\ side' = [side EXCEPT ![run] = 0]
  /\ trades' = [trades EXCEPT ![run] = @ + 1]

\* apply_action's close: of a decision to go flat, or the first half of a
\* reversal.
Close ==
  /\ at = "close"
  /\ \/ /\ BookTrade
        /\ IF dir # 0 THEN at' = "open" /\ UNCHANGED fails ELSE CycleDone
        /\ UNCHANGED errors
     \/ BookTrade /\ CycleFails /\ Err
     \/ CycleFails /\ Err /\ UNCHANGED <<side, trades>>
  /\ UNCHANGED <<phase, line, run, time, due, dir, openings, fundVars>>

\* auto_flatten, whatever becomes of it.
AutoFlatten ==
  /\ at = "auto"
  /\ at' = "funding"
  /\ \/ side[run] # 0 /\ BookTrade /\ (UNCHANGED errors \/ Err)
     \/ side[run] = 0 /\ UNCHANGED <<side, trades, errors>>
     \/ Err /\ UNCHANGED <<side, trades>>
  /\ UNCHANGED <<phase, line, run, time, due, fails, dir, openings, fundVars>>

\* list_open_positions: the run's position, if it can be read.
FindPosition ==
  \/ side[run] # 0 /\ at' = "apply" /\ UNCHANGED errors
  \/ side[run] = 0 /\ at' = "step" /\ UNCHANGED errors
  \/ at' = "step" /\ Err

\* The sweep is due again one hour after the step that made it, which need not
\* be on the hour.
Funding ==
  /\ at = "funding"
  /\ IF time >= due
       THEN due' = time + Hour /\ FindPosition
       ELSE at' = "step" /\ UNCHANGED <<due, errors>>
  /\ UNCHANGED <<phase, line, run, time, fails, dir, tradeVars, fundVars>>

Pay == paid' = [paid EXCEPT ![run] = @ + 1]

\* Faulty variant: a payment that failed is recorded too.
ApplyAnyway ==
  /\ at = "apply"
  /\ at' = "record"
  /\ \/ Pay /\ UNCHANGED errors
     \/ Err /\ UNCHANGED paid
  /\ UNCHANGED <<phase, line, run, time, due, fails, dir, tradeVars, recorded>>

\* apply_funding; a payment whose answer is lost, or without a rate, is not
\* recorded.
Apply ==
  /\ at = "apply"
  /\ \/ Pay /\ at' = "record" /\ UNCHANGED errors
     \/ Pay /\ at' = "step" /\ Err
     \/ at' = "step" /\ UNCHANGED paid /\ UNCHANGED errors
  /\ UNCHANGED <<phase, line, run, time, due, fails, dir, tradeVars, recorded>>

\* BacktestFundingPaymentWriter::write; its failure is only logged.
Record ==
  /\ at = "record"
  /\ at' = "step"
  /\ \/ recorded' = [recorded EXCEPT ![run] = @ + 1] /\ UNCHANGED errors
     \/ UNCHANGED recorded /\ Err
  /\ UNCHANGED <<phase, line, run, time, due, fails, dir, tradeVars, paid>>

\* sim_time advances until it has passed end_time.
Advance ==
  /\ at = "step"
  /\ time' = time + Step
  /\ at' = IF time + Step <= EndTime THEN "cycle" ELSE "flatten"
  /\ UNCHANGED <<phase, line, run, due, fails, dir, tradeVars, fundVars, errors>>

-----------------------------------------------------------------------------
(* The end of a run.                                                       *)

\* Faulty variant: with nothing to close, run_backtest returns early.
FlattenReturns ==
  /\ at = "flatten"
  /\ IF side[run] # 0
       THEN BookTrade /\ at' = "completed" /\ UNCHANGED run
       ELSE at' = "idle" /\ run' = Nobody /\ UNCHANGED <<side, trades>>
  /\ UNCHANGED <<phase, line, time, due, fails, dir, openings, fundVars, errors>>

\* The position still open at end_time is closed; a failure is logged and the
\* run completes all the same.
Flatten ==
  /\ at = "flatten"
  /\ at' = "completed"
  /\ \/ side[run] # 0 /\ BookTrade /\ (UNCHANGED errors \/ Err)
     \/ side[run] = 0 /\ UNCHANGED <<side, trades, errors>>
     \/ Err /\ UNCHANGED <<side, trades>>
  /\ UNCHANGED <<phase, line, run, time, due, fails, dir, openings, fundVars>>

\* mark_status; when it fails the run stays running.
MarkStatus ==
  /\ at \in {"completed", "failed"}
  /\ at' = "idle"
  /\ run' = Nobody
  /\ \/ phase' = [phase EXCEPT ![run] = at] /\ UNCHANGED errors
     \/ UNCHANGED phase /\ Err
  /\ UNCHANGED <<line, time, due, fails, dir, tradeVars, fundVars>>

\* The engine stops and starts again. The run it was replaying stays running.
EngineDies ==
  /\ Err
  /\ at' = "idle"
  /\ run' = Nobody
  /\ UNCHANGED <<phase, line, time, due, fails, dir, tradeVars, fundVars>>

RunLoop ==
  \/ Claim \/ Fetch \/ Cycle \/ OpenTrade \/ Close \/ AutoFlatten
  \/ Funding \/ Apply \/ Record \/ Advance \/ Flatten \/ MarkStatus

BacktestInit ==
  /\ phase = [r \in Run |-> "none"]
  /\ line = <<>>
  /\ at = "idle"
  /\ run = Nobody
  /\ time = 0
  /\ due = 0
  /\ fails = 0
  /\ dir = 0
  /\ side = [r \in Run |-> 0]
  /\ openings = [r \in Run |-> 0]
  /\ trades = [r \in Run |-> 0]
  /\ paid = [r \in Run |-> 0]
  /\ recorded = [r \in Run |-> 0]
  /\ errors = MaxErrors

BacktestNext == (\E r \in Run : Request(r)) \/ RunLoop \/ EngineDies

BacktestSpec == BacktestInit /\ [][BacktestNext]_backtestVars

\* The runtime polls the loop, and queries and requests are answered.
BacktestFairness == WF_backtestVars(RunLoop)

BacktestFairSpec == BacktestSpec /\ BacktestFairness

-----------------------------------------------------------------------------
(* Properties.                                                             *)

Holding(r) == IF side[r] = 0 THEN 0 ELSE 1

\* Every position a run ever opened is open still or has been recorded as
\* exactly one trade and credited exactly once: whichever of the decision, the
\* failed cycle and the end of the range closes it, with answers lost and the
\* engine restarted (backtest/execution.rs, decision/supervisor.rs).
Accounted == \A r \in Run : openings[r] = trades[r] + Holding(r)

\* A run's history never shows a funding payment that its balance has not had
\* (funding/scheduler.rs:45-61).
FundingAccount == \A r \in Run : recorded[r] <= paid[r]

\* A run pays funding at most once for each hour it has simulated, however its
\* decision frequency divides the hour, and never for time past its end
\* (backtest/runner.rs:152-155).
FundingPaced ==
  \A r \in Run : /\ paid[r] * Hour <= EndTime
                 /\ r = run => paid[r] * Hour <= time

\* A run that met no failure ends with everything realised: no position is open
\* when it is completed (backtest/runner.rs:160-172).
FlatAtEnd ==
  \A r \in Run : phase[r] = "completed" /\ errors = MaxErrors => side[r] = 0

\* While the failures of a run are at the threshold it holds no position when
\* the funding sweep looks for one, unless a query has failed: the cycle that
\* reached the threshold flattened, whichever way it failed, and only a cycle
\* that succeeds opens again (decision/supervisor.rs:522-554, 591-593).
FailedIsFlat ==
  at = "funding" /\ fails = FlattenAfter /\ errors = MaxErrors => side[run] = 0

\* A run that nothing went wrong for is flat where it has to be.
FlatWhenDue == FlatAtEnd /\ FailedIsFlat

\* Whatever fails in the runs before it, a pending run is claimed: no failure
\* leaves the loop stuck in a run (backtest/runner.rs:254-298).
PendingIsClaimed ==
  \A r \in Run : phase[r] = "pending" ~> phase[r] # "pending"

\* A run ends, completed or failed, unless something failed on the way
\* (backtest/runner.rs:82-173).
RunEnds ==
  \A r \in Run :
    phase[r] = "pending" ~> (phase[r] \in {"completed", "failed"} \/ errors < MaxErrors)

\* The queue is worked off: both of these.
QueueMoves == PendingIsClaimed /\ RunEnds
=============================================================================
