---------------------------- MODULE MCSimulated -----------------------------
(***************************************************************************)
(* The engine's two simulated executions, for TLC: sessions on mock        *)
(* wallets and backtests. They share no state, so each is looked at on its *)
(* own.                                                                    *)
(***************************************************************************)
EXTENDS MockTrading, Backtests

VARIABLE execution  \* which of the two: "mock" or "backtest"

\* An action of one of them, as a step of both.
Mock(A)   == execution = "mock" /\ A /\ UNCHANGED <<backtestVars, execution>>
Replay(A) == execution = "backtest" /\ A /\ UNCHANGED <<vars, execution>>

simulatedVars == <<vars, backtestVars, execution>>

SimulatedInit == execution \in {"mock", "backtest"} /\ Init /\ BacktestInit

SimulatedNext == Mock(Next) \/ Replay(BacktestNext)

\* Fairness and BacktestFairness, for the one that is looked at.
SimulatedFairness ==
  /\ \A s \in Session : WF_vars(execution = "mock" /\ Task(s))
  /\ \A a \in Actor : WF_vars(execution = "mock" /\ Operate(a))
  /\ WF_vars(execution = "mock" /\ Pass)
  /\ WF_vars(execution = "mock" /\ Poll)
  /\ WF_vars(execution = "mock" /\ Supervise)
  /\ WF_backtestVars(execution = "backtest" /\ RunLoop)

SimulatedSpec ==
  SimulatedInit /\ [][SimulatedNext]_simulatedVars /\ SimulatedFairness

\* The variables of both have their types.
SimulatedTypeOK == TypeOK /\ BacktestTypeOK
=============================================================================
