---------------------------- MODULE MockTrading ----------------------------
(***************************************************************************)
(* Trading sessions of one PERP on mock wallets: the decision tasks        *)
(* (decision/supervisor.rs), the reconcile loop's hard closes and          *)
(* stop-losses (reconcile.rs) and MockExecutionAdapter                     *)
(* (decision/execution.rs), with the API and the poller around them.       *)
(*                                                                         *)
(* Mock execution takes no claim on the PERP, so a session's task and the  *)
(* reconcile loop run their operations side by side. Every action is the   *)
(* code between two awaits; a Postgres transaction is one action. A cycle  *)
(* that finds no market data returns without any change and is a stutter.  *)
(***************************************************************************)
EXTENDS Integers

CONSTANTS
  Session,    \* trading sessions, each on a mock wallet of its own
  Loop,       \* the reconcile loop
  Threshold,  \* AUTO_FLATTEN_THRESHOLD
  MaxOpens,   \* bound: positions a session may open
  MaxFaults   \* bound: failures the environment may still inject

ASSUME MockAssumption ==
  /\ Loop \notin Session
  /\ Threshold \in Nat \ {0}
  /\ MaxOpens \in Nat
  /\ MaxFaults \in Nat

VARIABLES
  status,    \* trading_sessions.status
  store,     \* the engine's polled copy of it ("none": not in the store)
  running,   \* sessions the supervisor runs a decision task for
  posn,      \* mock_positions: each session's direction, 0 when flat
  opened,    \* history: positions opened
  booked,    \* trade_history: trades recorded, each credited to the wallet
  failures,  \* the PERP's consecutive failures, counted up to Threshold
  op,        \* what each task and the reconcile loop are doing
  pass,      \* the reconcile pass
  faults     \* failures left to inject

vars == <<status, store, running, posn, opened, booked, failures, op, pass, faults>>

Actor         == Session \cup {Loop}
Directions    == {-1, 1}
SessionStatus == {"none", "active", "soft", "hard", "closed"}

Idle   == [at |-> "idle", why |-> "none", s |-> Loop, cur |-> 0, dir |-> 0]
CloseJob(why, s) == [at |-> "close", why |-> why, s |-> s, cur |-> 0, dir |-> 0]
DecideJob(why, s, cur) == [at |-> "decide", why |-> why, s |-> s, cur |-> cur, dir |-> 0]
ActJob(job, target) ==
  [at |-> IF job.cur = 0 THEN "open" ELSE "close", why |-> job.why, s |-> job.s,
   cur |-> job.cur, dir |-> target]
NoPass == [at |-> "idle", todo |-> {}, next |-> {}]

TypeOK ==
  /\ status \in [Session -> SessionStatus]
  /\ store \in [Session -> SessionStatus \ {"closed"}]
  /\ running \subseteq Session
  /\ posn \in [Session -> Directions \cup {0}]
  /\ opened \in [Session -> 0..MaxOpens]
  /\ booked \in [Session -> Nat]
  /\ failures \in 0..Threshold
  /\ op \in [Actor -> [at: {"idle", "decide", "open", "close", "commit", "mark"},
                       why: {"none", "cycle", "soft", "hard", "auto", "sweep", "stop"},
                       s: Actor, cur: Directions \cup {0}, dir: Directions \cup {0}]]
  /\ pass \in [at: {"idle", "sweep", "scan", "stop"}, todo: SUBSET Session,
               next: SUBSET Session]
  /\ faults \in 0..MaxFaults

Fault        == faults > 0 /\ faults' = faults - 1
Job(a, job)  == op' = [op EXCEPT ![a] = job]
Goto(a, at)  == op' = [op EXCEPT ![a].at = at]

-----------------------------------------------------------------------------
(* How an operation ends.                                                  *)

\* Faulty variant: a soft close that finds nothing to do does not end the session.
SucceedOnly(a) == failures' = 0 /\ Job(a, Idle)

\* A successful cycle resets the failure count; a soft close then ends the session.
Succeed(a) ==
  /\ failures' = 0
  /\ IF op[a].why = "soft" THEN Goto(a, "mark") ELSE Job(a, Idle)

\* Faulty variant: a failure beyond the threshold does not try again.
OnceAtThreshold(why) == why \in {"cycle", "soft"} /\ failures + 1 = Threshold

\* Does this failure of a decision cycle reach the threshold?
Exhausted(why) == why \in {"cycle", "soft"} /\ failures + 1 >= Threshold

\* record_failure and auto_flatten; only a decision cycle's failure counts.
Fail(a, why, s) ==
  /\ failures' = IF why \notin {"cycle", "soft"} \/ failures = Threshold
                   THEN failures ELSE failures + 1
  /\ Job(a, IF Exhausted(why) THEN CloseJob("auto", s) ELSE Idle)

\* Faulty variant: a stop-loss ends the session as well.
EndsSession(why) == why \in {"hard", "sweep", "stop"}

\* A hard close ends the session; auto-flatten and a stop-loss do not.
ClosesSession(why) == why \in {"hard", "sweep"}

\* close returned Ok: a reversal goes on to open.
Closed(a) ==
  \/ /\ op[a].dir # 0
     /\ Goto(a, "open")
     /\ UNCHANGED failures
  \/ /\ op[a].dir = 0
     /\ op[a].why \in {"cycle", "soft"}
     /\ Succeed(a)
  \/ /\ op[a].why \notin {"cycle", "soft"}
     /\ IF ClosesSession(op[a].why) THEN Goto(a, "mark") ELSE Job(a, Idle)
     /\ UNCHANGED failures

-----------------------------------------------------------------------------
(* run_decision_cycle.                                                     *)

\* A tick reads the session from the store and its position; a hard close
\* goes straight to close.
Tick(s) ==
  /\ s \in running
  /\ op[s] = Idle
  /\ store[s] # "none"
  /\ Job(s, CASE store[s] = "hard"   -> CloseJob("hard", s)
              [] store[s] = "soft"   -> DecideJob("soft", s, posn[s])
              [] store[s] = "active" -> DecideJob("cycle", s, posn[s]))
  /\ UNCHANGED <<status, store, running, posn, opened, booked, failures, pass, faults>>

\* get_position fails.
PositionUnread(s) ==
  /\ s \in running
  /\ op[s] = Idle
  /\ store[s] \in {"active", "soft"}
  /\ Fault
  /\ Fail(s, "cycle", s)
  /\ UNCHANGED <<status, store, running, posn, opened, booked, pass>>

\* The decision maker fails.
DecisionFails(s) ==
  /\ op[s].at = "decide"
  /\ op[s].why = "cycle"
  /\ Fail(s, "cycle", s)
  /\ UNCHANGED <<status, store, running, posn, opened, booked, pass, faults>>

\* decide_action on the position read before the decision. A decision below
\* the confidence floor is one that keeps the position.
Decide(s) ==
  /\ op[s].at = "decide"
  /\ \E target \in IF op[s].why = "soft" THEN {0} ELSE Directions \cup {0} :
       \/ /\ target = op[s].cur
          /\ Succeed(s)
       \/ /\ target # op[s].cur
          /\ op[s].cur = 0 => opened[s] < MaxOpens
          /\ Job(s, ActJob(op[s], target))
          /\ UNCHANGED failures
  /\ UNCHANGED <<status, store, running, posn, opened, booked, pass, faults>>

-----------------------------------------------------------------------------
(* MockExecutionAdapter.                                                   *)

Insert(s, dir) ==
  /\ posn[s] = 0
  /\ opened[s] < MaxOpens
  /\ posn' = [posn EXCEPT ![s] = dir]
  /\ opened' = [opened EXCEPT ![s] = @ + 1]

\* open: nothing is left to trade with, or the INSERT violates the primary
\* key (a session has one position) or takes effect; its answer may be lost.
Open(a) ==
  /\ op[a].at = "open"
  /\ LET s == op[a].s IN
       \/ Insert(s, op[a].dir) /\ Succeed(a) /\ UNCHANGED faults
       \/ Fail(a, op[a].why, s) /\ UNCHANGED <<posn, opened, faults>>
       \/ Insert(s, op[a].dir) /\ Fail(a, op[a].why, s) /\ Fault
  /\ UNCHANGED <<status, store, running, booked, pass>>

\* close reads the position; without one there is nothing to do.
CloseRead(a) ==
  /\ op[a].at = "close"
  /\ \/ /\ posn[op[a].s] # 0
        /\ Goto(a, "commit")
        /\ UNCHANGED failures
     \/ /\ posn[op[a].s] = 0
        /\ Closed(a)
  /\ UNCHANGED <<status, store, running, posn, opened, booked, pass, faults>>

\* Faulty variant: the trade is recorded after the transaction.
BookOutside(s) ==
  /\ posn' = [posn EXCEPT ![s] = 0]
  /\ \/ booked' = [booked EXCEPT ![s] = @ + 1]
     \/ faults > 0 /\ booked' = booked

\* The transaction credits the wallet, deletes the row (if it is still there)
\* and records the trade.
Book(s) ==
  /\ posn' = [posn EXCEPT ![s] = 0]
  /\ booked' = [booked EXCEPT ![s] = @ + 1]

CloseCommit(a) ==
  /\ op[a].at = "commit"
  /\ LET s == op[a].s IN
       \/ Book(s) /\ Closed(a) /\ UNCHANGED faults
       \/ Book(s) /\ Fail(a, op[a].why, s) /\ Fault    \* the answer is lost
  /\ UNCHANGED <<status, store, running, opened, pass>>

\* A query of open or close fails, or the transaction is rolled back.
QueryFails(a) ==
  /\ op[a].at \in {"open", "close", "commit"}
  /\ Fault
  /\ Fail(a, op[a].why, op[a].s)
  /\ UNCHANGED <<status, store, running, posn, opened, booked, pass>>

\* mark_closed; its failure is only logged.
Mark(a) ==
  /\ op[a].at = "mark"
  /\ Job(a, Idle)
  /\ \/ status' = [status EXCEPT ![op[a].s] = "closed"] /\ UNCHANGED faults
     \/ UNCHANGED status /\ Fault
  /\ UNCHANGED <<store, running, posn, opened, booked, failures, pass>>

-----------------------------------------------------------------------------
(* run_reconcile_cycle over one snapshot of the store.                     *)

PassBegin ==
  /\ pass.at = "idle"
  /\ pass' = [at   |-> "sweep",
              todo |-> {s \in Session : store[s] = "hard"},
              next |-> {s \in Session : store[s] \in {"active", "soft"}}]
  /\ UNCHANGED <<status, store, running, posn, opened, booked, failures, op, faults>>

\* dispatch_hard_closes; without a price the session is left for the next pass.
PassSweep ==
  /\ pass.at = "sweep"
  /\ op[Loop] = Idle
  /\ \/ /\ pass.todo = {}
        /\ pass' = [at |-> "scan", todo |-> pass.next, next |-> {}]
        /\ UNCHANGED op
     \/ \E s \in pass.todo :
          /\ pass' = [pass EXCEPT !.todo = @ \ {s}]
          /\ \/ UNCHANGED op
             \/ Job(Loop, CloseJob("sweep", s))
  /\ UNCHANGED <<status, store, running, posn, opened, booked, failures, faults>>

\* breached_stop_losses: an open position may have reached its stop-loss.
PassScan ==
  /\ pass.at = "scan"
  /\ \/ pass.todo = {} /\ pass' = [at |-> "stop", todo |-> pass.next, next |-> {}]
     \/ \E s \in pass.todo :
          \/ pass' = [pass EXCEPT !.todo = @ \ {s}]
          \/ /\ posn[s] # 0
             /\ pass' = [at |-> "scan", todo |-> pass.todo \ {s}, next |-> pass.next \cup {s}]
  /\ UNCHANGED <<status, store, running, posn, opened, booked, failures, op, faults>>

\* dispatch_stop_losses.
PassStop ==
  /\ pass.at = "stop"
  /\ op[Loop] = Idle
  /\ \/ pass.todo = {} /\ pass' = NoPass /\ UNCHANGED op
     \/ \E s \in pass.todo :
          /\ pass' = [pass EXCEPT !.todo = @ \ {s}]
          /\ Job(Loop, CloseJob("stop", s))
  /\ UNCHANGED <<status, store, running, posn, opened, booked, failures, faults>>

-----------------------------------------------------------------------------
(* The API, the poller, the supervisor and the process.                    *)

Create(s) ==
  /\ status[s] = "none"
  /\ status' = [status EXCEPT ![s] = "active"]
  /\ UNCHANGED <<store, running, posn, opened, booked, failures, op, pass, faults>>

RequestClose(s) ==
  /\ \/ status[s] = "active" /\ status' = [status EXCEPT ![s] = "soft"]
     \/ status[s] \in {"active", "soft"} /\ status' = [status EXCEPT ![s] = "hard"]
  /\ UNCHANGED <<store, running, posn, opened, booked, failures, op, pass, faults>>

\* Faulty variant: closed sessions are polled too.
PollAll ==
  /\ store' = status
  /\ UNCHANGED <<status, running, posn, opened, booked, failures, op, pass, faults>>

Poll ==
  /\ store' = [s \in Session |-> IF status[s] = "closed" THEN "none" ELSE status[s]]
  /\ UNCHANGED <<status, running, posn, opened, booked, failures, op, pass, faults>>

\* The supervisor starts the tasks of new sessions and aborts those of
\* sessions that are gone, wherever they are.
Supervise ==
  /\ running' = {s \in Session : store[s] # "none"}
  /\ op' = [a \in Actor |-> IF a \in running \ running' THEN Idle ELSE op[a]]
  /\ UNCHANGED <<status, store, posn, opened, booked, failures, pass, faults>>

\* A session's decision frequency was edited: its task is aborted and restarted.
Restart(s) ==
  /\ s \in running
  /\ op[s] # Idle
  /\ Fault
  /\ Job(s, Idle)
  /\ UNCHANGED <<status, store, running, posn, opened, booked, failures, pass>>

Crash ==
  /\ Fault
  /\ store' = [s \in Session |-> "none"]
  /\ running' = {}
  /\ failures' = 0
  /\ op' = [a \in Actor |-> Idle]
  /\ pass' = NoPass
  /\ UNCHANGED <<status, posn, opened, booked>>

Task(s) == Tick(s) \/ PositionUnread(s) \/ DecisionFails(s) \/ Decide(s)

Operate(a) == Open(a) \/ CloseRead(a) \/ CloseCommit(a) \/ QueryFails(a) \/ Mark(a)

Pass == PassBegin \/ PassSweep \/ PassScan \/ PassStop

Init ==
  /\ status = [s \in Session |-> "none"]
  /\ store = [s \in Session |-> "none"]
  /\ running = {}
  /\ posn = [s \in Session |-> 0]
  /\ opened = [s \in Session |-> 0]
  /\ booked = [s \in Session |-> 0]
  /\ failures = 0
  /\ op = [a \in Actor |-> Idle]
  /\ pass = NoPass
  /\ faults = MaxFaults

Next ==
  \/ \E s \in Session : Task(s) \/ Create(s) \/ RequestClose(s) \/ Restart(s)
  \/ \E a \in Actor : Operate(a)
  \/ Pass \/ Poll \/ Supervise \/ Crash

Spec == Init /\ [][Next]_vars

\* The runtime polls every task and loop, and queries are answered; ticks find
\* market data again and again.
Fairness ==
  /\ \A s \in Session : WF_vars(Task(s))
  /\ \A a \in Actor : WF_vars(Operate(a))
  /\ WF_vars(Pass) /\ WF_vars(Poll) /\ WF_vars(Supervise)

FairSpec == Spec /\ Fairness

-----------------------------------------------------------------------------
(* What mock trading promises.                                             *)

Trading(s) == status[s] \in {"active", "soft", "hard"}
Held(s)    == IF posn[s] = 0 THEN 0 ELSE 1

\* No position disappears without a trade: whatever fails or is aborted, a
\* position that was opened is still there or was credited and recorded.
NothingVanishes == \A s \in Session : opened[s] - Held(s) <= booked[s]

\* "mock and backtest behavior remains fully sequential": a position is
\* credited to its wallet and recorded once.
BookedOnce == \A s \in Session : booked[s] + Held(s) <= opened[s]

\* Only a requested close ends a session; a decision to go flat, a stop-loss
\* and auto-flatten leave it running ("a stop-loss is not a request to end
\* the session").
ClosedOnRequest ==
  [][\A s \in Session :
       status[s] # "closed" /\ status'[s] = "closed" => status[s] \in {"soft", "hard"}]_vars

\* A requested close completes, whatever the decision maker does, across
\* failed queries, aborted tasks and restarts of the engine.
ClosesComplete ==
  \A s \in Session :
    /\ status[s] = "soft" ~> status[s] \in {"hard", "closed"}
    /\ status[s] = "hard" ~> status[s] = "closed"

\* "5 consecutive failures force-flatten the position": once the count is
\* reached, the session's position is flattened unless a cycle succeeds.
AutoFlattens ==
  \A s \in Session :
    (failures = Threshold /\ Trading(s) /\ posn[s] # 0)
      ~> (posn[s] = 0 \/ failures < Threshold \/ ~Trading(s))
=============================================================================
