---------------------------- MODULE LiveExecution ----------------------------
(***************************************************************************)
(* One live wallet and one PERP of the engine, end to end: trading         *)
(* sessions as the API and the poller see them, the decision tasks, the    *)
(* reconcile loop, LiveExecutionAdapter's open, close and reconcile, the   *)
(* Order Attempt they place their orders through (OrderAttempt) and the    *)
(* exchange (Exchange).                                                    *)
(*                                                                         *)
(* ExecutionCoordinator::try_lock admits one operation on a PERP at a      *)
(* time: "op" is that operation, or NoOp while the PERP is unclaimed. The  *)
(* reconcile pass keeps what it read before it claimed the PERP in "pass". *)
(***************************************************************************)
EXTENDS OrderAttempt

CONSTANTS
  Session,    \* trading sessions that may ever be created for this wallet
  Targets,    \* directions the decision maker may ask for: 1 long, -1 short
  Size,       \* a session's order size
  Policy      \* the adapter's DriftPolicy

DriftActions == {"adopt", "resubmit", "flatten", "halt"}

ASSUME LiveAssumption ==
  /\ None \notin Session
  /\ Targets \subseteq {-1, 1}
  /\ Size \in 1..MaxSize
  /\ MaxPos \in 1..MaxSize
  /\ Policy \in [{"missing", "unknown", "mismatch"} -> DriftActions]

VARIABLES
  session,   \* trading_sessions.status, as the database has it
  store,     \* the engine's polled copy of it ("none": not in the store)
  virt,      \* live_positions: each session's signed virtual position
  hold,      \* is the PERP's live_execution_holds row there?
  op,        \* the operation that has claimed the PERP
  pass,      \* the reconcile pass
  booked     \* history: trades recorded for the current virtual position

liveVars  == <<session, store, virt, hold, op, pass, booked>>
vars      == <<attemptVars, liveVars>>

SessionStatus == {"none", "active", "soft", "hard", "closed"}
Directions    == {-1, 1}
Position      == -MaxPos..MaxPos

\* why: what the operation was started for. A decision task runs "cycle",
\* "soft", "hard" and "auto"; the reconcile loop "sweep", "stop" and "drift".
PassWhys == {"sweep", "stop", "drift"}
Whys     == {"none", "cycle", "soft", "hard", "auto"} \cup PassWhys

\* at: the await the operation is in; "o." in open, "c." in close, "d." in
\* apply_drift_action.
Steps == {"idle", "decide", "ok",
          "o.ambiguous", "o.retry", "o.adopt", "o.ensure", "o.place", "o.confirm",
          "c.read", "c.ambiguous", "c.retry", "c.place", "c.confirm",
          "d.ensure", "d.flatten", "d.clear", "d.turn", "d.resubmit", "d.match"}

NoOp == [why |-> "none", at |-> "idle", s |-> None, dir |-> 0, next |-> 0, seen |-> 0]
NoPass == [at |-> "idle", t |-> None, hard |-> FALSE, seen |-> 0]

OperationOK ==
  op \in [why: Whys, at: Steps, s: Session \cup {None}, dir: Directions \cup {0},
          next: Directions \cup {0}, seen: Position]

PassOK ==
  pass \in [at: {"idle", "sweep", "stop", "sync", "found"}, t: Session \cup {None},
            hard: BOOLEAN, seen: Position]

LiveTypeOK ==
  /\ AttemptTypeOK
  /\ session \in [Session -> SessionStatus]
  /\ store \in [Session -> SessionStatus \ {"closed"}]
  /\ virt \in [Session -> Position]
  /\ hold \in BOOLEAN
  /\ OperationOK /\ PassOK
  /\ booked \in [Session -> Nat]

Dir(p) == IF p > 0 THEN 1 ELSE IF p < 0 THEN -1 ELSE 0

\* Faulty variant: the reduce-only flag is dropped.
AnyOrder(dir, n, reduce, basis) == [buy |-> dir = 1, size |-> n, reduce |-> FALSE, basis |-> basis]

Order(dir, n, reduce, basis) == [buy |-> dir = 1, size |-> n, reduce |-> reduce, basis |-> basis]

-----------------------------------------------------------------------------
(* Operations: how one starts, waits for a helper and ends.                *)

lowerVars == <<exchangeVars, row, mem, reply, unknown, late>>

Returned(at) == op.at = at /\ call.at = "done"

\* The operation enters helper proc and waits for it at step at.
Await(proc, t, at) ==
  /\ Invoke(proc, t)
  /\ op' = [op EXCEPT !.at = at]

Proceed(at) == call' = NoCall /\ op' = [op EXCEPT !.at = at]
End         == call' = NoCall /\ op' = NoOp

SetVirt(s, p) ==
  /\ virt' = [virt EXCEPT ![s] = p]
  /\ booked' = IF p = 0 THEN [booked EXCEPT ![s] = 0] ELSE booked

EnterClose(s, why, next) ==
  /\ op' = [NoOp EXCEPT !.why = why, !.s = s, !.next = next, !.at = "c.read"]
  /\ call' = NoCall

EnterOpen(s, why, dir) ==
  /\ op' = [NoOp EXCEPT !.why = why, !.s = s, !.dir = dir, !.at = "o.ambiguous"]
  /\ Invoke("ambiguous", NoTerms)

\* A failed decision cycle may be the fifth in a row: auto_flatten.
Fail ==
  \/ End
  \/ op.why \in {"cycle", "soft"} /\ EnterClose(op.s, "auto", 0)

\* The operation's next read or write fails before it took effect.
OperationFails ==
  /\ op.at \notin {"idle", "ok"}
  /\ Free
  /\ Fault
  /\ Fail
  /\ UNCHANGED <<lowerVars, session, store, virt, hold, pass, booked>>

\* A write of the virtual position is the last thing open and close do; its
\* acknowledgement may be lost.
Commit(s, p) ==
  /\ SetVirt(s, p)
  /\ \/ Proceed("ok") /\ UNCHANGED faults
     \/ Fault /\ Fail

\* The operation succeeded: CloseThenOpen goes on to open, a closing session
\* is marked closed (if that write succeeds).
Finish ==
  /\ op.at = "ok"
  /\ IF op.next # 0
       THEN EnterOpen(op.s, op.why, op.next) /\ UNCHANGED <<session, faults>>
       ELSE /\ End
            /\ IF op.why \in {"soft", "hard", "sweep"}
                 THEN \/ /\ session' = [session EXCEPT ![op.s] = "closed"]
                         /\ UNCHANGED faults
                      \/ UNCHANGED session /\ Fault
                 ELSE UNCHANGED <<session, faults>>
  /\ UNCHANGED <<lowerVars, store, virt, hold, pass, booked>>

-----------------------------------------------------------------------------
(* The decision task: run_decision_cycle.                                  *)

\* A tick claims the PERP and reads the session from the store. A hard
\* close goes straight to close.
BeginCycle(s) ==
  /\ store[s] # "none"
  /\ op = NoOp
  /\ \/ /\ store[s] = "hard"
        /\ EnterClose(s, "hard", 0)
     \/ /\ store[s] # "hard"
        /\ op' = [NoOp EXCEPT !.why = IF store[s] = "soft" THEN "soft" ELSE "cycle",
                              !.s = s, !.at = "decide"]
        /\ call' = NoCall
  /\ UNCHANGED <<lowerVars, faults, session, store, virt, hold, pass, booked>>

\* Faulty variant: the hold is not looked at.
Matches(s) == pos = virt[s]

\* What live execution checks between the decision and the order.
StillApplies(s) == ~hold /\ pos = virt[s]

\* decide_action, the halt and position checks, and apply_action. A soft
\* close decides flat; a decision that is held, stale or short of data is
\* dropped; one below the confidence floor keeps the position.
Decide ==
  /\ op.at = "decide"
  /\ LET cur == Dir(virt[op.s]) IN
       \/ End
       \/ op.why = "cycle" /\ Proceed("ok")
       \/ op.why = "soft" /\ cur = 0 /\ Proceed("ok")
       \/ \E target \in IF op.why = "soft" THEN {0} ELSE Targets \cup {0} :
            /\ target # cur
            /\ StillApplies(op.s)
            /\ IF cur = 0 THEN EnterOpen(op.s, op.why, target)
                          ELSE EnterClose(op.s, op.why, target)
  /\ UNCHANGED <<lowerVars, faults, session, store, virt, hold, pass, booked>>

-----------------------------------------------------------------------------
(* LiveExecutionAdapter::open.                                             *)

\* An attempt is left: send it again. None is left: adopt a position of the
\* wanted direction, refuse the opposite one, and go on when flat.
OpenAsked ==
  /\ Returned("o.ambiguous")
  /\ \/ call.res = "yes" /\ Await("retry", NoTerms, "o.retry")
     \/ call.res = "no" /\ pos = 0 /\ Await("ensure", NoTerms, "o.ensure")
     \/ call.res = "no" /\ Dir(pos) = -op.dir /\ Fail
     \/ /\ call.res = "no"
        /\ Dir(pos) = op.dir
        /\ Invoke("clear", NoTerms)
        /\ op' = [op EXCEPT !.at = "o.adopt", !.seen = pos]
  /\ UNCHANGED <<lowerVars, faults, session, store, virt, hold, pass, booked>>

OpenRetried ==
  /\ Returned("o.retry")
  /\ \/ call.res = "err" /\ Fail
     \/ call.res # "err" /\ Await("ensure", NoTerms, "o.ensure")
  /\ UNCHANGED <<lowerVars, faults, session, store, virt, hold, pass, booked>>

\* The order is clamped to what the account can trade.
OpenEnsured ==
  /\ Returned("o.ensure")
  /\ \/ Fail
     \/ /\ call.res = "ok"
        /\ \E n \in 1..Size : Await("place", Order(op.dir, n, FALSE, "mid"), "o.place")
  /\ UNCHANGED <<lowerVars, faults, session, store, virt, hold, pass, booked>>

OpenPlaced ==
  /\ Returned("o.place")
  /\ \/ (call.res = "err" \/ pos = 0) /\ Fail
     \/ /\ call.res # "err"
        /\ pos # 0
        /\ Invoke("confirm", NoTerms)
        /\ op' = [op EXCEPT !.at = "o.confirm", !.seen = pos]
  /\ UNCHANGED <<lowerVars, faults, session, store, virt, hold, pass, booked>>

OpenConfirmed ==
  /\ Returned("o.adopt") \/ Returned("o.confirm")
  /\ \/ /\ (call.res = "err" \/ Dir(op.seen) # op.dir)
        /\ Fail
        /\ UNCHANGED <<faults, virt, booked>>
     \/ /\ call.res # "err"
        /\ Dir(op.seen) = op.dir
        /\ Commit(op.s, op.seen)
  /\ UNCHANGED <<lowerVars, session, store, hold, pass>>

-----------------------------------------------------------------------------
(* LiveExecutionAdapter::close.                                            *)

\* Faulty variant: nothing to close is an error.
CloseReadStrict ==
  /\ op.at = "c.read"
  /\ IF virt[op.s] = 0 THEN End ELSE Await("ambiguous", NoTerms, "c.ambiguous")
  /\ UNCHANGED <<lowerVars, faults, session, store, virt, hold, pass, booked>>

\* The virtual position is read; without one there is nothing to do.
CloseRead ==
  /\ op.at = "c.read"
  /\ IF virt[op.s] = 0 THEN Proceed("ok") ELSE Await("ambiguous", NoTerms, "c.ambiguous")
  /\ UNCHANGED <<lowerVars, faults, session, store, virt, hold, pass, booked>>

CloseAsked ==
  /\ Returned("c.ambiguous")
  /\ LET v == virt[op.s] IN
       \/ /\ call.res = "yes"
          /\ Await("retry", NoTerms, "c.retry")
          /\ UNCHANGED <<faults, virt, booked>>
       \/ /\ call.res = "no"
          /\ pos = 0
          /\ Commit(op.s, 0)
       \/ /\ call.res = "no"
          /\ Dir(pos) = -Dir(v)
          /\ Fail
          /\ UNCHANGED <<faults, virt, booked>>
       \/ /\ call.res = "no"
          /\ Dir(pos) = Dir(v)
          /\ Await("place", Order(-Dir(v), Abs(v), TRUE, "mid"), "c.place")
          /\ UNCHANGED <<faults, virt, booked>>
  /\ UNCHANGED <<lowerVars, session, store, hold, pass>>

\* Faulty variant: the re-sent close is booked as well.
CloseRetriedBooked ==
  /\ Returned("c.retry")
  /\ IF call.res # "err" /\ pos = 0
       THEN /\ Await("confirm", NoTerms, "c.confirm")
            /\ booked' = [booked EXCEPT ![op.s] = @ + 1]
       ELSE Fail /\ UNCHANGED booked
  /\ UNCHANGED <<lowerVars, faults, session, store, virt, hold, pass>>

\* Whatever was sent again, only a flat exchange position ends the close;
\* no trade is recorded for it.
CloseRetried ==
  /\ Returned("c.retry")
  /\ IF call.res # "err" /\ pos = 0 THEN Await("confirm", NoTerms, "c.confirm") ELSE Fail
  /\ UNCHANGED <<lowerVars, faults, session, store, virt, hold, pass, booked>>

\* The close is booked at its fill price once the exchange is flat.
ClosePlaced ==
  /\ Returned("c.place")
  /\ \/ /\ (call.res \in {"err", "unpriced"} \/ pos # 0)
        /\ Fail
        /\ UNCHANGED <<faults, booked>>
     \/ /\ call.res = "ok"
        /\ pos = 0
        /\ booked' = [booked EXCEPT ![op.s] = @ + 1]
        /\ \/ Await("confirm", NoTerms, "c.confirm") /\ UNCHANGED faults
           \/ Fault /\ Fail
  /\ UNCHANGED <<lowerVars, session, store, virt, hold, pass>>

\* Faulty variant: the virtual position is not deleted.
CloseKeepsPosition ==
  /\ Returned("c.confirm")
  /\ IF call.res = "err" THEN Fail ELSE Proceed("ok")
  /\ UNCHANGED <<lowerVars, faults, session, store, virt, hold, pass, booked>>

CloseConfirmed ==
  /\ Returned("c.confirm")
  /\ \/ call.res = "err" /\ Fail /\ UNCHANGED <<faults, virt, booked>>
     \/ call.res # "err" /\ Commit(op.s, 0)
  /\ UNCHANGED <<lowerVars, session, store, hold, pass>>

-----------------------------------------------------------------------------
(* The reconcile loop: run_reconcile_cycle over one snapshot of the store. *)
(* It skips whatever is claimed and waits for the operations it starts.    *)

PassWaits == op.why \in PassWhys

PassBegin ==
  /\ pass.at = "idle"
  /\ ~PassWaits
  /\ LET live == {s \in Session : store[s] # "none"}
         t    == IF live = {} THEN None ELSE CHOOSE s \in live : TRUE
     IN  pass' = [at |-> "sweep", t |-> t, hard |-> t # None /\ store[t] = "hard", seen |-> 0]
  /\ UNCHANGED <<attemptVars, session, store, virt, hold, op, booked>>

\* dispatch_hard_closes.
PassSweep ==
  /\ pass.at = "sweep"
  /\ pass' = [pass EXCEPT !.at = "stop"]
  /\ IF pass.hard /\ op = NoOp
       THEN EnterClose(pass.t, "sweep", 0)
       ELSE UNCHANGED <<op, call>>
  /\ UNCHANGED <<lowerVars, faults, session, store, virt, hold, booked>>

\* dispatch_stop_losses: any open position may have breached its stop-loss.
PassStop ==
  /\ pass.at = "stop"
  /\ ~PassWaits
  /\ pass' = [pass EXCEPT !.at = "sync"]
  /\ \/ UNCHANGED <<op, call>>
     \/ /\ pass.t # None /\ ~pass.hard
        /\ virt[pass.t] # 0
        /\ op = NoOp
        /\ EnterClose(pass.t, "stop", 0)
  /\ UNCHANGED <<lowerVars, faults, session, store, virt, hold, booked>>

Drift(s, seen) == [NoOp EXCEPT !.why = "drift", !.s = s, !.seen = seen]

\* reconcile's target: its positions are read, then the attempt is resolved.
\* A claimed PERP skips the wallet.
PassSync ==
  /\ pass.at = "sync"
  /\ pass.t # None
  /\ ~PassWaits
  /\ pass' = NoPass
  /\ \/ op # NoOp /\ UNCHANGED <<op, call, faults>>
     \/ op = NoOp /\ UNCHANGED <<op, call>> /\ Fault     \* a read fails
     \/ /\ op = NoOp
        /\ op' = [Drift(pass.t, pos) EXCEPT !.at = "d.ensure"]
        /\ Invoke("ensure", NoTerms)
        /\ UNCHANGED faults
  /\ UNCHANGED <<lowerVars, session, store, virt, hold, booked>>

\* No target: whatever the exchange reports is a position nobody accounts
\* for. It reports none, or the read fails, or it reports one.
PassLook ==
  /\ pass.at = "sync"
  /\ pass.t = None
  /\ \/ pass' = NoPass
     \/ pos # 0 /\ pass' = [pass EXCEPT !.at = "found", !.seen = pos]
  /\ UNCHANGED <<attemptVars, session, store, virt, hold, op, booked>>

\* Faulty variant: the order runs in the position's own direction.
Double(p) == Order(Dir(p), Abs(p), TRUE, "entry")

\* The order that takes position p to flat, priced from its entry.
Flat(p) == Order(-Dir(p), Abs(p), TRUE, "entry")

\* apply_drift_action(UnknownOnExchange, action, None, Some(seen)).
PassFound ==
  /\ pass.at = "found"
  /\ pass' = NoPass
  /\ \/ /\ (op # NoOp \/ Policy["unknown"] \in {"adopt", "resubmit"})
        /\ UNCHANGED <<op, call, hold>>
     \/ /\ op = NoOp
        /\ Policy["unknown"] = "halt"
        /\ hold' = TRUE
        /\ UNCHANGED <<op, call>>
     \/ /\ op = NoOp
        /\ Policy["unknown"] = "flatten"
        /\ op' = [Drift(None, pass.seen) EXCEPT !.at = "d.flatten"]
        /\ Invoke("place", Flat(pass.seen))
        /\ UNCHANGED hold
  /\ UNCHANGED <<lowerVars, faults, session, store, virt, booked>>

-----------------------------------------------------------------------------
(* apply_drift_action for a session's own drift.                           *)

\* resubmit_to_match: what it places first for target v.
Resubmit(v) ==
  \/ /\ pos = 0
     /\ Await("place", Order(Dir(v), Abs(v), FALSE, "entry"), "d.resubmit")
  \/ /\ Dir(pos) = -Dir(v)
     /\ Await("place", Flat(pos), "d.turn")
  \/ /\ Dir(pos) = Dir(v)
     /\ pos # v
     /\ Await("place", Order(IF Abs(v) > Abs(pos) THEN Dir(v) ELSE -Dir(v),
                             Abs(v - pos), Abs(v) < Abs(pos), "entry"), "d.resubmit")
  \/ pos = v /\ Await("confirm", NoTerms, "d.match")

DriftEnsured ==
  /\ Returned("d.ensure")
  /\ LET v      == virt[op.s]
         action == Policy[IF op.seen = 0 THEN "missing" ELSE "mismatch"]
     IN  \/ /\ (call.res = "err" \/ op.seen = v \/ (action = "resubmit" /\ v = 0))
            /\ End
            /\ UNCHANGED <<virt, booked, hold>>
         \/ /\ call.res = "ok" /\ op.seen # v
            /\ \/ /\ action = "halt"
                  /\ End /\ hold' = TRUE
                  /\ UNCHANGED <<virt, booked>>
               \/ /\ action = "adopt"
                  /\ End /\ SetVirt(op.s, op.seen)
                  /\ UNCHANGED hold
               \/ /\ action = "flatten"
                  /\ IF op.seen = 0 THEN Await("confirm", NoTerms, "d.clear")
                                    ELSE Await("place", Flat(op.seen), "d.flatten")
                  /\ UNCHANGED <<virt, booked, hold>>
               \/ /\ action = "resubmit" /\ v # 0
                  /\ Resubmit(v)
                  /\ UNCHANGED <<virt, booked, hold>>
  /\ UNCHANGED <<lowerVars, faults, session, store, pass>>

Flattened ==
  /\ Returned("d.flatten")
  /\ IF call.res # "err" /\ pos = 0 THEN Await("confirm", NoTerms, "d.clear") ELSE End
  /\ UNCHANGED <<lowerVars, faults, session, store, virt, hold, pass, booked>>

FlatConfirmed ==
  /\ Returned("d.clear")
  /\ End
  /\ IF call.res # "err" /\ op.s # None THEN SetVirt(op.s, 0) ELSE UNCHANGED <<virt, booked>>
  /\ UNCHANGED <<lowerVars, faults, session, store, hold, pass>>

\* The opposite position was flattened: now open the target.
Turned ==
  /\ Returned("d.turn")
  /\ LET v == virt[op.s] IN
       IF call.res = "err"
         THEN End
         ELSE /\ Invoke("place", Order(Dir(v), Abs(v), FALSE, "entry"))
              /\ op' = [op EXCEPT !.at = "d.resubmit", !.dir = Dir(v)]
  /\ UNCHANGED <<lowerVars, faults, session, store, virt, hold, pass, booked>>

Resubmitted ==
  /\ Returned("d.resubmit")
  /\ IF call.res # "err" /\ pos = virt[op.s] THEN Await("confirm", NoTerms, "d.match") ELSE End
  /\ UNCHANGED <<lowerVars, faults, session, store, virt, hold, pass, booked>>

\* The confirmed position is written; it is the one virtual state already has.
MatchConfirmed ==
  /\ Returned("d.match")
  /\ End
  /\ UNCHANGED <<lowerVars, faults, session, store, virt, hold, pass, booked>>

-----------------------------------------------------------------------------
(* The API, the poller and the environment.                                *)

\* Wallet exclusivity: the partial unique index on non-closed sessions.
Create(s) ==
  /\ session[s] = "none"
  /\ \A r \in Session : session[r] \in {"none", "closed"}
  /\ session' = [session EXCEPT ![s] = "active"]
  /\ UNCHANGED <<attemptVars, store, virt, hold, op, pass, booked>>

RequestClose(s) ==
  /\ \/ session[s] = "active" /\ session' = [session EXCEPT ![s] = "soft"]
     \/ session[s] \in {"active", "soft"} /\ session' = [session EXCEPT ![s] = "hard"]
  /\ UNCHANGED <<attemptVars, store, virt, hold, op, pass, booked>>

ReleaseHold ==
  /\ hold
  /\ hold' = FALSE
  /\ UNCHANGED <<attemptVars, session, store, virt, op, pass, booked>>

\* Faulty variant: the poller does not leave closed sessions out.
PolledAll == session

Polled == [s \in Session |-> IF session[s] = "closed" THEN "none" ELSE session[s]]

Poll ==
  /\ store' = Polled
  /\ UNCHANGED <<attemptVars, session, virt, hold, op, pass, booked>>

\* Faulty variant: the attempt was kept in memory only.
CrashForgets ==
  /\ Fault
  /\ row' = None
  /\ mem' = None
  /\ call' = NoCall
  /\ Abandon
  /\ UNCHANGED <<exchangeVars, unknown>>
  /\ store' = Polled
  /\ op' = NoOp
  /\ pass' = NoPass
  /\ UNCHANGED <<session, virt, hold, booked>>

EngineCrash ==
  /\ Crash
  /\ store' = Polled
  /\ op' = NoOp
  /\ pass' = NoPass
  /\ UNCHANGED <<session, virt, hold, booked>>

\* The supervisor aborts a decision task (its session is gone from the store
\* or has a new frequency), or the task is dropped between two helper calls.
TaskAborted ==
  /\ op.why \in Whys \ (PassWhys \cup {"none"})
  /\ Abort \/ (call.at = "idle" /\ Fault /\ UNCHANGED <<lowerVars, call>>)
  /\ op' = NoOp
  /\ UNCHANGED <<session, store, virt, hold, pass, booked>>

Engine ==
  \/ AttemptStep /\ UNCHANGED liveVars
  \/ OperationFails \/ Finish \/ Decide
  \/ OpenAsked \/ OpenRetried \/ OpenEnsured \/ OpenPlaced \/ OpenConfirmed
  \/ CloseRead \/ CloseAsked \/ CloseRetried \/ ClosePlaced \/ CloseConfirmed
  \/ DriftEnsured \/ Flattened \/ FlatConfirmed \/ Turned \/ Resubmitted \/ MatchConfirmed

Reconcile ==
  PassBegin \/ PassSweep \/ PassStop \/ PassSync \/ PassLook \/ PassFound

Environment ==
  \/ (NetworkStep \/ OutsideStep) /\ UNCHANGED liveVars
  \/ \E s \in Session : Create(s) \/ RequestClose(s)
  \/ ReleaseHold

LiveInit ==
  /\ AttemptInit
  /\ session = [s \in Session |-> "none"]
  /\ store = [s \in Session |-> "none"]
  /\ virt = [s \in Session |-> 0]
  /\ hold = FALSE
  /\ op = NoOp
  /\ pass = NoPass
  /\ booked = [s \in Session |-> 0]

LiveNext ==
  \/ Engine \/ Reconcile \/ Environment
  \/ \E s \in Session : BeginCycle(s)
  \/ Poll \/ EngineCrash \/ TaskAborted

LiveSpec == LiveInit /\ [][LiveNext]_vars

-----------------------------------------------------------------------------
(* Fairness: the runtime polls every task and timer, requests are answered, *)
(* a loop that keeps finding the PERP unclaimed claims it, and the exchange *)
(* does not for ever refuse or leave unfilled what is sent to it.           *)

Fairness ==
  /\ WF_vars(Engine)
  /\ WF_vars(Reconcile)
  /\ WF_vars(Poll)
  /\ WF_vars(Deliver /\ UNCHANGED liveVars)
  /\ SF_vars(Deliver /\ reply' = "filled" /\ UNCHANGED liveVars)
  /\ SF_vars(PassSweep /\ op' # op)
  /\ SF_vars(PassSync /\ op' # op)
  /\ SF_vars(PassLook /\ pass'.at = "found")
  /\ SF_vars(PassFound /\ op' # op)

FairSpec == LiveSpec /\ Fairness

-----------------------------------------------------------------------------
(* What live execution promises.                                           *)

\* The composed system drives the Order Attempt only the way OrderAttempt allows.
OrderLayer == AttemptSpec

\* One close is booked once: a virtual position never gets a second row in
\* trade_history, whatever fails between the fill and its deletion.
TradeBookedOnce == \A s \in Session : booked[s] <= 1

\* Opening never stacks on an existing position: the account never holds more
\* than one session's size ("Position State ... no pyramiding").
NoPyramiding == Abs(pos) <= Size

\* A session that is closed keeps no virtual position.
ClosedHasNoPosition == \A s \in Session : session[s] = "closed" => virt[s] = 0

\* "the decision loop refuses to place new orders": while the PERP is held, no
\* order of a decision, a close or a stop-loss, re-sent ones included, opens or
\* grows a position. For policies that do not re-submit: one that does leaves
\* orders that are not reduce-only, and a hard close sends what it finds again.
HeldNeverOpens ==
  [][hold /\ op.why # "drift" /\ book' # book => Abs(pos') <= Abs(pos)]_vars

\* No order placed, or sent again, by a close grows the position. (For policies
\* that do not re-submit, as above.)
CloseNeverGrows ==
  [][op.at \in {"c.ambiguous", "c.retry", "c.place", "c.confirm"} =>
       (book' # book => Abs(pos') <= Abs(pos))]_vars

\* Decision cycles are far apart, so the reconcile pass keeps finding the PERP
\* unclaimed. (A pass that always meets a claimed PERP never reconciles it.)
ReconcileGetsIn ==
  /\ []<>(pass.at = "sync" /\ op = NoOp)
  /\ []<>(pass.at = "found" /\ op = NoOp) \/ <>[](pass.at # "found")

Trading(s) == session[s] \in {"active", "soft", "hard"}

\* Drift the policy repairs: Halt leaves it to the operator, and ReSubmit has
\* no target without a virtual position.
Drifted(s) ==
  LET action == Policy[IF pos = 0 THEN "missing" ELSE "mismatch"] IN
    /\ Trading(s)
    /\ virt[s] # pos
    /\ action # "halt"
    /\ action = "resubmit" => virt[s] # 0

\* Drift between a running session's virtual position and the exchange, from
\* whatever failure, is eventually repaired.
DriftRepaired ==
  ReconcileGetsIn => \A s \in Session : Drifted(s) ~> ~Drifted(s)

\* A hard close is eventually carried out.
HardCloseCompletes ==
  ReconcileGetsIn => \A s \in Session : session[s] = "hard" ~> session[s] = "closed"

\* "it also catches positions no session's task is currently watching": a
\* position that belongs to no session is eventually flattened.
OrphanFlattened ==
  ReconcileGetsIn =>
    (pos # 0 /\ \A s \in Session : ~Trading(s)) ~> (pos = 0 \/ \E s \in Session : Trading(s))
=============================================================================
