------------------------- MODULE LiveExecution_proofs -------------------------
(***************************************************************************)
(* Proofs about LiveExecution, for any sessions, order size, drift policy, *)
(* exchange, network and number of failures: its types, that it implements *)
(* the order layer, what it inherits from that, and that a closed session  *)
(* keeps no virtual position; for orders that are over when the exchange   *)
(* answers and a policy that does not re-submit, that a close is booked    *)
(* once and never grows the position, and that a hold keeps decisions from *)
(* opening one.                                                            *)
(*                                                                         *)
(* A step of the composed system is a step of the order layer because the  *)
(* operation that has claimed the PERP knows where its helper call is      *)
(* (Owner), and because what it orders has a size: a close and a repair    *)
(* have a position to work on (Working, Listed).                           *)
(***************************************************************************)
EXTENDS LiveExecution, OrderAttempt_proofs

\* Between two helper calls there is no call, and an idle call is none.
Between == {"idle", "decide", "ok", "c.read"}

Owner ==
  /\ op.at \in Between => call.at = "idle"
  /\ call.at = "idle" => call = NoCall

\* Whose position an operation works on, and where there must be one.
Working ==
  /\ op.s \in Session \/ (op.at \in {"idle", "d.flatten", "d.clear"} /\ op.why \in {"none", "drift"})
  /\ op.at \in {"c.ambiguous", "d.turn"} => virt[op.s] # 0

Listed ==
  /\ pass.at = "found" => pass.seen # 0
  /\ pass.hard => pass.t \in Session

\* What is known of a session that is asked to close or is closed: the polled
\* copy and the pass's list may be old, but a request is never taken back; only
\* an operation that closes marks a session closed, and only a cycle opens.
Asked  == {"soft", "hard", "closed"}
OpenAt == {"o.ambiguous", "o.retry", "o.adopt", "o.ensure", "o.place", "o.confirm"}

CopyInv ==
  /\ \A s \in Session : store[s] \in {"soft", "hard"} => session[s] \in Asked
  /\ \A s \in Session : session[s] = "closed" => store[s] # "active"
  /\ pass.hard => session[pass.t] \in Asked /\ store[pass.t] # "active"

ClosingInv ==
  /\ op.why \in {"soft", "hard", "sweep"} =>
       /\ session[op.s] \in Asked /\ store[op.s] # "active"
       /\ op.at = "ok" => virt[op.s] = 0
  /\ op.why = "cycle" => session[op.s] # "closed"
  /\ op.at \in OpenAt \/ op.next # 0 => op.why = "cycle"
  /\ op.at = "decide" => op.why \in {"cycle", "soft"}

LiveInv == LiveTypeOK /\ pos \in Position /\ Owner /\ Working /\ Listed

-----------------------------------------------------------------------------
(* Directions, sizes and orders.                                           *)

LEMMA PositionFacts ==
  /\ Position \subseteq Int
  /\ 0 \in Position
  /\ MaxSize \in Nat /\ MaxPos \in Nat /\ MaxPos <= MaxSize
BY ExchangeAssumption, LiveAssumption DEF Position

LEMMA DirTyped ==
  ASSUME NEW p \in Int
  PROVE  /\ Dir(p) \in {-1, 0, 1}
         /\ Dir(p) = 0 <=> p = 0
         /\ Dir(p) = 1 <=> p > 0
         /\ Dir(p) = -1 <=> p < 0
BY DEF Dir

LEMMA OrderTyped ==
  ASSUME NEW d, NEW n \in 1..MaxSize, NEW r \in BOOLEAN, NEW b \in {"mid", "entry"}
  PROVE  Order(d, n, r, b) \in Terms
BY DEF Order, Terms

LEMMA SizeTyped ==
  ASSUME NEW p \in Position, p # 0
  PROVE  Abs(p) \in 1..MaxSize
BY PositionFacts DEF Abs, Position

LEMMA FlatTyped ==
  ASSUME NEW p \in Position, p # 0
  PROVE  Flat(p) \in Terms
BY SizeTyped, OrderTyped DEF Flat

LEMMA GapTyped ==
  ASSUME NEW p \in Position, NEW v \in Position, Dir(p) = Dir(v), p # v
  PROVE  Abs(v - p) \in 1..MaxSize
<1>1. CASE p > 0 /\ v > 0
  BY <1>1, PositionFacts DEF Abs, Position
<1>2. CASE p < 0 /\ v < 0
  BY <1>2, PositionFacts DEF Abs, Position
<1>3. CASE p = 0 /\ v = 0
  BY <1>3
<1> QED
  BY <1>1, <1>2, <1>3, DirTyped, PositionFacts

-----------------------------------------------------------------------------
(* The operation's side of a helper call is the caller's step.             *)

Quietly == UNCHANGED lowerVars /\ (UNCHANGED faults \/ Fault)

LEMMA EnteringIsCaller ==
  ASSUME Quietly, NEW p \in Procs \ {"none"}, NEW t \in Terms, Invoke(p, t)
  PROVE  CallerStep /\ call'.at \notin {"idle", "done"}
<1>1. CallerStep
  BY DEF CallerStep, Quietly, lowerVars
<1>2. call'.at = Entry(p) /\ Entry(p) \notin {"idle", "done"}
  BY DEF Invoke, Entry, Procs
<1> QED
  BY <1>1, <1>2

LEMMA LeavingIsCaller ==
  ASSUME Quietly, Free, call' = NoCall
  PROVE  CallerStep
BY DEF CallerStep, Quietly, lowerVars

\* A step of an operation enters a helper, or leaves one or starts without one.
Enters == CallerStep /\ call'.at # "idle" /\ op'.at \notin Between
Leaves == CallerStep /\ call' = NoCall

LEMMA AwaitEnters ==
  ASSUME OperationOK, Quietly, NEW p \in Procs \ {"none"}, NEW t \in Terms,
         NEW a \in Steps \ Between, Await(p, t, a)
  PROVE  Enters
BY EnteringIsCaller DEF Await, Enters, OperationOK

LEMMA FailEnds == Fail => call' = NoCall
BY DEF Fail, End, EnterClose

LEMMA CommitEnds ==
  ASSUME NEW s, NEW p, Commit(s, p)
  PROVE  call' = NoCall /\ (UNCHANGED faults \/ Fault)
BY FailEnds DEF Commit, Proceed

Helpers == {"retry", "confirm", "ensure", "ambiguous", "clear"}

\* A helper that takes no order.
LEMMA HelperEnters ==
  ASSUME OperationOK, Quietly, NEW p \in Helpers, NEW a \in Steps \ Between, Await(p, NoTerms, a)
  PROVE  Enters
BY AwaitEnters, NoCallTyped DEF Helpers, Procs

LEMMA OpenDrives ==
  ASSUME LiveInv, OpenAsked \/ OpenRetried \/ OpenEnsured \/ OpenPlaced \/ OpenConfirmed
  PROVE  Enters \/ Leaves
<1> USE DEF LiveInv, LiveTypeOK
<1>1. Quietly
  BY CommitEnds DEF OpenAsked, OpenRetried, OpenEnsured, OpenPlaced, OpenConfirmed, Quietly
<1>2. Free
  BY DEF OpenAsked, OpenRetried, OpenEnsured, OpenPlaced, OpenConfirmed, Returned, Free
<1>3. ASSUME call' = NoCall PROVE Leaves
  BY <1>1, <1>2, <1>3, LeavingIsCaller DEF Leaves
<1>4. {"o.retry", "o.ensure", "o.place", "o.adopt", "o.confirm"} \subseteq Steps \ Between
  BY DEF Steps, Between
<1>5. ASSUME NEW p \in Helpers, NEW a \in Steps \ Between, NEW q,
             Invoke(p, NoTerms), op' = [op EXCEPT !.at = a, !.seen = q]
      PROVE  Enters
  BY <1>1, <1>5, EnteringIsCaller, NoCallTyped DEF Enters, OperationOK, Helpers, Procs
<1>6. CASE OpenAsked
  BY <1>1, <1>3, <1>4, <1>5, <1>6, FailEnds, HelperEnters DEF OpenAsked, Helpers
<1>7. CASE OpenRetried
  BY <1>1, <1>3, <1>4, <1>7, FailEnds, HelperEnters DEF OpenRetried, Helpers
<1>8. CASE OpenEnsured
  <2>1. ASSUME NEW n \in 1..Size PROVE Order(op.dir, n, FALSE, "mid") \in Terms
    <3>1. n \in 1..MaxSize
      BY LiveAssumption, PositionFacts
    <3> QED
      BY <3>1, OrderTyped
  <2>2. "place" \in Procs \ {"none"}
    BY DEF Procs
  <2> QED
    BY <1>1, <1>3, <1>4, <1>8, <2>1, <2>2, FailEnds, AwaitEnters DEF OpenEnsured
<1>9. CASE OpenPlaced
  BY <1>1, <1>3, <1>4, <1>5, <1>9, FailEnds DEF OpenPlaced, Helpers
<1>10. CASE OpenConfirmed
  BY <1>3, <1>10, FailEnds, CommitEnds DEF OpenConfirmed
<1> QED
  BY <1>6, <1>7, <1>8, <1>9, <1>10

LEMMA CloseDrives ==
  ASSUME LiveInv, CloseRead \/ CloseAsked \/ CloseRetried \/ ClosePlaced \/ CloseConfirmed
  PROVE  Enters \/ Leaves
<1> USE DEF LiveInv, LiveTypeOK
<1>1. Quietly
  BY CommitEnds DEF CloseRead, CloseAsked, CloseRetried, ClosePlaced, CloseConfirmed, Quietly
<1>2. Free
  BY DEF CloseRead, CloseAsked, CloseRetried, ClosePlaced, CloseConfirmed, Returned, Free, Owner, Between
<1>3. ASSUME call' = NoCall PROVE Leaves
  BY <1>1, <1>2, <1>3, LeavingIsCaller DEF Leaves
<1>4. {"c.ambiguous", "c.retry", "c.place", "c.confirm"} \subseteq Steps \ Between
  BY DEF Steps, Between
<1>5. CASE CloseRead
  BY <1>1, <1>3, <1>4, <1>5, HelperEnters DEF CloseRead, Proceed, Helpers
<1>6. CASE CloseAsked
  <2> DEFINE v == virt[op.s]
  <2>1. v \in Position /\ v # 0
    BY <1>6 DEF CloseAsked, Returned, Working
  <2>2. Order(-Dir(v), Abs(v), TRUE, "mid") \in Terms
    BY <2>1, SizeTyped, OrderTyped
  <2>3. "place" \in Procs \ {"none"}
    BY DEF Procs
  <2> QED
    BY <1>1, <1>3, <1>4, <1>6, <2>2, <2>3, FailEnds, CommitEnds, HelperEnters, AwaitEnters
    DEF CloseAsked, Helpers
<1>7. CASE CloseRetried
  BY <1>1, <1>3, <1>4, <1>7, FailEnds, HelperEnters DEF CloseRetried, Helpers
<1>8. CASE ClosePlaced
  BY <1>1, <1>3, <1>4, <1>8, FailEnds, HelperEnters DEF ClosePlaced, Helpers
<1>9. CASE CloseConfirmed
  BY <1>3, <1>9, FailEnds, CommitEnds DEF CloseConfirmed, Proceed
<1> QED
  BY <1>5, <1>6, <1>7, <1>8, <1>9

LEMMA ResubmitEnters ==
  ASSUME LiveInv, Quietly, NEW v \in Position, v # 0, Resubmit(v)
  PROVE  Enters
<1> USE DEF LiveInv, LiveTypeOK
<1>1. {"d.resubmit", "d.turn", "d.match"} \subseteq Steps \ Between /\ "place" \in Procs \ {"none"}
  BY DEF Steps, Between, Procs
<1>2. CASE pos = 0 /\ Await("place", Order(Dir(v), Abs(v), FALSE, "entry"), "d.resubmit")
  BY <1>1, <1>2, SizeTyped, OrderTyped, AwaitEnters
<1>3. CASE Dir(pos) = -Dir(v) /\ Await("place", Flat(pos), "d.turn")
  <2>1. pos # 0
    BY <1>3, DirTyped, PositionFacts
  <2> QED
    BY <1>1, <1>3, <2>1, FlatTyped, AwaitEnters
<1>4. CASE /\ Dir(pos) = Dir(v)
           /\ pos # v
           /\ Await("place", Order(IF Abs(v) > Abs(pos) THEN Dir(v) ELSE -Dir(v),
                                   Abs(v - pos), Abs(v) < Abs(pos), "entry"), "d.resubmit")
  <2>1. Order(IF Abs(v) > Abs(pos) THEN Dir(v) ELSE -Dir(v),
              Abs(v - pos), Abs(v) < Abs(pos), "entry") \in Terms
    <3> DEFINE less == Abs(v) < Abs(pos)
    <3>1. Abs(v - pos) \in 1..MaxSize
      BY <1>4, GapTyped
    <3>2. less \in BOOLEAN
      OBVIOUS
    <3> HIDE DEF less
    <3>3. \A d : Order(d, Abs(v - pos), less, "entry") \in Terms
      BY <3>1, <3>2, OrderTyped
    <3> QED
      BY <3>3 DEF less
  <2> QED
    BY <1>1, <1>4, <2>1, AwaitEnters
<1>5. CASE pos = v /\ Await("confirm", NoTerms, "d.match")
  BY <1>1, <1>5, HelperEnters DEF Helpers
<1> QED
  BY <1>2, <1>3, <1>4, <1>5 DEF Resubmit

LEMMA DriftDrives ==
  ASSUME LiveInv,
         DriftEnsured \/ Flattened \/ FlatConfirmed \/ Turned \/ Resubmitted \/ MatchConfirmed
  PROVE  Enters \/ Leaves
<1> USE DEF LiveInv, LiveTypeOK
<1>1. Quietly
  BY DEF DriftEnsured, Flattened, FlatConfirmed, Turned, Resubmitted, MatchConfirmed, Quietly
<1>2. Free
  BY DEF DriftEnsured, Flattened, FlatConfirmed, Turned, Resubmitted, MatchConfirmed, Returned, Free
<1>3. ASSUME call' = NoCall PROVE Leaves
  BY <1>1, <1>2, <1>3, LeavingIsCaller DEF Leaves
<1>4. {"d.clear", "d.flatten", "d.resubmit", "d.match"} \subseteq Steps \ Between
      /\ "place" \in Procs \ {"none"}
  BY DEF Steps, Between, Procs
<1>5. CASE DriftEnsured
  <2>1. virt[op.s] \in Position /\ op.seen \in Position
    BY <1>5 DEF DriftEnsured, Returned, Working, OperationOK
  <2>2. CASE call' = NoCall
    BY <1>3, <2>2
  <2>3. CASE Await("confirm", NoTerms, "d.clear")
    BY <1>1, <1>4, <2>3, HelperEnters DEF Helpers
  <2>4. CASE op.seen # 0 /\ Await("place", Flat(op.seen), "d.flatten")
    BY <1>1, <1>4, <2>1, <2>4, FlatTyped, AwaitEnters
  <2>5. CASE virt[op.s] # 0 /\ Resubmit(virt[op.s])
    BY <1>1, <2>1, <2>5, ResubmitEnters
  <2> QED
    BY <1>5, <2>2, <2>3, <2>4, <2>5 DEF DriftEnsured, End
<1>6. CASE Flattened
  BY <1>1, <1>3, <1>4, <1>6, HelperEnters DEF Flattened, End, Helpers
<1>7. CASE FlatConfirmed \/ MatchConfirmed
  BY <1>3, <1>7 DEF FlatConfirmed, MatchConfirmed, End
<1>8. CASE Turned
  <2> DEFINE v == virt[op.s]
  <2>1. v \in Position /\ v # 0
    BY <1>8 DEF Turned, Returned, Working
  <2>2. Order(Dir(v), Abs(v), FALSE, "entry") \in Terms
    BY <2>1, SizeTyped, OrderTyped
  <2>3. CASE End
    BY <1>3, <2>3 DEF End
  <2>4. CASE /\ Invoke("place", Order(Dir(v), Abs(v), FALSE, "entry"))
             /\ op' = [op EXCEPT !.at = "d.resubmit", !.dir = Dir(v)]
    <3>1. op'.at = "d.resubmit"
      BY <2>4 DEF OperationOK
    <3> QED
      BY <1>1, <1>4, <2>2, <2>4, <3>1, EnteringIsCaller DEF Enters
  <2> QED
    BY <1>8, <2>3, <2>4 DEF Turned
<1>9. CASE Resubmitted
  BY <1>1, <1>3, <1>4, <1>9, HelperEnters DEF Resubmitted, End, Helpers
<1> QED
  BY <1>5, <1>6, <1>7, <1>8, <1>9

LEMMA PassDrives ==
  ASSUME LiveInv, PassSweep \/ PassStop \/ PassSync \/ PassFound
  PROVE  Enters \/ Leaves \/ UNCHANGED <<attemptVars, op>>
<1> USE DEF LiveInv, LiveTypeOK
<1>1. Quietly
  BY DEF PassSweep, PassStop, PassSync, PassFound, Quietly
<1>2. ASSUME op = NoOp PROVE Free /\ call = NoCall
  BY <1>2 DEF NoOp, Owner, Between, Free
<1>3. ASSUME op = NoOp, call' = NoCall PROVE Leaves
  BY <1>1, <1>2, <1>3, LeavingIsCaller DEF Leaves
<1>4. ASSUME UNCHANGED <<op, call, faults>> PROVE UNCHANGED <<attemptVars, op>>
  BY <1>1, <1>4 DEF Quietly, lowerVars, exchangeVars, attemptVars
<1>5. ASSUME NEW s, NEW seen, NEW a \in {"d.ensure", "d.flatten"},
             op' = [Drift(s, seen) EXCEPT !.at = a]
      PROVE  op'.at \notin Between
  BY <1>5 DEF Drift, NoOp, Between
<1>6. CASE PassSweep
  BY <1>3, <1>4, <1>6 DEF PassSweep, EnterClose
<1>7. CASE PassStop
  BY <1>3, <1>4, <1>7 DEF PassStop, EnterClose
<1>8. CASE PassSync
  <2>1. CASE op' = [Drift(pass.t, pos) EXCEPT !.at = "d.ensure"] /\ Invoke("ensure", NoTerms)
    BY <1>1, <1>5, <2>1, EnteringIsCaller, NoCallTyped DEF Enters, Procs
  <2>2. CASE op = NoOp /\ UNCHANGED <<op, call>>
    BY <1>2, <1>3, <2>2
  <2> QED
    BY <1>4, <1>8, <2>1, <2>2 DEF PassSync
<1>9. CASE PassFound
  <2>1. CASE /\ op' = [Drift(None, pass.seen) EXCEPT !.at = "d.flatten"]
             /\ Invoke("place", Flat(pass.seen))
    <3>1. Flat(pass.seen) \in Terms
      BY <1>9, FlatTyped DEF PassFound, Listed, PassOK
    <3> QED
      BY <1>1, <1>5, <2>1, <3>1, EnteringIsCaller DEF Enters, Procs
  <2> QED
    BY <1>4, <1>9, <2>1 DEF PassFound
<1> QED
  BY <1>6, <1>7, <1>8, <1>9

LEMMA TaskDrives ==
  ASSUME LiveInv, OperationFails \/ Finish \/ Decide \/ \E s \in Session : BeginCycle(s)
  PROVE  Enters \/ Leaves
<1> USE DEF LiveInv, LiveTypeOK
<1>1. Quietly
  BY DEF OperationFails, Finish, Decide, BeginCycle, Quietly
<1>2. Free
  <2>1. op.at \in Between => Free
    BY DEF Owner, Free
  <2>2. op = NoOp => op.at \in Between
    BY DEF NoOp, Between
  <2>3. OperationFails => Free
    BY DEF OperationFails
  <2>4. Finish \/ Decide => op.at \in Between
    BY DEF Finish, Decide, Between
  <2>5. (\E s \in Session : BeginCycle(s)) => op = NoOp
    BY DEF BeginCycle
  <2> QED
    BY <2>1, <2>2, <2>3, <2>4, <2>5
<1>3. ASSUME call' = NoCall PROVE Leaves
  BY <1>1, <1>2, <1>3, LeavingIsCaller DEF Leaves
<1>4. ASSUME NEW s, NEW w, NEW d, EnterOpen(s, w, d) PROVE Enters
  <2>1. op'.at \notin Between
    BY <1>4 DEF EnterOpen, NoOp, Between
  <2> QED
    BY <1>1, <1>4, <2>1, EnteringIsCaller, NoCallTyped DEF EnterOpen, Enters, Procs
<1>5. CASE OperationFails
  BY <1>3, <1>5, FailEnds DEF OperationFails
<1>6. CASE Finish
  BY <1>3, <1>4, <1>6 DEF Finish, End
<1>7. CASE Decide
  BY <1>3, <1>4, <1>7 DEF Decide, End, Proceed, EnterClose
<1>8. CASE \E s \in Session : BeginCycle(s)
  BY <1>3, <1>8 DEF BeginCycle, EnterClose
<1> QED
  BY <1>5, <1>6, <1>7, <1>8

\* A step of a helper starts and ends inside a call.
LEMMA HelperStays ==
  ASSUME TypeOK, AttemptStep
  PROVE  call.at # "idle" /\ call'.at # "idle"
<1> USE DEF TypeOK, AttemptTypeOK
<1>1. call.at # "idle"
  BY DEF AttemptStep, PropagateError, Load, Sign, Persist, Remember, Reload, Send, ReplyOk,
         ReplyRejected, TransportError, Lookup, Status, ClearMem, ClearRow, Ask
<1>2. ASSUME NEW l \in Labels, NEW c \in Cloid \cup {None}, l # "idle",
             call' = [call EXCEPT !.at = l, !.id = c]
      PROVE  call'.at # "idle"
  BY <1>2, EnterTyped
<1>3. ASSUME NEW l \in Labels, l # "idle", Goto(l) PROVE call'.at # "idle"
  BY <1>3, GotoTyped
<1>4. ASSUME NEW r \in Results, Return(r) PROVE call'.at # "idle"
  BY <1>4, ReturnTyped
<1>5. {"send", "sign", "status", "clearMem", "clearRow", "remember", "await", "persist"}
        \subseteq Labels \ {"idle"}
  BY DEF Labels
<1>6. {"ok", "err", "unpriced"} \subseteq Results
  BY DEF Results
<1>7. CASE PropagateError \/ Load \/ Reload
  <2>1. (IF mem # None THEN mem ELSE row) \in Cloid \cup {None} /\ row \in Cloid \cup {None}
    OBVIOUS
  <2> QED
    BY <1>2, <1>3, <1>4, <1>5, <1>6, <1>7, <2>1 DEF PropagateError, Load, Reload
<1>8. CASE Sign
  BY <1>2, <1>5, <1>8 DEF Sign
<1>9. CASE Persist \/ Remember \/ Send
  BY <1>3, <1>4, <1>5, <1>6, <1>9 DEF Persist, Remember, Send
<1>10. CASE ReplyOk \/ ReplyRejected \/ TransportError
  BY <1>3, <1>4, <1>5, <1>6, <1>10 DEF ReplyOk, ReplyRejected, TransportError
<1>11. CASE Lookup \/ Status
  BY <1>2, <1>3, <1>5, <1>11, ConfirmedTyped DEF Lookup, Status
<1>12. CASE ClearMem \/ ClearRow
  BY <1>3, <1>5, <1>12, ClearedTyped DEF ClearMem, ClearRow
<1>13. CASE Ask
  BY <1>13, AnswerTyped DEF Ask
<1> QED
  BY <1>7, <1>8, <1>9, <1>10, <1>11, <1>12, <1>13 DEF AttemptStep

\* Every step of the composed system is one of the order layer, or none.
LEMMA StepImplements ==
  ASSUME LiveInv, [LiveNext]_vars
  PROVE  [AttemptNext]_attemptVars
<1>1. CASE Enters \/ Leaves
  BY <1>1 DEF Enters, Leaves, AttemptNext
<1>2. CASE UNCHANGED attemptVars
  BY <1>2
<1>3. CASE Engine
  BY <1>1, <1>3, OpenDrives, CloseDrives, DriftDrives, TaskDrives DEF Engine, AttemptNext
<1>4. CASE Reconcile
  BY <1>1, <1>2, <1>4, PassDrives DEF Reconcile, PassBegin, PassLook
<1>5. CASE Environment
  BY <1>2, <1>5 DEF Environment, Create, RequestClose, ReleaseHold, AttemptNext
<1>6. CASE \E s \in Session : BeginCycle(s)
  BY <1>1, <1>6, TaskDrives
<1>7. CASE Poll \/ EngineCrash
  BY <1>2, <1>7 DEF Poll, EngineCrash, AttemptNext
<1>8. CASE TaskAborted
  <2>1. CASE call.at = "idle" /\ Fault /\ UNCHANGED <<lowerVars, call>>
    <3>1. call' = NoCall /\ Free
      BY <2>1 DEF LiveInv, Owner, Free
    <3> QED
      BY <2>1, <3>1, LeavingIsCaller DEF Quietly, AttemptNext
  <2> QED
    BY <1>8, <2>1 DEF TaskAborted, AttemptNext
<1>9. CASE UNCHANGED vars
  BY <1>9 DEF vars
<1> QED
  BY <1>3, <1>4, <1>5, <1>6, <1>7, <1>8, <1>9 DEF LiveNext

LEMMA OwnerKept ==
  ASSUME LiveInv, [LiveNext]_vars
  PROVE  Owner'
<1> USE DEF Owner
<1>1. CASE Enters
  BY <1>1 DEF Enters
<1>2. CASE Leaves
  BY <1>2 DEF Leaves, NoCall
<1>3. CASE UNCHANGED <<op, call>>
  BY <1>3 DEF LiveInv
<1>4. CASE Engine
  <2>1. CASE AttemptStep /\ UNCHANGED liveVars
    BY <2>1, HelperStays DEF LiveInv, LiveTypeOK, TypeOK, liveVars
  <2> QED
    BY <1>1, <1>2, <1>4, <2>1, OpenDrives, CloseDrives, DriftDrives, TaskDrives DEF Engine
<1>5. CASE Reconcile
  BY <1>1, <1>2, <1>3, <1>5, PassDrives DEF Reconcile, PassBegin, PassLook, attemptVars
<1>6. CASE Environment
  BY <1>3, <1>6 DEF Environment, Create, RequestClose, ReleaseHold, attemptVars, liveVars,
     NetworkStep, Deliver, DeliverLate, Settle, OutsideStep
<1>7. CASE \E s \in Session : BeginCycle(s)
  BY <1>1, <1>2, <1>7, TaskDrives
<1>8. CASE Poll
  BY <1>3, <1>8 DEF Poll, attemptVars
<1>9. CASE EngineCrash
  BY <1>9 DEF EngineCrash, Crash, NoCall
<1>10. CASE TaskAborted
  BY <1>10 DEF TaskAborted, Abort, NoCall, LiveInv
<1>11. CASE UNCHANGED vars
  BY <1>3, <1>11 DEF vars, liveVars, attemptVars
<1> QED
  BY <1>4, <1>5, <1>6, <1>7, <1>8, <1>9, <1>10, <1>11 DEF LiveNext

-----------------------------------------------------------------------------
(* Types, and whose position an operation works on.                        *)

LEMMA PosKept ==
  ASSUME LiveInv, [AttemptNext]_attemptVars
  PROVE  pos' \in Position
<1>1. pos \in Position
  BY DEF LiveInv
<1>2. ASSUME NEW c, NEW q \in -MaxSize..MaxSize, Execute(c, q) PROVE pos' \in Position
  <2>1. pos + q \in Int /\ Abs(pos + q) <= MaxPos
    BY <1>1, <1>2, PositionFacts DEF Execute, Fills
  <2> QED
    BY <1>2, <2>1, PositionFacts DEF Execute, Abs, Position
<1>3. CASE Deliver
  BY <1>1, <1>2, <1>3 DEF Deliver, Acknowledge
<1>4. CASE DeliverLate
  BY <1>1, <1>2, <1>4 DEF DeliverLate, Acknowledge
<1>5. CASE Settle
  BY <1>2, <1>5 DEF Settle
<1>6. CASE OutsideStep
  BY <1>6, ExchangeAssumption DEF OutsideStep, Outside, Position
<1>7. AttemptStep => UNCHANGED pos
  BY DEF AttemptStep, PropagateError, Load, Sign, Persist, Remember, Reload, Send, ReplyOk,
         ReplyRejected, TransportError, Lookup, Status, ClearMem, ClearRow, Ask, exchangeVars
<1>8. CallerStep \/ Crash \/ Abort \/ UNCHANGED attemptVars => UNCHANGED pos
  BY DEF CallerStep, Crash, Abort, exchangeVars, attemptVars
<1> QED
  BY <1>1, <1>3, <1>4, <1>5, <1>6, <1>7, <1>8 DEF AttemptNext, NetworkStep

LEMMA SetVirtTyped ==
  ASSUME LiveTypeOK, NEW s, NEW p \in Position, SetVirt(s, p)
  PROVE  virt' \in [Session -> Position] /\ booked' \in [Session -> Nat]
BY DEF SetVirt, LiveTypeOK

LEMMA TablesKept ==
  ASSUME LiveInv, [LiveNext]_vars
  PROVE  /\ session' \in [Session -> SessionStatus]
         /\ store' \in [Session -> SessionStatus \ {"closed"}]
         /\ virt' \in [Session -> Position]
         /\ booked' \in [Session -> Nat]
         /\ hold' \in BOOLEAN
<1> USE DEF LiveInv
<1>1. LiveTypeOK
  OBVIOUS
<1>2. ASSUME UNCHANGED <<session, store, virt, hold, booked>>
      PROVE  /\ session' \in [Session -> SessionStatus]
             /\ store' \in [Session -> SessionStatus \ {"closed"}]
             /\ virt' \in [Session -> Position]
             /\ booked' \in [Session -> Nat]
             /\ hold' \in BOOLEAN
  BY <1>2 DEF LiveTypeOK
<1>3. 0 \in Position /\ op.seen \in Position
  BY PositionFacts DEF LiveTypeOK, OperationOK
<1>4. ASSUME NEW s, NEW p, p \in Position, Commit(s, p)
      PROVE  virt' \in [Session -> Position] /\ booked' \in [Session -> Nat]
  BY <1>1, <1>4, SetVirtTyped DEF Commit
<1>5. Polled \in [Session -> SessionStatus \ {"closed"}]
  BY DEF Polled, LiveTypeOK, SessionStatus
<1>6. CASE Engine
  <2>1. CASE AttemptStep /\ UNCHANGED liveVars
    BY <1>2, <2>1 DEF liveVars
  <2>2. CASE OperationFails \/ Decide
    BY <1>2, <2>2 DEF OperationFails, Decide
  <2>3. CASE Finish
    BY <2>3 DEF Finish, LiveTypeOK, SessionStatus
  <2>4. CASE OpenAsked \/ OpenRetried \/ OpenEnsured \/ OpenPlaced
    BY <1>2, <2>4 DEF OpenAsked, OpenRetried, OpenEnsured, OpenPlaced
  <2>5. CASE OpenConfirmed
    BY <1>3, <1>4, <2>5 DEF OpenConfirmed, LiveTypeOK
  <2>6. CASE CloseRead \/ CloseRetried
    BY <1>2, <2>6 DEF CloseRead, CloseRetried
  <2>7. CASE CloseAsked \/ CloseConfirmed
    BY <1>3, <1>4, <2>7 DEF CloseAsked, CloseConfirmed, LiveTypeOK
  <2>8. CASE ClosePlaced
    BY <2>8 DEF ClosePlaced, LiveTypeOK
  <2>9. CASE DriftEnsured
    BY <1>1, <1>3, <2>9, SetVirtTyped DEF DriftEnsured, LiveTypeOK
  <2>10. CASE FlatConfirmed
    BY <1>1, <1>3, <2>10, SetVirtTyped DEF FlatConfirmed, LiveTypeOK
  <2>11. CASE Flattened \/ Turned \/ Resubmitted \/ MatchConfirmed
    BY <1>2, <2>11 DEF Flattened, Turned, Resubmitted, MatchConfirmed
  <2> QED
    BY <1>6, <2>1, <2>2, <2>3, <2>4, <2>5, <2>6, <2>7, <2>8, <2>9, <2>10, <2>11 DEF Engine
<1>7. CASE Reconcile
  <2>1. CASE PassFound
    BY <2>1 DEF PassFound, LiveTypeOK
  <2> QED
    BY <1>2, <1>7, <2>1 DEF Reconcile, PassBegin, PassSweep, PassStop, PassSync, PassLook
<1>8. CASE Environment
  <2>1. ASSUME NEW s \in Session, Create(s) \/ RequestClose(s)
        PROVE  session' \in [Session -> SessionStatus] /\ UNCHANGED <<store, virt, hold, booked>>
    BY <2>1 DEF Create, RequestClose, LiveTypeOK, SessionStatus
  <2>2. CASE ReleaseHold
    BY <2>2 DEF ReleaseHold, LiveTypeOK
  <2> QED
    BY <1>2, <1>8, <2>1, <2>2 DEF Environment, LiveTypeOK, liveVars
<1>9. CASE Poll \/ EngineCrash
  BY <1>5, <1>9 DEF Poll, EngineCrash, LiveTypeOK
<1>10. CASE TaskAborted \/ (\E s \in Session : BeginCycle(s)) \/ UNCHANGED vars
  BY <1>2, <1>10 DEF TaskAborted, BeginCycle, vars, liveVars
<1> QED
  BY <1>6, <1>7, <1>8, <1>9, <1>10 DEF LiveNext

LEMMA EndKept ==
  ASSUME op' = NoOp
  PROVE  OperationOK' /\ Working'
<1>1. 0 \in Position
  BY PositionFacts
<1> QED
  BY <1>1 DEF NoOp, OperationOK, Working, Whys, Steps

\* The operation goes on at another await.
LEMMA AtKept ==
  ASSUME LiveInv, NEW a \in Steps \ {"c.ambiguous", "d.turn"}, NEW q \in Position,
         op.s \in Session \/ a \in {"d.flatten", "d.clear"},
         op' = [op EXCEPT !.at = a] \/ op' = [op EXCEPT !.at = a, !.seen = q]
  PROVE  OperationOK' /\ Working'
BY DEF LiveInv, LiveTypeOK, OperationOK, Working

\* ... at one that there must be a position for.
LEMMA HoldingKept ==
  ASSUME LiveInv, NEW a \in {"c.ambiguous", "d.turn"}, op.s \in Session, virt[op.s] # 0,
         UNCHANGED virt, op' = [op EXCEPT !.at = a]
  PROVE  OperationOK' /\ Working'
<1>1. a \in Steps
  BY DEF Steps
<1> QED
  BY <1>1 DEF LiveInv, LiveTypeOK, OperationOK, Working

LEMMA CloseEntered ==
  ASSUME NEW s \in Session, NEW w \in Whys, NEW n \in Directions \cup {0}, EnterClose(s, w, n)
  PROVE  OperationOK' /\ Working'
<1>1. 0 \in Position
  BY PositionFacts
<1> QED
  BY <1>1 DEF EnterClose, NoOp, OperationOK, Working, Steps

LEMMA OpenEntered ==
  ASSUME NEW s \in Session, NEW w \in Whys, NEW d \in Directions \cup {0}, EnterOpen(s, w, d)
  PROVE  OperationOK' /\ Working'
<1>1. 0 \in Position
  BY PositionFacts
<1> QED
  BY <1>1 DEF EnterOpen, NoOp, OperationOK, Working, Steps

LEMMA FailKept ==
  ASSUME LiveInv, Fail
  PROVE  OperationOK' /\ Working'
<1>1. CASE End
  BY <1>1, EndKept DEF End
<1>2. CASE op.why \in {"cycle", "soft"} /\ EnterClose(op.s, "auto", 0)
  <2>1. op.s \in Session /\ "auto" \in Whys
    BY <1>2 DEF LiveInv, Working, Whys
  <2> QED
    BY <1>2, <2>1, CloseEntered
<1> QED
  BY <1>1, <1>2 DEF Fail

LEMMA CommitKept ==
  ASSUME LiveInv, op.s \in Session, NEW s, NEW p, Commit(s, p)
  PROVE  OperationOK' /\ Working'
<1>1. "ok" \in Steps /\ 0 \in Position
  BY PositionFacts DEF Steps
<1> QED
  BY <1>1, AtKept, FailKept DEF Commit, Proceed

LEMMA OpenStepsKept ==
  ASSUME LiveInv, OpenAsked \/ OpenRetried \/ OpenEnsured \/ OpenPlaced \/ OpenConfirmed
  PROVE  OperationOK' /\ Working'
<1>1. op.s \in Session
  BY DEF LiveInv, Working, OpenAsked, OpenRetried, OpenEnsured, OpenPlaced, OpenConfirmed, Returned
<1>2. {"o.retry", "o.ensure", "o.place", "o.adopt", "o.confirm"} \subseteq Steps
  BY DEF Steps
<1>3. 0 \in Position /\ pos \in Position
  BY PositionFacts DEF LiveInv
<1>4. ASSUME NEW a \in {"o.retry", "o.ensure", "o.place", "o.adopt", "o.confirm"}, NEW q \in Position,
             op' = [op EXCEPT !.at = a] \/ op' = [op EXCEPT !.at = a, !.seen = q]
      PROVE  OperationOK' /\ Working'
  BY <1>1, <1>2, <1>4, AtKept
<1>5. CASE OpenAsked
  BY <1>3, <1>4, <1>5, FailKept DEF OpenAsked, Await
<1>6. CASE OpenRetried \/ OpenEnsured \/ OpenPlaced
  BY <1>3, <1>4, <1>6, FailKept DEF OpenRetried, OpenEnsured, OpenPlaced, Await
<1>7. CASE OpenConfirmed
  BY <1>1, <1>7, FailKept, CommitKept DEF OpenConfirmed
<1> QED
  BY <1>5, <1>6, <1>7

LEMMA CloseStepsKept ==
  ASSUME LiveInv, CloseRead \/ CloseAsked \/ CloseRetried \/ ClosePlaced \/ CloseConfirmed
  PROVE  OperationOK' /\ Working'
<1>1. op.s \in Session
  BY DEF LiveInv, Working, CloseRead, CloseAsked, CloseRetried, ClosePlaced, CloseConfirmed, Returned
<1>2. {"c.retry", "c.place", "c.confirm", "ok"} \subseteq Steps /\ 0 \in Position
  BY PositionFacts DEF Steps
<1>3. ASSUME NEW a \in {"c.retry", "c.place", "c.confirm", "ok"}, op' = [op EXCEPT !.at = a]
      PROVE  OperationOK' /\ Working'
  BY <1>1, <1>2, <1>3, AtKept
<1>4. CASE CloseRead
  BY <1>1, <1>3, <1>4, HoldingKept DEF CloseRead, Proceed, Await
<1>5. CASE CloseAsked
  BY <1>1, <1>3, <1>5, FailKept, CommitKept DEF CloseAsked, Await
<1>6. CASE CloseRetried \/ ClosePlaced
  BY <1>3, <1>6, FailKept DEF CloseRetried, ClosePlaced, Await
<1>7. CASE CloseConfirmed
  BY <1>1, <1>7, FailKept, CommitKept DEF CloseConfirmed
<1> QED
  BY <1>4, <1>5, <1>6, <1>7

LEMMA DriftStepsKept ==
  ASSUME LiveInv,
         DriftEnsured \/ Flattened \/ FlatConfirmed \/ Turned \/ Resubmitted \/ MatchConfirmed
  PROVE  OperationOK' /\ Working'
<1>1. {"d.flatten", "d.clear", "d.resubmit", "d.match"} \subseteq Steps /\ 0 \in Position
  BY PositionFacts DEF Steps
<1>2. End => OperationOK' /\ Working'
  BY EndKept DEF End
<1>3. ASSUME NEW a \in {"d.flatten", "d.clear"}, op' = [op EXCEPT !.at = a]
      PROVE  OperationOK' /\ Working'
  BY <1>1, <1>3, AtKept
<1>4. ASSUME op.s \in Session, NEW a \in {"d.resubmit", "d.match"}, op' = [op EXCEPT !.at = a]
      PROVE  OperationOK' /\ Working'
  BY <1>1, <1>4, AtKept
<1>5. CASE DriftEnsured
  <2>1. op.s \in Session
    BY <1>5 DEF LiveInv, Working, DriftEnsured, Returned
  <2>2. ASSUME virt[op.s] # 0, Resubmit(virt[op.s]), UNCHANGED virt PROVE OperationOK' /\ Working'
    BY <1>4, <2>1, <2>2, HoldingKept DEF Resubmit, Await
  <2> QED
    BY <1>2, <1>3, <1>5, <2>2 DEF DriftEnsured, Await
<1>6. CASE Flattened
  BY <1>2, <1>3, <1>6 DEF Flattened, Await
<1>7. CASE FlatConfirmed \/ MatchConfirmed
  BY <1>2, <1>7 DEF FlatConfirmed, MatchConfirmed
<1>8. CASE Turned
  <2>1. op.s \in Session /\ virt[op.s] \in Int
    BY <1>8, PositionFacts DEF LiveInv, LiveTypeOK, Working, Turned, Returned
  <2>2. Dir(virt[op.s]) \in Directions \cup {0}
    BY <2>1, DirTyped DEF Directions
  <2>3. ASSUME op' = [op EXCEPT !.at = "d.resubmit", !.dir = Dir(virt[op.s])]
        PROVE  OperationOK' /\ Working'
    <3> DEFINE d == Dir(virt[op.s])
    <3>1. d \in Directions \cup {0} /\ op' = [op EXCEPT !.at = "d.resubmit", !.dir = d]
      BY <2>2, <2>3
    <3> HIDE DEF d
    <3> QED
      BY <1>1, <2>1, <3>1 DEF LiveInv, LiveTypeOK, OperationOK, Working
  <2> QED
    BY <1>2, <1>8, <2>3 DEF Turned
<1>9. CASE Resubmitted
  <2>1. op.s \in Session
    BY <1>9 DEF LiveInv, Working, Resubmitted, Returned
  <2> QED
    BY <1>2, <1>4, <1>9, <2>1 DEF Resubmitted, Await
<1> QED
  BY <1>5, <1>6, <1>7, <1>8, <1>9

LEMMA TaskStepsKept ==
  ASSUME LiveInv, OperationFails \/ Finish \/ Decide \/ \E s \in Session : BeginCycle(s)
  PROVE  OperationOK' /\ Working'
<1>1. CASE OperationFails
  BY <1>1, FailKept DEF OperationFails
<1>2. CASE Finish
  <2>1. op.s \in Session /\ op.why \in Whys /\ op.next \in Directions \cup {0}
    BY <1>2 DEF LiveInv, LiveTypeOK, OperationOK, Working, Finish
  <2> QED
    BY <1>2, <2>1, OpenEntered, EndKept DEF Finish, End
<1>3. CASE Decide
  <2>1. op.s \in Session /\ op.why \in Whys
    BY <1>3 DEF LiveInv, LiveTypeOK, OperationOK, Working, Decide
  <2>2. Proceed("ok") => OperationOK' /\ Working'
    BY <2>1, AtKept, PositionFacts DEF Proceed, Steps
  <2>3. \A target \in (IF op.why = "soft" THEN {0} ELSE Targets \cup {0}) :
          target \in Directions \cup {0}
    BY LiveAssumption DEF Directions
  <2> QED
    BY <1>3, <2>1, <2>2, <2>3, EndKept, OpenEntered, CloseEntered DEF Decide, End
<1>4. ASSUME NEW s \in Session, BeginCycle(s) PROVE OperationOK' /\ Working'
  <2>1. CASE EnterClose(s, "hard", 0)
    BY <2>1, CloseEntered DEF Whys
  <2>2. CASE op' = [NoOp EXCEPT !.why = IF store[s] = "soft" THEN "soft" ELSE "cycle",
                                !.s = s, !.at = "decide"]
    BY <2>2, PositionFacts DEF NoOp, OperationOK, Working, Steps, Whys
  <2> QED
    BY <1>4, <2>1, <2>2 DEF BeginCycle
<1> QED
  BY <1>1, <1>2, <1>3, <1>4

LEMMA PassStepsKept ==
  ASSUME LiveInv, Reconcile
  PROVE  OperationOK' /\ Working' /\ PassOK' /\ Listed'
<1> USE DEF LiveInv, LiveTypeOK
<1>1. 0 \in Position /\ pos \in Position
  BY PositionFacts
<1>2. ASSUME UNCHANGED <<op, virt>> PROVE OperationOK' /\ Working'
  BY <1>2 DEF OperationOK, Working
<1>3. ASSUME NEW s \in Session, NEW w \in PassWhys, EnterClose(s, w, 0) PROVE OperationOK' /\ Working'
  BY <1>3, CloseEntered DEF Whys
<1>4. ASSUME NEW s \in Session \cup {None}, NEW q \in Position, NEW a \in {"d.ensure", "d.flatten"},
             s \in Session \/ a = "d.flatten", op' = [Drift(s, q) EXCEPT !.at = a]
      PROVE  OperationOK' /\ Working'
  BY <1>4 DEF Drift, NoOp, OperationOK, Working, Steps, Whys, PassWhys
<1>5. pass' = NoPass => PassOK' /\ Listed'
  BY <1>1 DEF NoPass, PassOK, Listed
<1>6. ASSUME NEW a \in {"stop", "sync"}, pass' = [pass EXCEPT !.at = a] PROVE PassOK' /\ Listed'
  BY <1>6 DEF PassOK, Listed
<1>7. CASE PassBegin
  <2> DEFINE live == {s \in Session : store[s] # "none"}
  <2> DEFINE t == IF live = {} THEN None ELSE CHOOSE s \in live : TRUE
  <2>1. t \in Session \/ t = None
    OBVIOUS
  <2> HIDE DEF t
  <2>2. pass' = [at |-> "sweep", t |-> t, hard |-> t # None /\ store[t] = "hard", seen |-> 0]
    BY <1>7 DEF PassBegin, t
  <2> DEFINE h == t # None /\ store[t] = "hard"
  <2>3. h \in BOOLEAN /\ (h => t # None)
    OBVIOUS
  <2> HIDE DEF h
  <2>4. pass' = [at |-> "sweep", t |-> t, hard |-> h, seen |-> 0]
    BY <2>2 DEF h
  <2>5. PassOK' /\ Listed'
    BY <1>1, <2>1, <2>3, <2>4 DEF PassOK, Listed
  <2> QED
    BY <1>2, <1>7, <2>5 DEF PassBegin
<1>8. CASE PassSweep
  BY <1>2, <1>3, <1>6, <1>8 DEF PassSweep, PassWhys, Listed
<1>9. CASE PassStop
  BY <1>2, <1>3, <1>6, <1>9 DEF PassStop, PassWhys, PassOK
<1>10. CASE PassSync
  BY <1>1, <1>2, <1>4, <1>5, <1>10 DEF PassSync, PassOK
<1>11. CASE PassLook
  <2>1. ASSUME pos # 0, pass' = [pass EXCEPT !.at = "found", !.seen = pos] PROVE PassOK' /\ Listed'
    BY <1>1, <2>1 DEF PassOK, Listed
  <2> QED
    BY <1>2, <1>5, <1>11, <2>1 DEF PassLook
<1>12. CASE PassFound
  BY <1>2, <1>4, <1>5, <1>12 DEF PassFound, PassOK
<1> QED
  BY <1>7, <1>8, <1>9, <1>10, <1>11, <1>12 DEF Reconcile

LEMMA OperationKept ==
  ASSUME LiveInv, [LiveNext]_vars
  PROVE  OperationOK' /\ Working' /\ PassOK' /\ Listed'
<1>1. ASSUME UNCHANGED <<op, virt>> PROVE OperationOK' /\ Working'
  BY <1>1 DEF LiveInv, LiveTypeOK, OperationOK, Working
<1>2. ASSUME UNCHANGED pass PROVE PassOK' /\ Listed'
  BY <1>2 DEF LiveInv, LiveTypeOK, PassOK, Listed
<1>3. CASE Engine
  <2>1. CASE AttemptStep /\ UNCHANGED liveVars
    BY <1>1, <1>2, <2>1 DEF liveVars
  <2>2. CASE OperationFails \/ Finish \/ Decide
    BY <1>2, <2>2, TaskStepsKept DEF OperationFails, Finish, Decide
  <2>3. CASE OpenAsked \/ OpenRetried \/ OpenEnsured \/ OpenPlaced \/ OpenConfirmed
    BY <1>2, <2>3, OpenStepsKept DEF OpenAsked, OpenRetried, OpenEnsured, OpenPlaced, OpenConfirmed
  <2>4. CASE CloseRead \/ CloseAsked \/ CloseRetried \/ ClosePlaced \/ CloseConfirmed
    BY <1>2, <2>4, CloseStepsKept
    DEF CloseRead, CloseAsked, CloseRetried, ClosePlaced, CloseConfirmed
  <2>5. CASE DriftEnsured \/ Flattened \/ FlatConfirmed \/ Turned \/ Resubmitted \/ MatchConfirmed
    BY <1>2, <2>5, DriftStepsKept
    DEF DriftEnsured, Flattened, FlatConfirmed, Turned, Resubmitted, MatchConfirmed
  <2> QED
    BY <1>3, <2>1, <2>2, <2>3, <2>4, <2>5 DEF Engine
<1>4. CASE Reconcile
  BY <1>4, PassStepsKept
<1>5. CASE Environment
  BY <1>1, <1>2, <1>5 DEF Environment, Create, RequestClose, ReleaseHold, liveVars
<1>6. CASE \E s \in Session : BeginCycle(s)
  BY <1>2, <1>6, TaskStepsKept DEF BeginCycle
<1>7. CASE Poll
  BY <1>1, <1>2, <1>7 DEF Poll
<1>8. CASE EngineCrash
  BY <1>8, EndKept, PositionFacts DEF EngineCrash, NoPass, PassOK, Listed
<1>9. CASE TaskAborted
  BY <1>2, <1>9, EndKept DEF TaskAborted
<1>10. CASE UNCHANGED vars
  BY <1>1, <1>2, <1>10 DEF vars, liveVars
<1> QED
  BY <1>3, <1>4, <1>5, <1>6, <1>7, <1>8, <1>9, <1>10 DEF LiveNext

LEMMA InitLive == LiveInit => LiveInv
<1> SUFFICES ASSUME LiveInit PROVE LiveInv
  OBVIOUS
<1>1. AttemptTypeOK
  BY InitTyped DEF LiveInit, TypeOK
<1>2. 0 \in Position
  BY PositionFacts
<1>3. OperationOK /\ Working
  BY <1>2 DEF LiveInit, NoOp, OperationOK, Working, Whys, Steps
<1>4. PassOK /\ Listed
  BY <1>2 DEF LiveInit, NoPass, PassOK, Listed
<1> QED
  BY <1>1, <1>2, <1>3, <1>4
  DEF LiveInit, LiveInv, LiveTypeOK, AttemptInit, Owner, NoCall, SessionStatus

LEMMA NextLive ==
  ASSUME LiveInv, [LiveNext]_vars
  PROVE  LiveInv'
<1>1. [AttemptNext]_attemptVars
  BY StepImplements
<1>2. AttemptTypeOK'
  BY <1>1, NextTyped DEF LiveInv, LiveTypeOK, TypeOK
<1>3. pos' \in Position
  BY <1>1, PosKept
<1> QED
  BY <1>2, <1>3, OwnerKept, TablesKept, OperationKept DEF LiveInv, LiveTypeOK

LEMMA LiveAlways == LiveSpec => []LiveInv
BY InitLive, NextLive, PTL DEF LiveSpec

\* The types of a live wallet's sessions, positions, operations and reconcile
\* pass, with a position in hand wherever the code relies on one.
THEOREM LiveTypes == LiveSpec => []LiveTypeOK
<1>1. LiveInv => LiveTypeOK
  BY DEF LiveInv
<1> QED
  BY <1>1, LiveAlways, PTL

-----------------------------------------------------------------------------
(* The order layer, and what follows from it.                              *)

\* open, close and reconcile use the Order Attempt the way its promises ask
\* for: every behaviour of the composed system is one of the order layer
\* (live_execution.rs).
THEOREM LayerImplemented == LiveSpec => OrderLayer
<1>1. LiveInit => AttemptInit
  BY DEF LiveInit
<1>2. LiveInv /\ [LiveNext]_vars => [AttemptNext]_attemptVars
  BY StepImplements
<1> QED
  BY <1>1, <1>2, LiveAlways, PTL DEF LiveSpec, OrderLayer, AttemptSpec

\* So the engine as a whole forgets no order, whichever policy repairs drift,
\* whatever is closed or aborted ...
THEOREM LiveForgetsNoOrder ==
  ASSUME "duplicate" \notin DupReplies
  PROVE  LiveSpec => []NoForgottenOrder
BY LayerImplemented, NoOrderForgotten, PTL DEF OrderLayer

\* ... and signs none while an earlier one of the wallet and PERP can still
\* execute.
THEOREM LiveSignsNoSecondOrder ==
  ASSUME ~Delayed, "duplicate" \notin DupReplies
  PROVE  LiveSpec => NoSecondOrder
BY LayerImplemented, NoSecondOrderIsSigned, PTL DEF OrderLayer

-----------------------------------------------------------------------------
(* A closed session.                                                       *)

\* An operation that asks for a session's close works for one that was asked to.
Closers == {"soft", "hard", "sweep"}

\* The steps that neither touch the sessions nor their copy.
LEMMA CopyUnchanged ==
  ASSUME CopyInv, UNCHANGED <<session, store, pass>>
  PROVE  CopyInv'
BY DEF CopyInv

LEMMA ClosingUnchanged ==
  ASSUME ClosingInv, UNCHANGED <<session, store, virt, op>>
  PROVE  ClosingInv'
BY DEF ClosingInv

\* An operation that goes on, other than to "ok".
LEMMA ClosingGoesOn ==
  ASSUME LiveInv, ClosingInv, UNCHANGED <<session, store>>,
         NEW a \in Steps \ {"decide", "ok"}, a \in OpenAt => op.why = "cycle", NEW q, NEW d,
         \/ op' = [op EXCEPT !.at = a]
         \/ op' = [op EXCEPT !.at = a, !.seen = q]
         \/ op' = [op EXCEPT !.at = a, !.dir = d]
  PROVE  ClosingInv'
<1> USE DEF LiveInv, LiveTypeOK, OperationOK
<1>1. op'.why = op.why /\ op'.s = op.s /\ op'.next = op.next /\ op'.at = a
  OBVIOUS
<1> QED
  BY <1>1 DEF ClosingInv

\* One that is done.
LEMMA ClosingDone ==
  ASSUME LiveInv, ClosingInv, UNCHANGED <<session, store>>, op' = [op EXCEPT !.at = "ok"],
         op.why \in Closers => virt'[op.s] = 0
  PROVE  ClosingInv'
<1>1. op'.why = op.why /\ op'.s = op.s /\ op'.next = op.next /\ op'.at = "ok"
  BY DEF LiveInv, LiveTypeOK, OperationOK
<1> QED
  BY <1>1 DEF ClosingInv, Closers, OpenAt

LEMMA ClosingEnds ==
  ASSUME op' = NoOp
  PROVE  ClosingInv'
BY DEF NoOp, ClosingInv, OpenAt

LEMMA ClosingEntered ==
  ASSUME NEW s, NEW w, NEW n, EnterClose(s, w, n),
         w \in Closers => session'[s] \in Asked /\ store'[s] # "active",
         w = "cycle" => session'[s] # "closed",
         n # 0 => w = "cycle"
  PROVE  ClosingInv'
<1>1. op'.why = w /\ op'.s = s /\ op'.next = n /\ op'.at = "c.read"
  BY DEF EnterClose, NoOp
<1> QED
  BY <1>1 DEF ClosingInv, Closers, OpenAt

LEMMA OpeningEntered ==
  ASSUME NEW s, NEW d, EnterOpen(s, "cycle", d), session'[s] # "closed"
  PROVE  ClosingInv'
<1>1. op'.why = "cycle" /\ op'.s = s /\ op'.next = 0 /\ op'.at = "o.ambiguous"
  BY DEF EnterOpen, NoOp
<1> QED
  BY <1>1 DEF ClosingInv, OpenAt

LEMMA ClosingFails ==
  ASSUME ClosingInv, Fail
  PROVE  ClosingInv'
<1>1. CASE End
  BY <1>1, ClosingEnds DEF End
<1>2. CASE EnterClose(op.s, "auto", 0)
  BY <1>2, ClosingEntered DEF Closers
<1> QED
  BY <1>1, <1>2 DEF Fail

LEMMA ClosingCommits ==
  ASSUME LiveInv, ClosingInv, UNCHANGED <<session, store>>, NEW p, Commit(op.s, p),
         op.why \in Closers => p = 0
  PROVE  ClosingInv'
<1>1. CASE op' = [op EXCEPT !.at = "ok"]
  <2>1. op.why \in Closers => op.s \in Session
    BY DEF LiveInv, Working, Closers
  <2>2. op.why \in Closers => virt'[op.s] = 0
    BY <2>1 DEF Commit, SetVirt, LiveInv, LiveTypeOK
  <2> QED
    BY <1>1, <2>2, ClosingDone
<1>2. CASE Fail
  BY <1>2, ClosingFails
<1> QED
  BY <1>1, <1>2 DEF Commit, Proceed

LEMMA ClosingOpens ==
  ASSUME LiveInv, ClosingInv,
         OpenAsked \/ OpenRetried \/ OpenEnsured \/ OpenPlaced \/ OpenConfirmed
  PROVE  ClosingInv'
<1>1. op.why = "cycle"
  BY DEF ClosingInv, OpenAt, OpenAsked, OpenRetried, OpenEnsured, OpenPlaced, OpenConfirmed, Returned
<1>2. UNCHANGED <<session, store>>
  BY DEF OpenAsked, OpenRetried, OpenEnsured, OpenPlaced, OpenConfirmed
<1>3. {"o.retry", "o.ensure", "o.place", "o.adopt", "o.confirm"} \subseteq Steps \ {"decide", "ok"}
  BY DEF Steps
<1>4. ASSUME NEW a \in {"o.retry", "o.ensure", "o.place", "o.adopt", "o.confirm"}, NEW q,
             op' = [op EXCEPT !.at = a] \/ op' = [op EXCEPT !.at = a, !.seen = q]
      PROVE  ClosingInv'
  BY <1>1, <1>2, <1>3, <1>4, ClosingGoesOn
<1>5. CASE OpenAsked
  BY <1>4, <1>5, ClosingFails DEF OpenAsked, Await
<1>6. CASE OpenRetried \/ OpenEnsured \/ OpenPlaced
  BY <1>4, <1>6, ClosingFails DEF OpenRetried, OpenEnsured, OpenPlaced, Await
<1>7. CASE OpenConfirmed
  BY <1>1, <1>2, <1>7, ClosingFails, ClosingCommits DEF OpenConfirmed, Closers
<1> QED
  BY <1>5, <1>6, <1>7

LEMMA ClosingCloses ==
  ASSUME LiveInv, ClosingInv,
         CloseRead \/ CloseAsked \/ CloseRetried \/ ClosePlaced \/ CloseConfirmed
  PROVE  ClosingInv'
<1>1. UNCHANGED <<session, store>>
  BY DEF CloseRead, CloseAsked, CloseRetried, ClosePlaced, CloseConfirmed
<1>2. {"c.ambiguous", "c.retry", "c.place", "c.confirm"} \subseteq Steps \ (OpenAt \cup {"decide", "ok"})
  BY DEF Steps, OpenAt
<1>3. ASSUME NEW a \in {"c.ambiguous", "c.retry", "c.place", "c.confirm"}, op' = [op EXCEPT !.at = a]
      PROVE  ClosingInv'
  BY <1>1, <1>2, <1>3, ClosingGoesOn
<1>4. CASE CloseRead
  BY <1>1, <1>3, <1>4, ClosingDone DEF CloseRead, Proceed, Await
<1>5. CASE CloseAsked
  BY <1>1, <1>3, <1>5, ClosingFails, ClosingCommits DEF CloseAsked, Await
<1>6. CASE CloseRetried \/ ClosePlaced
  BY <1>3, <1>6, ClosingFails DEF CloseRetried, ClosePlaced, Await
<1>7. CASE CloseConfirmed
  BY <1>1, <1>7, ClosingFails, ClosingCommits DEF CloseConfirmed
<1> QED
  BY <1>4, <1>5, <1>6, <1>7

LEMMA ClosingDrifts ==
  ASSUME LiveInv, ClosingInv,
         DriftEnsured \/ Flattened \/ FlatConfirmed \/ Turned \/ Resubmitted \/ MatchConfirmed
  PROVE  ClosingInv'
<1>1. UNCHANGED <<session, store>>
  BY DEF DriftEnsured, Flattened, FlatConfirmed, Turned, Resubmitted, MatchConfirmed
<1>2. {"d.clear", "d.flatten", "d.turn", "d.resubmit", "d.match"} \subseteq Steps \ (OpenAt \cup {"decide", "ok"})
  BY DEF Steps, OpenAt
<1>3. ASSUME NEW a \in {"d.clear", "d.flatten", "d.turn", "d.resubmit", "d.match"}, NEW d,
             op' = [op EXCEPT !.at = a] \/ op' = [op EXCEPT !.at = a, !.dir = d]
      PROVE  ClosingInv'
  BY <1>1, <1>2, <1>3, ClosingGoesOn
<1>4. End => ClosingInv'
  BY ClosingEnds DEF End
<1>5. CASE DriftEnsured
  BY <1>3, <1>4, <1>5 DEF DriftEnsured, Resubmit, Await
<1>6. CASE Flattened \/ FlatConfirmed \/ Turned \/ Resubmitted \/ MatchConfirmed
  BY <1>3, <1>4, <1>6 DEF Flattened, FlatConfirmed, Turned, Resubmitted, MatchConfirmed, Await
<1> QED
  BY <1>5, <1>6

LEMMA ClosingTasks ==
  ASSUME LiveInv, CopyInv, ClosingInv,
         OperationFails \/ Finish \/ Decide \/ \E s \in Session : BeginCycle(s)
  PROVE  ClosingInv'
<1>1. CASE OperationFails
  BY <1>1, ClosingFails DEF OperationFails
<1>2. CASE Finish
  <2>1. CASE op.next # 0
    BY <1>2, <2>1, OpeningEntered DEF Finish, ClosingInv
  <2>2. CASE op.next = 0
    BY <1>2, <2>2, ClosingEnds DEF Finish, End
  <2> QED
    BY <2>1, <2>2
<1>3. CASE Decide
  <2> DEFINE cur == Dir(virt[op.s])
  <2>1. op.s \in Session /\ UNCHANGED <<session, store, virt>>
    BY <1>3 DEF LiveInv, Working, Decide
  <2>2. op.why \in {"cycle", "soft"}
    BY <1>3 DEF Decide, ClosingInv
  <2>3. cur = 0 => virt[op.s] = 0
    BY <2>1, DirTyped, PositionFacts DEF LiveInv, LiveTypeOK
  <2> DEFINE Keeps ==
        \/ op.why = "cycle" /\ Proceed("ok")
        \/ op.why = "soft" /\ cur = 0 /\ Proceed("ok")
  <2> DEFINE Acts ==
        \E target \in (IF op.why = "soft" THEN {0} ELSE Targets \cup {0}) :
          /\ target # cur
          /\ StillApplies(op.s)
          /\ IF cur = 0 THEN EnterOpen(op.s, op.why, target)
                        ELSE EnterClose(op.s, op.why, target)
  <2>4. CASE Keeps
    BY <2>1, <2>3, <2>4, ClosingDone DEF Proceed, Closers
  <2>5. CASE Acts
    <3>1. PICK target \in (IF op.why = "soft" THEN {0} ELSE Targets \cup {0}) :
               /\ target # cur
               /\ IF cur = 0 THEN EnterOpen(op.s, op.why, target)
                             ELSE EnterClose(op.s, op.why, target)
      BY <2>5
    <3>2. CASE op.why = "cycle"
      BY <2>1, <3>1, <3>2, OpeningEntered, ClosingEntered DEF ClosingInv, Closers
    <3>3. CASE op.why = "soft"
      BY <2>1, <3>1, <3>3, ClosingEntered DEF ClosingInv, Closers
    <3> QED
      BY <2>2, <3>2, <3>3
  <2>6. CASE End
    BY <2>6, ClosingEnds DEF End
  <2>7. End \/ Keeps \/ Acts
    BY <1>3, Zenon DEF Decide
  <2> HIDE DEF Keeps, Acts
  <2> QED
    BY <2>4, <2>5, <2>6, <2>7
<1>4. ASSUME NEW s \in Session, BeginCycle(s) PROVE ClosingInv'
  <2>1. CASE store[s] = "hard"
    BY <1>4, <2>1, ClosingEntered DEF BeginCycle, CopyInv, Closers
  <2>2. CASE store[s] # "hard"
    <3>1. op'.why = (IF store[s] = "soft" THEN "soft" ELSE "cycle") /\ op'.s = s /\ op'.at = "decide"
          /\ op'.next = 0 /\ UNCHANGED <<session, store>>
      BY <1>4, <2>2 DEF BeginCycle, NoOp
    <3>2. store[s] \in {"active", "soft"}
      BY <1>4, <2>2 DEF BeginCycle, LiveInv, LiveTypeOK, SessionStatus
    <3> QED
      BY <3>1, <3>2 DEF ClosingInv, CopyInv, OpenAt
  <2> QED
    BY <2>1, <2>2
<1> QED
  BY <1>1, <1>2, <1>3, <1>4

LEMMA ClosingPass ==
  ASSUME LiveInv, CopyInv, ClosingInv, Reconcile
  PROVE  ClosingInv'
<1>1. ASSUME UNCHANGED <<session, store, virt, op>> PROVE ClosingInv'
  BY <1>1, ClosingUnchanged
<1>2. ASSUME NEW s, NEW q, NEW a \in {"d.ensure", "d.flatten"}, op' = [Drift(s, q) EXCEPT !.at = a]
      PROVE  ClosingInv'
  <2>1. op'.why = "drift" /\ op'.next = 0 /\ op'.at = a
    BY <1>2 DEF Drift, NoOp
  <2> QED
    BY <2>1 DEF ClosingInv, OpenAt
<1>3. CASE PassSweep
  BY <1>1, <1>3, ClosingEntered DEF PassSweep, CopyInv, Closers
<1>4. CASE PassStop
  BY <1>1, <1>4, ClosingEntered DEF PassStop, Closers
<1>5. CASE PassSync \/ PassFound
  BY <1>1, <1>2, <1>5 DEF PassSync, PassFound
<1>6. CASE PassBegin \/ PassLook
  BY <1>1, <1>6 DEF PassBegin, PassLook
<1> QED
  BY <1>3, <1>4, <1>5, <1>6 DEF Reconcile

LEMMA CopyPass ==
  ASSUME LiveInv, CopyInv, Reconcile
  PROVE  CopyInv'
<1>1. UNCHANGED <<session, store>>
  BY DEF Reconcile, PassBegin, PassSweep, PassStop, PassSync, PassLook, PassFound
<1>2. ASSUME pass'.hard => pass.hard /\ pass'.t = pass.t PROVE CopyInv'
  BY <1>1, <1>2 DEF CopyInv
<1>3. CASE PassBegin
  <2> DEFINE live == {s \in Session : store[s] # "none"}
  <2> DEFINE t == IF live = {} THEN None ELSE CHOOSE s \in live : TRUE
  <2>1. pass'.t = t /\ (pass'.hard => t # None /\ store[t] = "hard")
    BY <1>3 DEF PassBegin
  <2>2. t # None => t \in Session
    OBVIOUS
  <2> QED
    BY <1>1, <2>1, <2>2 DEF CopyInv
<1>4. CASE PassSweep \/ PassStop \/ PassLook
  <2>1. UNCHANGED pass \/ pass' = NoPass \/ (pass'.hard = pass.hard /\ pass'.t = pass.t)
    BY <1>4 DEF PassSweep, PassStop, PassLook, LiveInv, LiveTypeOK, PassOK
  <2> QED
    BY <1>2, <2>1 DEF NoPass
<1>5. CASE PassSync \/ PassFound
  BY <1>2, <1>5 DEF PassSync, PassFound, NoPass
<1> QED
  BY <1>3, <1>4, <1>5 DEF Reconcile

LEMMA PolledCopy ==
  ASSUME LiveInv, CopyInv, ClosingInv, store' = Polled, UNCHANGED session
  PROVE  /\ \A s \in Session : store'[s] \in {"soft", "hard"} => session'[s] \in Asked
         /\ \A s \in Session : session'[s] = "closed" => store'[s] # "active"
         /\ \A s \in Session : session[s] \in Asked => store'[s] # "active"
BY DEF Polled, Asked

\* A session's status changes.
LEMMA StatusChanges ==
  ASSUME LiveInv, CopyInv, ClosingInv, NEW s \in Session,
         Create(s) \/ RequestClose(s)
  PROVE  CopyInv' /\ ClosingInv'
<1>1. UNCHANGED <<store, virt, op, pass>>
  BY DEF Create, RequestClose
<1>2. \A r \in Session : session[r] \in Asked => session'[r] \in Asked
  BY DEF Create, RequestClose, Asked, LiveInv, LiveTypeOK
<1>3. \A r \in Session : session'[r] = "closed" => session[r] = "closed"
  BY DEF Create, RequestClose, LiveInv, LiveTypeOK
<1>4. CopyInv'
  BY <1>1, <1>2, <1>3 DEF CopyInv, LiveInv, Listed
<1>5. op.why \notin {"none", "drift"} => op.s \in Session
  BY DEF LiveInv, Working
<1>6. ClosingInv'
  BY <1>1, <1>2, <1>3, <1>5 DEF ClosingInv
<1> QED
  BY <1>4, <1>6

LEMMA FinishCopy ==
  ASSUME LiveInv, CopyInv, ClosingInv, Finish
  PROVE  CopyInv'
<1>1. UNCHANGED <<store, pass>>
  BY DEF Finish
<1>2. CASE UNCHANGED session
  BY <1>1, <1>2, CopyUnchanged
<1>3. CASE op.why \in Closers /\ session' = [session EXCEPT ![op.s] = "closed"]
  <2>1. store[op.s] # "active" /\ op.s \in Session
    BY <1>3 DEF ClosingInv, Closers, LiveInv, Working
  <2>2. \A r \in Session : session[r] \in Asked => session'[r] \in Asked
    BY <1>3 DEF Asked, LiveInv, LiveTypeOK
  <2>3. \A r \in Session : session'[r] = "closed" => session[r] = "closed" \/ r = op.s
    BY <1>3 DEF LiveInv, LiveTypeOK
  <2> QED
    BY <1>1, <2>1, <2>2, <2>3 DEF CopyInv, LiveInv, Listed
<1> QED
  BY <1>2, <1>3 DEF Finish, Closers

LEMMA ClosingNext ==
  ASSUME LiveInv, CopyInv, ClosingInv, [LiveNext]_vars
  PROVE  CopyInv' /\ ClosingInv'
<1>1. CASE Engine
  <2>1. CASE AttemptStep /\ UNCHANGED liveVars
    BY <2>1, CopyUnchanged, ClosingUnchanged DEF liveVars
  <2>2. CASE Finish
    BY <2>2, FinishCopy, ClosingTasks
  <2>3. CASE OperationFails \/ Decide
    BY <2>3, CopyUnchanged, ClosingTasks DEF OperationFails, Decide
  <2>4. CASE OpenAsked \/ OpenRetried \/ OpenEnsured \/ OpenPlaced \/ OpenConfirmed
    BY <2>4, CopyUnchanged, ClosingOpens DEF OpenAsked, OpenRetried, OpenEnsured, OpenPlaced, OpenConfirmed
  <2>5. CASE CloseRead \/ CloseAsked \/ CloseRetried \/ ClosePlaced \/ CloseConfirmed
    BY <2>5, CopyUnchanged, ClosingCloses
    DEF CloseRead, CloseAsked, CloseRetried, ClosePlaced, CloseConfirmed
  <2>6. CASE DriftEnsured \/ Flattened \/ FlatConfirmed \/ Turned \/ Resubmitted \/ MatchConfirmed
    BY <2>6, CopyUnchanged, ClosingDrifts
    DEF DriftEnsured, Flattened, FlatConfirmed, Turned, Resubmitted, MatchConfirmed
  <2> QED
    BY <1>1, <2>1, <2>2, <2>3, <2>4, <2>5, <2>6 DEF Engine
<1>2. CASE Reconcile
  BY <1>2, CopyPass, ClosingPass
<1>3. CASE Environment
  <2>1. CASE UNCHANGED <<session, store, virt, op, pass>>
    BY <2>1, CopyUnchanged, ClosingUnchanged
  <2> QED
    BY <1>3, <2>1, StatusChanges DEF Environment, ReleaseHold, liveVars
<1>4. CASE \E s \in Session : BeginCycle(s)
  BY <1>4, CopyUnchanged, ClosingTasks DEF BeginCycle
<1>5. CASE Poll
  <2>1. UNCHANGED <<session, virt, op, pass>> /\ store' = Polled
    BY <1>5 DEF Poll
  <2>2. CopyInv'
    BY <2>1, PolledCopy DEF CopyInv, LiveInv, Listed
  <2>3. op.why \in {"soft", "hard", "sweep"} => op.s \in Session
    BY DEF LiveInv, Working
  <2>4. ClosingInv'
    BY <2>1, <2>3, PolledCopy DEF ClosingInv
  <2> QED
    BY <2>2, <2>4
<1>6. CASE EngineCrash
  <2>1. UNCHANGED session /\ store' = Polled /\ op' = NoOp /\ pass' = NoPass
    BY <1>6 DEF EngineCrash
  <2>2. CopyInv'
    BY <2>1, PolledCopy DEF CopyInv, NoPass
  <2> QED
    BY <2>1, <2>2, ClosingEnds
<1>7. CASE TaskAborted
  BY <1>7, CopyUnchanged, ClosingEnds DEF TaskAborted
<1>8. CASE UNCHANGED vars
  BY <1>8, CopyUnchanged, ClosingUnchanged DEF vars, liveVars
<1> QED
  BY <1>1, <1>2, <1>3, <1>4, <1>5, <1>6, <1>7, <1>8 DEF LiveNext

\* A closed session keeps no virtual position.
LEMMA ClosedNext ==
  ASSUME Policy["mismatch"] # "adopt", LiveInv, ClosingInv, ClosedHasNoPosition, [LiveNext]_vars
  PROVE  ClosedHasNoPosition'
<1> USE DEF ClosedHasNoPosition
<1>1. ASSUME UNCHANGED virt, \A s \in Session : session'[s] = "closed" => session[s] = "closed"
      PROVE  ClosedHasNoPosition'
  BY <1>1
<1>2. ASSUME UNCHANGED session, NEW s, NEW p, SetVirt(s, p),
             p = 0 \/ session[s] # "closed"
      PROVE  ClosedHasNoPosition'
  BY <1>2 DEF SetVirt, LiveInv, LiveTypeOK
<1>3. CASE Engine
  <2>1. CASE (AttemptStep /\ UNCHANGED liveVars) \/ OperationFails \/ Decide
    BY <1>1, <2>1 DEF liveVars, OperationFails, Decide
  <2>2. CASE Finish
    <3>1. CASE op.why \in Closers /\ session' = [session EXCEPT ![op.s] = "closed"]
      <4>1. virt[op.s] = 0 /\ UNCHANGED virt
        BY <2>2, <3>1 DEF ClosingInv, Closers, Finish
      <4> QED
        BY <3>1, <4>1 DEF LiveInv, LiveTypeOK
    <3> QED
      BY <1>1, <2>2, <3>1 DEF Finish, Closers
  <2>3. CASE OpenAsked \/ OpenRetried \/ OpenEnsured \/ OpenPlaced
    BY <1>1, <2>3 DEF OpenAsked, OpenRetried, OpenEnsured, OpenPlaced
  <2>4. CASE OpenConfirmed
    <3>1. session[op.s] # "closed"
      BY <2>4 DEF OpenConfirmed, Returned, ClosingInv, OpenAt
    <3> QED
      BY <1>1, <1>2, <2>4, <3>1 DEF OpenConfirmed, Commit
  <2>5. CASE CloseRead \/ CloseRetried \/ ClosePlaced
    BY <1>1, <2>5 DEF CloseRead, CloseRetried, ClosePlaced
  <2>6. CASE CloseAsked \/ CloseConfirmed
    BY <1>1, <1>2, <2>6 DEF CloseAsked, CloseConfirmed, Commit
  <2>7. CASE DriftEnsured
    <3>1. op.seen # 0 => Policy[IF op.seen = 0 THEN "missing" ELSE "mismatch"] # "adopt"
      OBVIOUS
    <3> QED
      BY <1>1, <1>2, <2>7, <3>1 DEF DriftEnsured
  <2>8. CASE FlatConfirmed
    BY <1>1, <1>2, <2>8 DEF FlatConfirmed
  <2>9. CASE Flattened \/ Turned \/ Resubmitted \/ MatchConfirmed
    BY <1>1, <2>9 DEF Flattened, Turned, Resubmitted, MatchConfirmed
  <2> QED
    BY <1>3, <2>1, <2>2, <2>3, <2>4, <2>5, <2>6, <2>7, <2>8, <2>9 DEF Engine
<1>4. CASE Reconcile
  BY <1>1, <1>4 DEF Reconcile, PassBegin, PassSweep, PassStop, PassSync, PassLook, PassFound
<1>5. CASE Environment
  <2>1. ASSUME NEW s \in Session, Create(s) \/ RequestClose(s) PROVE ClosedHasNoPosition'
    <3>1. \A r \in Session : session'[r] = "closed" => session[r] = "closed"
      BY <2>1 DEF Create, RequestClose, LiveInv, LiveTypeOK
    <3> QED
      BY <1>1, <2>1, <3>1 DEF Create, RequestClose
  <2> QED
    BY <1>1, <1>5, <2>1 DEF Environment, ReleaseHold, liveVars
<1>6. CASE Poll \/ EngineCrash \/ TaskAborted \/ (\E s \in Session : BeginCycle(s)) \/ UNCHANGED vars
  BY <1>1, <1>6 DEF Poll, EngineCrash, TaskAborted, BeginCycle, vars, liveVars
<1> QED
  BY <1>3, <1>4, <1>5, <1>6 DEF LiveNext

LEMMA ClosedAlways ==
  ASSUME Policy["mismatch"] # "adopt"
  PROVE  LiveSpec => [](CopyInv /\ ClosingInv /\ ClosedHasNoPosition)
<1>1. LiveInit => CopyInv /\ ClosingInv /\ ClosedHasNoPosition
  BY DEF LiveInit, CopyInv, ClosingInv, ClosedHasNoPosition, NoOp, NoPass, OpenAt
<1>2. LiveInv /\ CopyInv /\ ClosingInv /\ [LiveNext]_vars => CopyInv' /\ ClosingInv'
  BY ClosingNext
<1>3. LiveInv /\ ClosingInv /\ ClosedHasNoPosition /\ [LiveNext]_vars => ClosedHasNoPosition'
  BY ClosedNext
<1> QED
  BY <1>1, <1>2, <1>3, LiveAlways, PTL DEF LiveSpec

\* A session that is closed keeps no virtual position, whatever its cycles, the
\* reconcile loop, crashes and requests do meanwhile: unless the policy adopts a
\* mismatched position, which a pass may do for a session that has just closed
\* (supervisor.rs, reconcile.rs).
THEOREM ClosedIsFlat ==
  ASSUME Policy["mismatch"] # "adopt"
  PROVE  LiveSpec => []ClosedHasNoPosition
BY ClosedAlways, PTL

-----------------------------------------------------------------------------
(* What a claimed PERP promises its operation: the position it opens or    *)
(* closes, the hold, and the order it has in hand. From here on an order   *)
(* is over when the exchange has answered for it, and the policy neither   *)
(* re-submits an order nor adopts a mismatched position.                   *)

Immediate == ~Delayed /\ ~Resting /\ "duplicate" \notin DupReplies
Cautious  == Policy["missing"] # "resubmit" /\ Policy["mismatch"] \notin {"adopt", "resubmit"}

CloseAt    == {"c.ambiguous", "c.retry", "c.place", "c.confirm"}
DriftAt    == {"d.ensure", "d.flatten", "d.clear"}
Confirming == {"o.adopt", "o.confirm"}

WorkInv ==
  /\ op.at \in OpenAt \/ (op.at = "ok" /\ op.next # 0) => virt[op.s] = 0
  /\ op.at \in CloseAt => virt[op.s] # 0
  /\ op.next # 0 => op.at \in CloseAt \cup {"c.read", "ok"}
  /\ op.at \in OpenAt \/ op.next # 0 => ~hold
  /\ op.at \in Between \cup OpenAt \cup CloseAt \cup DriftAt
  /\ op.at \in DriftAt => op.why = "drift"
  /\ op.at = "o.place" => call.proc = "place"
  /\ op.at \in Confirming => call.proc # "place" /\ RowSettled
  /\ call.at \in {"load", "sign"} => call.want.reduce \/ op.at = "o.place"
  /\ call.at = "persist" => terms[call.id].reduce \/ op.at = "o.place"

\* What the order layer guarantees.
OrderFacts == TypeOK /\ CallInv /\ KnownInv /\ QuietInv /\ FillInv

\* An operation between two helper calls.
LEMMA WorkRests ==
  ASSUME call' = NoCall, op'.at \in Between,
         op'.next # 0 => op'.at \in {"c.read", "ok"} /\ ~hold' /\ (op'.at = "ok" => virt'[op'.s] = 0)
  PROVE  WorkInv'
BY DEF WorkInv, NoCall, Between, OpenAt, CloseAt, DriftAt, Confirming

\* ... and one that enters a helper.
LEMMA WorkAwaits ==
  ASSUME NEW p \in Procs \ {"none"}, NEW t, Invoke(p, t),
         op'.at \in OpenAt \cup CloseAt \cup DriftAt,
         op'.at \in OpenAt => virt'[op'.s] = 0 /\ op'.next = 0 /\ ~hold',
         op'.at \in CloseAt => virt'[op'.s] # 0 /\ (op'.next # 0 => ~hold'),
         op'.at \in DriftAt => op'.why = "drift" /\ op'.next = 0,
         p = "place" => t.reduce \/ op'.at = "o.place",
         op'.at = "o.place" => p = "place",
         op'.at \in Confirming => p # "place" /\ RowSettled'
  PROVE  WorkInv'
<1>1. call'.proc = p /\ call'.at = Entry(p) /\ (p = "place" => call'.want = t)
  BY DEF Invoke
<1>2. call'.at \notin {"sign", "persist"} /\ (call'.at = "load" => p = "place")
  BY <1>1 DEF Entry, Procs
<1> QED
  BY <1>1, <1>2 DEF WorkInv, OpenAt, CloseAt, DriftAt

LEMMA WorkEnds == op' = NoOp /\ call' = NoCall => WorkInv'
BY WorkRests DEF NoOp, Between

LEMMA WorkCloses ==
  ASSUME NEW s, NEW w, NEW n, EnterClose(s, w, n), n # 0 => ~hold'
  PROVE  WorkInv'
<1>1. op'.at = "c.read" /\ op'.next = n /\ call' = NoCall
  BY DEF EnterClose, NoOp
<1> QED
  BY <1>1, WorkRests DEF Between

LEMMA WorkOpens ==
  ASSUME NEW s, NEW w, NEW d, EnterOpen(s, w, d), virt'[s] = 0, ~hold'
  PROVE  WorkInv'
<1>1. op'.at = "o.ambiguous" /\ op'.next = 0 /\ op'.s = s /\ Invoke("ambiguous", NoTerms)
  BY DEF EnterOpen, NoOp
<1> QED
  BY <1>1, WorkAwaits DEF Procs, OpenAt, CloseAt, DriftAt, Confirming

LEMMA WorkFails == Fail => WorkInv'
BY WorkEnds, WorkCloses DEF Fail, End

LEMMA WorkDone ==
  ASSUME LiveInv, WorkInv, UNCHANGED hold, Proceed("ok"), op.next # 0 => virt'[op.s] = 0
  PROVE  WorkInv'
<1>1. op'.at = "ok" /\ op'.next = op.next /\ op'.s = op.s /\ call' = NoCall
  BY DEF Proceed, LiveInv, LiveTypeOK, OperationOK
<1> QED
  BY <1>1, WorkRests DEF WorkInv, Between

LEMMA WorkCommits ==
  ASSUME LiveInv, WorkInv, UNCHANGED hold, op.s \in Session, NEW p, Commit(op.s, p), op.next # 0 => p = 0
  PROVE  WorkInv'
<1>1. virt'[op.s] = p
  BY DEF Commit, SetVirt, LiveInv, LiveTypeOK
<1> QED
  BY <1>1, WorkDone, WorkFails DEF Commit

\* An operation that goes on to its next helper.
LEMMA WorkGoesOn ==
  ASSUME LiveInv, WorkInv, UNCHANGED <<virt, hold>>, NEW p \in Procs \ {"none"}, NEW t, Invoke(p, t),
         NEW a, NEW q, op' = [op EXCEPT !.at = a] \/ op' = [op EXCEPT !.at = a, !.seen = q],
         \E part \in {OpenAt, CloseAt, DriftAt} : op.at \in part /\ a \in part,
         p = "place" => t.reduce \/ a = "o.place",
         a = "o.place" => p = "place",
         a \in Confirming => p # "place" /\ RowSettled'
  PROVE  WorkInv'
<1>1. op'.at = a /\ op'.next = op.next /\ op'.s = op.s /\ op'.why = op.why
  BY DEF LiveInv, LiveTypeOK, OperationOK
<1>2. PICK part \in {OpenAt, CloseAt, DriftAt} : op.at \in part /\ a \in part
  OBVIOUS
<1>3. op.at \in OpenAt \cup DriftAt => op.next = 0
  BY DEF WorkInv, OpenAt, DriftAt, CloseAt
<1>4. /\ a \in OpenAt => virt'[op'.s] = 0 /\ op'.next = 0 /\ ~hold'
      /\ a \in CloseAt => virt'[op'.s] # 0 /\ (op'.next # 0 => ~hold')
      /\ a \in DriftAt => op'.why = "drift" /\ op'.next = 0
  <2>1. CASE part = OpenAt
    BY <1>1, <1>2, <1>3, <2>1 DEF WorkInv, OpenAt, CloseAt, DriftAt
  <2>2. CASE part = CloseAt
    BY <1>1, <1>2, <2>2 DEF WorkInv, OpenAt, CloseAt, DriftAt
  <2>3. CASE part = DriftAt
    BY <1>1, <1>2, <1>3, <2>3 DEF WorkInv, OpenAt, CloseAt, DriftAt
  <2> QED
    BY <1>2, <2>1, <2>2, <2>3
<1> QED
  BY <1>1, <1>2, <1>4, WorkAwaits
LEMMA WorkInOpen ==
  ASSUME OrderFacts, LiveInv, WorkInv,
         OpenAsked \/ OpenRetried \/ OpenEnsured \/ OpenPlaced \/ OpenConfirmed
  PROVE  WorkInv'
<1>1. op.at \in OpenAt /\ op.s \in Session /\ call.at = "done"
  BY DEF OpenAt, LiveInv, Working, OpenAsked, OpenRetried, OpenEnsured, OpenPlaced, OpenConfirmed, Returned
<1>2. UNCHANGED <<row, book, hold>>
  BY DEF OpenAsked, OpenRetried, OpenEnsured, OpenPlaced, OpenConfirmed, lowerVars, exchangeVars
<1>3. {"retry", "ensure", "place", "clear", "confirm"} \subseteq Procs \ {"none"}
      /\ {"o.retry", "o.ensure", "o.adopt", "o.place", "o.confirm"} \subseteq OpenAt
  BY DEF Procs, OpenAt
<1>4. ASSUME NEW p \in Procs \ {"none"}, NEW t, NEW a \in OpenAt, Await(p, t, a), UNCHANGED virt,
             a \notin Confirming, p = "place" <=> a = "o.place"
      PROVE  WorkInv'
    BY <1>1, <1>2, <1>4, WorkGoesOn DEF Await
<1>5. ASSUME NEW p \in {"clear", "confirm"}, NEW a \in Confirming, NEW q, UNCHANGED virt,
             Invoke(p, NoTerms), op' = [op EXCEPT !.at = a, !.seen = q], RowSettled
      PROVE  WorkInv'
  <2>1. RowSettled'
    BY <1>2, <1>5 DEF RowSettled
  <2>2. a # "o.place" /\ p # "place" /\ a \in OpenAt
    BY DEF Confirming, OpenAt
  <2> QED
    BY <1>1, <1>2, <1>3, <1>5, <2>1, <2>2, WorkGoesOn
<1>6. CASE OpenAsked
  <2>1. call.res = "no" => RowSettled
    BY DEF OrderFacts, CallInv, RowSettled
  <2> QED
    BY <1>3, <1>4, <1>5, <1>6, <2>1, WorkFails DEF OpenAsked, Confirming
<1>7. CASE OpenRetried \/ OpenEnsured
  BY <1>3, <1>4, <1>7, WorkFails DEF OpenRetried, OpenEnsured, Confirming
<1>8. CASE OpenPlaced
  <2>1. call.res # "err" => RowSettled
    BY <1>1, <1>8 DEF OpenPlaced, Returned, WorkInv, OrderFacts, FillInv
  <2> QED
    BY <1>5, <1>8, <2>1, WorkFails DEF OpenPlaced, Confirming
<1>9. CASE OpenConfirmed
  <2>1. op.next = 0
    BY <1>1 DEF WorkInv, OpenAt, CloseAt
  <2> QED
    BY <1>1, <1>9, <2>1, WorkFails, WorkCommits DEF OpenConfirmed
<1> QED
  BY <1>6, <1>7, <1>8, <1>9

LEMMA WorkInClose ==
  ASSUME LiveInv, WorkInv,
         CloseRead \/ CloseAsked \/ CloseRetried \/ ClosePlaced \/ CloseConfirmed
  PROVE  WorkInv'
<1>1. op.s \in Session /\ op.at \in CloseAt \cup {"c.read"}
  BY DEF CloseAt, LiveInv, Working, CloseRead, CloseAsked, CloseRetried, ClosePlaced, CloseConfirmed, Returned
<1>2. UNCHANGED hold
  BY DEF CloseRead, CloseAsked, CloseRetried, ClosePlaced, CloseConfirmed
<1>3. {"retry", "place", "ambiguous", "confirm"} \subseteq Procs \ {"none"}
      /\ {"c.retry", "c.place", "c.confirm"} \subseteq CloseAt
  BY DEF Procs, CloseAt
<1>4. ASSUME NEW p \in Procs \ {"none"}, NEW t, NEW a \in CloseAt, Await(p, t, a), UNCHANGED virt,
             op.at \in CloseAt, p = "place" => t.reduce
      PROVE  WorkInv'
  <2>1. a # "o.place" /\ a \notin Confirming
    BY DEF CloseAt, Confirming
  <2> QED
    BY <1>2, <1>4, <2>1, WorkGoesOn DEF Await
<1>5. CASE CloseRead
  <2>1. CASE virt[op.s] = 0
    BY <1>2, <1>5, <2>1, WorkDone DEF CloseRead
  <2>2. CASE virt[op.s] # 0
    <3>1. op'.at = "c.ambiguous" /\ op'.s = op.s /\ op'.next = op.next /\ UNCHANGED virt
      BY <1>5, <2>2 DEF CloseRead, Await, LiveInv, LiveTypeOK, OperationOK
    <3>2. op.next # 0 => ~hold'
      BY <1>2 DEF WorkInv
    <3> QED
      BY <1>3, <1>5, <2>2, <3>1, <3>2, WorkAwaits
      DEF CloseRead, Await, OpenAt, CloseAt, DriftAt, Confirming
  <2> QED
    BY <2>1, <2>2
<1>6. CASE CloseAsked
  <2>1. op.at \in CloseAt
    BY <1>6 DEF CloseAsked, Returned, CloseAt
  <2>2. Order(-Dir(virt[op.s]), Abs(virt[op.s]), TRUE, "mid").reduce
    BY DEF Order
  <2> QED
    BY <1>1, <1>2, <1>3, <1>4, <1>6, <2>1, <2>2, WorkFails, WorkCommits DEF CloseAsked
<1>7. CASE CloseRetried \/ ClosePlaced
  <2>1. op.at \in CloseAt
    BY <1>7 DEF CloseRetried, ClosePlaced, Returned, CloseAt
  <2> QED
    BY <1>3, <1>4, <1>7, <2>1, WorkFails DEF CloseRetried, ClosePlaced
<1>8. CASE CloseConfirmed
  BY <1>1, <1>2, <1>8, WorkFails, WorkCommits DEF CloseConfirmed
<1> QED
  BY <1>5, <1>6, <1>7, <1>8

LEMMA WorkInDrift ==
  ASSUME Cautious, LiveInv, WorkInv,
         DriftEnsured \/ Flattened \/ FlatConfirmed \/ Turned \/ Resubmitted \/ MatchConfirmed
  PROVE  WorkInv'
<1>1. op.at \in DriftAt
  BY DEF WorkInv, Between, OpenAt, CloseAt, DriftAt, DriftEnsured, Flattened, FlatConfirmed, Turned,
         Resubmitted, MatchConfirmed, Returned
<1>2. ~Turned /\ ~Resubmitted /\ ~MatchConfirmed
  BY <1>1 DEF DriftAt, Turned, Resubmitted, MatchConfirmed, Returned
<1>3. {"place", "confirm"} \subseteq Procs \ {"none"} /\ {"d.flatten", "d.clear"} \subseteq DriftAt
  BY DEF Procs, DriftAt
<1>4. ASSUME NEW p \in Procs \ {"none"}, NEW t, NEW a \in DriftAt, Await(p, t, a), UNCHANGED <<virt, hold>>,
             p = "place" => t.reduce
      PROVE  WorkInv'
  <2>1. a # "o.place" /\ a \notin Confirming
    BY DEF DriftAt, Confirming
  <2> QED
    BY <1>1, <1>4, <2>1, WorkGoesOn DEF Await
<1>5. End => WorkInv'
  BY WorkEnds DEF End
<1>6. CASE DriftEnsured
  <2>1. Policy[IF op.seen = 0 THEN "missing" ELSE "mismatch"] # "resubmit"
    BY DEF Cautious
  <2>2. Flat(op.seen).reduce
    BY DEF Flat, Order
  <2> QED
    BY <1>3, <1>4, <1>5, <1>6, <2>1, <2>2 DEF DriftEnsured
<1>7. CASE Flattened
  BY <1>3, <1>4, <1>5, <1>7 DEF Flattened
<1>8. CASE FlatConfirmed
  BY <1>5, <1>8 DEF FlatConfirmed
<1> QED
  BY <1>2, <1>6, <1>7, <1>8
LEMMA WorkInTask ==
  ASSUME LiveInv, WorkInv, OperationFails \/ Finish \/ Decide \/ \E s \in Session : BeginCycle(s)
  PROVE  WorkInv'
<1>1. CASE OperationFails
  BY <1>1, WorkFails DEF OperationFails
<1>2. CASE Finish
  <2>1. op.next # 0 => virt'[op.s] = 0 /\ ~hold'
    BY <1>2 DEF Finish, WorkInv
  <2> QED
    BY <1>2, <2>1, WorkOpens, WorkEnds DEF Finish, End
<1>3. CASE Decide
  <2> DEFINE cur == Dir(virt[op.s])
  <2>1. op.s \in Session /\ UNCHANGED <<virt, hold>> /\ op.next = 0
    BY <1>3 DEF LiveInv, Working, Decide, WorkInv, CloseAt
  <2>2. cur = 0 => virt'[op.s] = 0
    BY <2>1, DirTyped, PositionFacts DEF LiveInv, LiveTypeOK
  <2> HIDE DEF cur
  <2>3. \/ End \/ Proceed("ok")
        \/ \E target : /\ ~hold
                       /\ IF cur = 0 THEN EnterOpen(op.s, op.why, target)
                                     ELSE EnterClose(op.s, op.why, target)
    BY <1>3, Zenon DEF Decide, StillApplies, cur
  <2>4. CASE Proceed("ok")
    BY <2>1, <2>4, WorkDone
  <2>5. ASSUME NEW target, ~hold,
               IF cur = 0 THEN EnterOpen(op.s, op.why, target) ELSE EnterClose(op.s, op.why, target)
        PROVE  WorkInv'
    BY <2>1, <2>2, <2>5, WorkOpens, WorkCloses
  <2> QED
    BY <2>3, <2>4, <2>5, WorkEnds DEF End
<1>4. ASSUME NEW s \in Session, BeginCycle(s) PROVE WorkInv'
  <2>1. CASE EnterClose(s, "hard", 0)
    BY <2>1, WorkCloses
  <2>2. CASE /\ op' = [NoOp EXCEPT !.why = IF store[s] = "soft" THEN "soft" ELSE "cycle",
                                   !.s = s, !.at = "decide"]
             /\ call' = NoCall
    <3>1. op'.at = "decide" /\ op'.next = 0
      BY <2>2 DEF NoOp
    <3> QED
      BY <2>2, <3>1, WorkRests DEF Between
  <2> QED
    BY <1>4, <2>1, <2>2 DEF BeginCycle
<1> QED
  BY <1>1, <1>2, <1>3, <1>4

\* The steps in which the operation waits and the exchange's part stays.
LEMMA WorkUnchanged ==
  ASSUME WorkInv, UNCHANGED <<virt, op, call, row, book, terms>>, hold' => hold
  PROVE  WorkInv'
BY DEF WorkInv, RowSettled

LEMMA WorkInPass ==
  ASSUME LiveInv, WorkInv, Reconcile
  PROVE  WorkInv'
<1>1. UNCHANGED <<virt, row, book, terms>>
  BY DEF Reconcile, PassBegin, PassSweep, PassStop, PassSync, PassLook, PassFound, lowerVars,
         attemptVars, exchangeVars
<1>2. ASSUME UNCHANGED <<op, call, hold>> PROVE WorkInv'
  BY <1>1, <1>2, WorkUnchanged
<1>3. ASSUME NEW s, NEW q, NEW a \in {"d.ensure", "d.flatten"}, NEW p \in {"ensure", "place"}, NEW t,
             op' = [Drift(s, q) EXCEPT !.at = a], Invoke(p, t), p = "place" => t.reduce
      PROVE  WorkInv'
  <2>1. op'.why = "drift" /\ op'.next = 0 /\ op'.at = a
    BY <1>3 DEF Drift, NoOp
  <2> QED
    BY <1>3, <2>1, WorkAwaits DEF Procs, OpenAt, CloseAt, DriftAt, Confirming
<1>4. CASE PassBegin \/ PassLook
  BY <1>2, <1>4 DEF PassBegin, PassLook, attemptVars
<1>5. CASE PassSweep \/ PassStop
  BY <1>2, <1>5, WorkCloses DEF PassSweep, PassStop
<1>6. CASE PassSync
  BY <1>2, <1>3, <1>6 DEF PassSync
<1>7. CASE PassFound
  <2>1. Flat(pass.seen).reduce
    BY DEF Flat, Order
  <2>2. op = NoOp => op.at = "idle" /\ op.next = 0
    BY DEF NoOp
  <2>3. ASSUME op = NoOp, UNCHANGED <<op, call>> PROVE WorkInv'
    BY <1>1, <2>2, <2>3 DEF WorkInv, OpenAt, CloseAt, DriftAt, Confirming
  <2> QED
    BY <1>2, <1>3, <1>7, <2>1, <2>3 DEF PassFound
<1> QED
  BY <1>4, <1>5, <1>6, <1>7 DEF Reconcile

\* A helper's step, and the exchange's.
LEMMA WorkInHelper ==
  ASSUME Immediate, OrderFacts, LiveInv, WorkInv, AttemptStep \/ NetworkStep, UNCHANGED liveVars
  PROVE  WorkInv'
<1>1. UNCHANGED <<op, virt, hold>>
  BY DEF liveVars
<1>2. CASE AttemptStep
  <2>1. call'.proc = call.proc /\ (call'.at \in {"load", "sign"} => call.at \in {"load", "sign"} /\ call'.want = call.want)
        /\ (call'.at = "persist" => call.at = "sign" /\ terms'[call'.id] = call.want)
    BY <1>2, HelperKeeps, HelperCarries DEF OrderFacts
  <2>2. op.at \in Confirming => RowSettled'
    BY <1>2, HelperKeeps DEF OrderFacts, WorkInv, FillInv, Placing
  <2> QED
    BY <1>1, <2>1, <2>2 DEF WorkInv
<1>3. CASE NetworkStep
  <2>1. UNCHANGED <<terms, row, call>>
        /\ (UNCHANGED <<book, pos>> \/ \E q \in Int : row \in Cloid /\ Execute(row, q))
    BY <1>3, NetworkFills DEF OrderFacts, Immediate
  <2>2. RowSettled => RowSettled'
    BY <2>1 DEF RowSettled, Execute, OrderFacts, TypeOK, AttemptTypeOK, ExchangeTypeOK
  <2> QED
    BY <1>1, <2>1, <2>2 DEF WorkInv
<1> QED
  BY <1>2, <1>3

LEMMA WorkNext ==
  ASSUME Immediate, Cautious, OrderFacts, LiveInv, WorkInv, [LiveNext]_vars
  PROVE  WorkInv'
<1>1. CASE Engine
  BY <1>1, WorkInHelper, WorkInTask, WorkInOpen, WorkInClose, WorkInDrift DEF Engine
<1>2. CASE Reconcile
  BY <1>2, WorkInPass
<1>3. CASE Environment
  <2>1. CASE OutsideStep /\ UNCHANGED liveVars
    BY <2>1, WorkUnchanged DEF OutsideStep, Outside, liveVars
  <2>2. CASE ReleaseHold \/ \E s \in Session : Create(s) \/ RequestClose(s)
    BY <2>2, WorkUnchanged DEF ReleaseHold, Create, RequestClose, attemptVars
  <2> QED
    BY <1>3, <2>1, <2>2, WorkInHelper DEF Environment
<1>4. CASE \E s \in Session : BeginCycle(s)
  BY <1>4, WorkInTask
<1>5. CASE Poll \/ UNCHANGED vars
  BY <1>5, WorkUnchanged DEF Poll, vars, liveVars, attemptVars
<1>6. CASE EngineCrash
  BY <1>6, WorkEnds DEF EngineCrash, Crash
<1>7. CASE TaskAborted
  <2>1. call.at = "idle" => call = NoCall
    BY DEF LiveInv, Owner
  <2> QED
    BY <1>7, <2>1, WorkEnds DEF TaskAborted, Abort
<1> QED
  BY <1>1, <1>2, <1>3, <1>4, <1>5, <1>6, <1>7 DEF LiveNext
-----------------------------------------------------------------------------
(* One session at a time, and who may have a position.                     *)

Running(s) == session[s] \notin {"none", "closed"}

SessInv ==
  /\ \A s \in Session : store[s] # "none" => session[s] # "none"
  /\ op.why = "cycle" => session[op.s] # "none"
  /\ \A s \in Session : session[s] = "none" => virt[s] = 0
  /\ \A r, s \in Session : Running(r) /\ Running(s) => r = s

\* How a step changes the virtual positions and what is booked of them: an
\* operation that has no order in hand forgets one, writes the one it has
\* confirmed, or books a close.
LEMMA VirtMoves ==
  ASSUME Cautious, LiveInv, [LiveNext]_vars
  PROVE  \/ UNCHANGED <<virt, booked>>
         \/ /\ UNCHANGED <<lowerVars, session>>
            /\ \/ \E s \in Session : SetVirt(s, 0)
               \/ op.at \in Confirming /\ op.s \in Session /\ SetVirt(op.s, op.seen)
               \/ /\ op.at = "c.place" /\ op.s \in Session /\ pos = 0 /\ op'.at # "c.place"
                  /\ UNCHANGED virt
                  /\ booked' = [booked EXCEPT ![op.s] = @ + 1]
<1>1. op.at \notin {"idle", "d.flatten", "d.clear"} => op.s \in Session
  BY DEF LiveInv, Working
<1>2. CASE Engine
  <2>1. CASE (AttemptStep /\ UNCHANGED liveVars) \/ OperationFails \/ Finish \/ Decide
    BY <2>1 DEF liveVars, OperationFails, Finish, Decide
  <2>2. CASE OpenAsked \/ OpenRetried \/ OpenEnsured \/ OpenPlaced
    BY <2>2 DEF OpenAsked, OpenRetried, OpenEnsured, OpenPlaced
  <2>3. CASE OpenConfirmed
    BY <1>1, <2>3 DEF OpenConfirmed, Commit, Returned, Confirming
  <2>4. CASE CloseRead \/ CloseRetried
    BY <2>4 DEF CloseRead, CloseRetried
  <2>5. CASE CloseAsked \/ CloseConfirmed
    BY <1>1, <2>5 DEF CloseAsked, CloseConfirmed, Commit, Returned
  <2>6. CASE ClosePlaced
    <3>1. ASSUME Fail PROVE op'.at # "c.place"
      <4>1. CASE End
        BY <4>1 DEF End, NoOp
      <4>2. CASE EnterClose(op.s, "auto", 0)
        <5>1. op'.at = "c.read"
          BY <4>2 DEF EnterClose, NoOp
        <5> QED
          BY <5>1
      <4> QED
        BY <3>1, <4>1, <4>2 DEF Fail
    <3>2. Await("confirm", NoTerms, "c.confirm") => op'.at # "c.place"
      BY DEF Await, LiveInv, LiveTypeOK, OperationOK
    <3> QED
      BY <1>1, <2>6, <3>1, <3>2 DEF ClosePlaced, Returned
  <2>7. CASE DriftEnsured
    <3>1. Policy[IF op.seen = 0 THEN "missing" ELSE "mismatch"] = "adopt" => op.seen = 0
      BY DEF Cautious
    <3> QED
      BY <1>1, <2>7, <3>1 DEF DriftEnsured, Returned
  <2>8. CASE FlatConfirmed
    <3>1. op.s # None => op.s \in Session
      BY DEF LiveInv, LiveTypeOK, OperationOK
    <3> QED
      BY <2>8, <3>1 DEF FlatConfirmed
  <2>9. CASE Flattened \/ Turned \/ Resubmitted \/ MatchConfirmed
    BY <2>9 DEF Flattened, Turned, Resubmitted, MatchConfirmed
  <2> QED
    BY <1>2, <2>1, <2>2, <2>3, <2>4, <2>5, <2>6, <2>7, <2>8, <2>9 DEF Engine
<1>3. CASE Reconcile
  BY <1>3 DEF Reconcile, PassBegin, PassSweep, PassStop, PassSync, PassLook, PassFound
<1>4. CASE Environment
  BY <1>4 DEF Environment, Create, RequestClose, ReleaseHold, liveVars
<1>5. CASE Poll \/ EngineCrash \/ TaskAborted \/ (\E s \in Session : BeginCycle(s)) \/ UNCHANGED vars
  BY <1>5 DEF Poll, EngineCrash, TaskAborted, BeginCycle, vars, liveVars
<1> QED
  BY <1>2, <1>3, <1>4, <1>5 DEF LiveNext

\* Where a decision cycle comes from: the store, and only a tick starts one. And
\* a close orders when it has found a position.
ComesFrom ==
  /\ op'.why = "cycle" => \/ op.why = "cycle" /\ op'.s = op.s
                          \/ op'.s \in Session /\ store[op'.s] # "none"
  /\ op'.at = "c.place" => op'.s = op.s /\ (op.at = "c.place" \/ pos # 0)

LEMMA OperationComesFrom ==
  ASSUME LiveInv, [LiveNext]_vars
  PROVE  ComesFrom
<1>1. ASSUME UNCHANGED <<op>> PROVE ComesFrom
  BY <1>1 DEF ComesFrom
<1>2. ASSUME op' = NoOp PROVE ComesFrom
  BY <1>2 DEF ComesFrom, NoOp
<1>3. ASSUME NEW a, NEW q, NEW d, a # "c.place" \/ pos # 0,
             \/ op' = [op EXCEPT !.at = a]
             \/ op' = [op EXCEPT !.at = a, !.seen = q]
             \/ op' = [op EXCEPT !.at = a, !.dir = d]
      PROVE  ComesFrom
  <2>1. op'.why = op.why /\ op'.s = op.s /\ op'.at = a
    BY <1>3 DEF LiveInv, LiveTypeOK, OperationOK
  <2> QED
    BY <1>3, <2>1 DEF ComesFrom
<1>4. ASSUME NEW s, NEW w, NEW n, EnterClose(s, w, n), w = "cycle" => op.why = "cycle" /\ s = op.s
      PROVE  ComesFrom
  <2>1. op'.why = w /\ op'.s = s /\ op'.at = "c.read"
    BY <1>4 DEF EnterClose, NoOp
  <2> QED
    BY <1>4, <2>1 DEF ComesFrom
<1>5. ASSUME NEW d, EnterOpen(op.s, op.why, d) PROVE ComesFrom
  <2>1. op'.why = op.why /\ op'.s = op.s /\ op'.at = "o.ambiguous"
    BY <1>5 DEF EnterOpen, NoOp
  <2> QED
    BY <2>1 DEF ComesFrom
<1>6. ASSUME NEW s, NEW q, NEW a, a # "c.place", op' = [Drift(s, q) EXCEPT !.at = a] PROVE ComesFrom
  <2>1. op'.why = "drift" /\ op'.at = a
    BY <1>6 DEF Drift, NoOp
  <2> QED
    BY <1>6, <2>1 DEF ComesFrom
<1>7. Fail => ComesFrom
  BY <1>2, <1>4 DEF Fail, End
<1>8. ASSUME NEW p, NEW t, NEW a \in Steps \ {"c.place"}, Await(p, t, a) \/ Proceed(a) PROVE ComesFrom
  BY <1>3, <1>8 DEF Await, Proceed
<1>9. Steps \ {"c.place"} = (Between \cup OpenAt \cup CloseAt \cup DriftAt \cup {"d.turn", "d.resubmit", "d.match"})
                                \ {"c.place"}
  BY DEF Steps, Between, OpenAt, CloseAt, DriftAt
<1>10. ASSUME NEW a \in {"o.adopt", "o.confirm"}, NEW q, op' = [op EXCEPT !.at = a, !.seen = q] PROVE ComesFrom
  BY <1>3, <1>10
<1>11. ASSUME NEW d, op' = [op EXCEPT !.at = "d.resubmit", !.dir = d] PROVE ComesFrom
  <2>1. op'.why = op.why /\ op'.s = op.s /\ op'.at = "d.resubmit"
    BY <1>11 DEF LiveInv, LiveTypeOK, OperationOK
  <2> QED
    BY <2>1 DEF ComesFrom
<1>12. ASSUME NEW s, NEW p, Commit(s, p) PROVE ComesFrom
  <2>1. "ok" \in Steps \ {"c.place"}
    BY DEF Steps
  <2> QED
    BY <1>7, <1>8, <1>12, <2>1 DEF Commit
<1>13. CASE Engine
  <2>1. CASE (AttemptStep /\ UNCHANGED liveVars) \/ OperationFails
    BY <1>1, <1>7, <2>1 DEF liveVars, OperationFails
  <2>2. CASE Finish
    BY <1>2, <1>5, <2>2 DEF Finish, End
  <2>3. CASE Decide
    <3>1. \/ End \/ Proceed("ok")
          \/ \E target : EnterOpen(op.s, op.why, target) \/ EnterClose(op.s, op.why, target)
      BY <2>3, Zenon DEF Decide
    <3> QED
      BY <1>2, <1>4, <1>5, <1>8, <1>9, <3>1 DEF End, Between
  <2>4. CASE OpenAsked \/ OpenPlaced
    BY <1>7, <1>8, <1>9, <1>10, <2>4 DEF OpenAsked, OpenPlaced, OpenAt
  <2>5. CASE OpenRetried \/ OpenEnsured \/ OpenConfirmed
    BY <1>7, <1>8, <1>12, <1>9, <2>5 DEF OpenRetried, OpenEnsured, OpenConfirmed, OpenAt
  <2>6. CASE CloseRead \/ CloseRetried \/ ClosePlaced \/ CloseConfirmed
    BY <1>7, <1>8, <1>12, <1>9, <2>6 DEF Between, CloseAt, CloseRead, CloseRetried, ClosePlaced, CloseConfirmed
  <2>7. CASE CloseAsked
    <3>1. virt[op.s] # 0 /\ virt[op.s] \in Int /\ pos \in Int
      BY <2>7, PositionFacts DEF CloseAsked, Returned, LiveInv, LiveTypeOK, Working
    <3>2. Dir(pos) = Dir(virt[op.s]) => pos # 0
      BY <3>1, DirTyped
    <3>3. ASSUME NEW t, pos # 0, Await("place", t, "c.place") PROVE ComesFrom
      BY <1>3, <3>3 DEF Await
    <3> QED
      BY <1>7, <1>8, <1>12, <1>9, <2>7, <3>2, <3>3 DEF CloseAsked, CloseAt
  <2>8. CASE DriftEnsured
    BY <1>2, <1>8, <1>9, <2>8 DEF DriftEnsured, Resubmit, End, DriftAt
  <2>9. CASE Flattened \/ FlatConfirmed \/ Turned \/ Resubmitted \/ MatchConfirmed
    BY <1>2, <1>8, <1>9, <1>11, <2>9 DEF DriftAt, Flattened, FlatConfirmed, Turned, Resubmitted, MatchConfirmed, End
  <2> QED
    BY <1>13, <2>1, <2>2, <2>3, <2>4, <2>5, <2>6, <2>8, <2>9, <2>7 DEF Engine
<1>14. CASE Reconcile
  <2>1. CASE PassBegin \/ PassLook
    BY <1>1, <2>1 DEF PassBegin, PassLook
  <2>2. CASE PassSweep \/ PassStop
    BY <1>1, <1>4, <2>2 DEF PassSweep, PassStop
  <2>3. CASE PassSync \/ PassFound
    BY <1>1, <1>6, <2>3 DEF PassSync, PassFound
  <2> QED
    BY <1>14, <2>1, <2>2, <2>3 DEF Reconcile
<1>15. CASE Environment \/ Poll \/ UNCHANGED vars
  BY <1>1, <1>15 DEF Environment, Create, RequestClose, ReleaseHold, Poll, vars, liveVars
<1>16. ASSUME NEW s \in Session, BeginCycle(s) PROVE ComesFrom
  <2>1. ASSUME op' = [NoOp EXCEPT !.why = IF store[s] = "soft" THEN "soft" ELSE "cycle", !.s = s, !.at = "decide"],
               store[s] # "none"
        PROVE  ComesFrom
    <3>1. op'.s = s /\ op'.at = "decide"
      BY <2>1 DEF NoOp
    <3> QED
      BY <2>1, <3>1 DEF ComesFrom
  <2> QED
    BY <1>4, <1>16, <2>1 DEF BeginCycle
<1>17. CASE EngineCrash \/ TaskAborted
  BY <1>2, <1>17 DEF EngineCrash, TaskAborted
<1> QED
  BY <1>13, <1>14, <1>15, <1>16, <1>17 DEF LiveNext

\* How the sessions' statuses change.
LEMMA StatusMoves ==
  ASSUME LiveInv, ClosingInv, [LiveNext]_vars
  PROVE  /\ UNCHANGED store \/ (store' = Polled /\ UNCHANGED session)
         /\ \/ UNCHANGED session
            \/ \E s \in Session : session' = [session EXCEPT ![s] = "closed"] /\ session[s] # "none"
            \/ \E s \in Session : Create(s) \/ RequestClose(s)
<1>1. CASE Engine
  <2>1. CASE Finish
    <3>1. CASE op.why \in Closers /\ session' = [session EXCEPT ![op.s] = "closed"]
      <4>1. op.s \in Session /\ session[op.s] # "none"
        BY <3>1 DEF LiveInv, Working, ClosingInv, Closers, Asked
      <4> QED
        BY <2>1, <3>1, <4>1 DEF Finish
    <3> QED
      BY <2>1, <3>1 DEF Finish, Closers
  <2> QED
    BY <1>1, <2>1 DEF Engine, liveVars, OperationFails, Decide, OpenAsked, OpenRetried, OpenEnsured,
       OpenPlaced, OpenConfirmed, CloseRead, CloseAsked, CloseRetried, ClosePlaced, CloseConfirmed,
       DriftEnsured, Flattened, FlatConfirmed, Turned, Resubmitted, MatchConfirmed
<1>2. CASE Reconcile
  BY <1>2 DEF Reconcile, PassBegin, PassSweep, PassStop, PassSync, PassLook, PassFound
<1>3. CASE Environment
  BY <1>3 DEF Environment, Create, RequestClose, ReleaseHold, liveVars
<1>4. CASE Poll \/ EngineCrash \/ TaskAborted \/ (\E s \in Session : BeginCycle(s)) \/ UNCHANGED vars
  BY <1>4 DEF Poll, EngineCrash, TaskAborted, BeginCycle, vars, liveVars
<1> QED
  BY <1>1, <1>2, <1>3, <1>4 DEF LiveNext

LEMMA SessNext ==
  ASSUME Cautious, LiveInv, ClosingInv, SessInv, [LiveNext]_vars
  PROVE  SessInv'
<1> USE DEF Running
<1>1. session \in [Session -> SessionStatus] /\ virt \in [Session -> Position]
  BY DEF LiveInv, LiveTypeOK
<1>2. \A s \in Session : session'[s] = "none" => session[s] = "none"
  BY <1>1, StatusMoves DEF Create, RequestClose
<1>3. \A s \in Session : store'[s] # "none" => session'[s] # "none"
  BY <1>2, StatusMoves DEF SessInv, Polled
<1>4. op'.why = "cycle" => session'[op'.s] # "none"
  <2>1. op.why = "cycle" => op.s \in Session
    BY DEF LiveInv, Working
  <2> QED
    BY <1>2, <2>1, OperationComesFrom DEF ComesFrom, SessInv
<1>5. ASSUME NEW s \in Session, session'[s] = "none" PROVE virt'[s] = 0
  <2>1. session[s] = "none" /\ virt[s] = 0
    BY <1>2, <1>5 DEF SessInv
  <2>2. ASSUME NEW x, NEW q, SetVirt(x, q), q = 0 \/ x # s PROVE virt'[s] = 0
    BY <1>1, <2>1, <2>2 DEF SetVirt
  <2>3. op.at \in Confirming => op.s # s
    BY <2>1 DEF Confirming, ClosingInv, OpenAt, SessInv
  <2> QED
    BY <2>1, <2>2, <2>3, VirtMoves
<1>6. ASSUME NEW r \in Session, NEW s \in Session, Running(r)', Running(s)' PROVE r = s
  <2>1. CASE \E x \in Session : Create(x)
    BY <1>1, <1>6, <2>1 DEF Create, SessInv
  <2>2. CASE \A x \in Session : Running(x)' => Running(x)
    BY <1>6, <2>2 DEF SessInv
  <2> QED
    BY <1>1, <2>1, <2>2, StatusMoves DEF RequestClose
<1> QED
  BY <1>3, <1>4, <1>5, <1>6 DEF SessInv

\* Whoever opens is the only one who could have a position, and has none.
LEMMA OpeningAlone ==
  ASSUME LiveInv, ClosingInv, ClosedHasNoPosition, SessInv, WorkInv, op.at \in OpenAt, NEW s \in Session
  PROVE  virt[s] = 0
<1>1. op.why = "cycle" /\ op.s \in Session /\ Running(op.s) /\ virt[op.s] = 0
  BY DEF ClosingInv, LiveInv, Working, SessInv, Running, WorkInv, OpenAt
<1>2. CASE Running(s)
  BY <1>1, <1>2 DEF SessInv
<1>3. CASE ~Running(s)
  BY <1>3 DEF Running, SessInv, ClosedHasNoPosition
<1> QED
  BY <1>2, <1>3
-----------------------------------------------------------------------------
(* What an order can do to the position.                                   *)

\* An order that could open a position is the row's only while nobody has one.
OpensInv == RowOpens => \A s \in Session : virt[s] = 0

LEMMA StepKinds ==
  ASSUME [LiveNext]_vars
  PROVE  \/ (AttemptStep \/ NetworkStep \/ OutsideStep) /\ UNCHANGED liveVars
         \/ UNCHANGED <<terms, book, pos, row>>
<1> USE DEF lowerVars, exchangeVars, attemptVars
<1>1. CASE Engine
  BY <1>1 DEF Engine, OperationFails, Finish, Decide, OpenAsked, OpenRetried, OpenEnsured, OpenPlaced,
     OpenConfirmed, CloseRead, CloseAsked, CloseRetried, ClosePlaced, CloseConfirmed, DriftEnsured,
     Flattened, FlatConfirmed, Turned, Resubmitted, MatchConfirmed
<1>2. CASE Reconcile
  BY <1>2 DEF Reconcile, PassBegin, PassSweep, PassStop, PassSync, PassLook, PassFound
<1>3. CASE Environment
  BY <1>3 DEF Environment, Create, RequestClose, ReleaseHold
<1>4. CASE Poll \/ EngineCrash \/ TaskAborted \/ (\E s \in Session : BeginCycle(s)) \/ UNCHANGED vars
  BY <1>4 DEF Poll, EngineCrash, Crash, TaskAborted, Abort, BeginCycle, vars
<1> QED
  BY <1>1, <1>2, <1>3, <1>4 DEF LiveNext

LEMMA OpensNext ==
  ASSUME Immediate, Cautious, OrderFacts, LiveInv, ClosingInv, ClosedHasNoPosition, SessInv, WorkInv,
         OpensInv, [LiveNext]_vars
  PROVE  OpensInv'
<1> SUFFICES ASSUME RowOpens', NEW s \in Session PROVE virt'[s] = 0
  BY DEF OpensInv
<1>1. CASE AttemptStep /\ UNCHANGED liveVars
  <2>1. RowOpens \/ (call.at = "persist" /\ ~terms[call.id].reduce)
    BY <1>1, HelperCarries DEF OrderFacts
  <2>2. RowOpens \/ op.at \in OpenAt
    BY <2>1 DEF WorkInv, OpenAt
  <2> QED
    BY <1>1, <2>2, OpeningAlone DEF OpensInv, liveVars
<1>2. CASE NetworkStep /\ UNCHANGED liveVars
  <2>1. RowOpens
    BY <1>2, NetworkFills
    DEF OrderFacts, Immediate, RowOpens, Execute, TypeOK, AttemptTypeOK, ExchangeTypeOK
  <2> QED
    BY <1>2, <2>1 DEF OpensInv, liveVars
<1>3. CASE OutsideStep /\ UNCHANGED liveVars
  BY <1>3 DEF OutsideStep, Outside, RowOpens, OpensInv, liveVars
<1>4. CASE UNCHANGED <<terms, book, pos, row>>
  <2>1. RowOpens /\ \A x \in Session : virt[x] = 0
    BY <1>4 DEF RowOpens, OpensInv
  <2>2. op.at \notin Confirming
    BY <2>1 DEF WorkInv, RowOpens, RowSettled
  <2> QED
    BY <2>1, <2>2, VirtMoves DEF SetVirt, LiveInv, LiveTypeOK
<1> QED
  BY <1>1, <1>2, <1>3, <1>4, StepKinds

\* While somebody has a position, no order of the row opens or grows one.
LEMMA PositionShrinks ==
  ASSUME Immediate, OrderFacts, LiveInv, OpensInv, NetworkStep, NEW s \in Session, virt[s] # 0
  PROVE  Abs(pos') <= Abs(pos) /\ (pos = 0 => pos' = 0)
<1> USE DEF OrderFacts, TypeOK, AttemptTypeOK, ExchangeTypeOK
<1>1. CASE UNCHANGED <<book, pos>>
  BY <1>1 DEF Abs
<1>2. ASSUME NEW q \in Int, row \in Cloid, Execute(row, q)
      PROVE  Abs(pos') <= Abs(pos) /\ (pos = 0 => pos' = 0)
  <2>1. terms[row] \in Terms /\ terms[row].reduce
    BY <1>2 DEF Execute, OpensInv, RowOpens, None, Cloid
  <2>2. q \in Fills(terms[row], pos) /\ pos' = pos + q
    BY <1>2 DEF Execute
  <2>3. Abs(pos + q) <= Abs(pos) /\ (pos = 0 => q = 0)
    BY <1>2, <2>1, <2>2, ReduceShrinks
  <2> QED
    BY <1>2, <2>2, <2>3
<1> QED
  BY <1>1, <1>2, NetworkFills DEF Immediate

\* What is booked: a close, once, of a position that still stands in the engine
\* and no longer on the exchange.
BookedInv ==
  /\ \A s \in Session : booked[s] <= 1 /\ (booked[s] > 0 => virt[s] # 0 /\ pos = 0)
  /\ op.at = "c.place" => booked[op.s] = 0

LEMMA BookedNext ==
  ASSUME OutsidePos \subseteq {0}, Immediate, Cautious, OrderFacts, LiveInv, WorkInv, OpensInv, BookedInv,
         [LiveNext]_vars
  PROVE  BookedInv'
<1>1. booked \in [Session -> Nat] /\ virt \in [Session -> Position]
  BY DEF LiveInv, LiveTypeOK
<1>2. CASE (AttemptStep \/ NetworkStep \/ OutsideStep) /\ UNCHANGED liveVars
  <2>1. ASSUME NEW s \in Session, virt[s] # 0, pos = 0 PROVE pos' = 0
    <3>1. CASE AttemptStep
      BY <2>1, <3>1, HelperCarries DEF OrderFacts
    <3>2. CASE NetworkStep
      BY <2>1, <3>2, PositionShrinks
    <3>3. CASE OutsideStep
      BY <3>3 DEF OutsideStep, Outside
    <3> QED
      BY <1>2, <3>1, <3>2, <3>3
  <2> QED
    BY <1>2, <2>1 DEF BookedInv, liveVars
<1>3. CASE UNCHANGED <<terms, book, pos, row>>
  <2>1. ASSUME op'.at = "c.place", UNCHANGED booked PROVE booked'[op'.s] = 0
    <3>1. op'.s = op.s /\ (op.at = "c.place" \/ pos # 0)
      BY <2>1, OperationComesFrom DEF ComesFrom
    <3>2. op'.s \in Session
      BY <2>1, OperationKept DEF Working
    <3> QED
      BY <1>1, <2>1, <3>1, <3>2 DEF BookedInv
  <2>2. CASE UNCHANGED <<virt, booked>>
    BY <1>3, <2>1, <2>2 DEF BookedInv
  <2>3. ASSUME NEW x \in Session, NEW p, SetVirt(x, p), virt[x] = 0 \/ p = 0 PROVE BookedInv'
    <3>1. booked[x] > 0 => p = 0
      BY <2>3 DEF BookedInv
    <3>2. \A s \in Session : booked'[s] = booked[s] \/ booked'[s] = 0
      BY <1>1, <2>3 DEF SetVirt
    <3>3. \A s \in Session : booked'[s] > 0 => s # x /\ virt'[s] = virt[s]
      BY <1>1, <2>3, <3>1 DEF SetVirt, BookedInv
    <3>4. op'.at = "c.place" => booked'[op'.s] = 0
      <4>1. SUFFICES ASSUME op'.at = "c.place" PROVE booked'[op'.s] = 0
        OBVIOUS
      <4>2. op'.s = op.s /\ op'.s \in Session /\ (op.at = "c.place" \/ pos # 0)
        BY <4>1, OperationComesFrom, OperationKept DEF ComesFrom, Working
      <4> QED
        BY <1>1, <3>2, <4>2 DEF BookedInv
    <3> QED
      BY <1>1, <1>3, <3>2, <3>3, <3>4 DEF BookedInv
  <2>4. CASE op.at \in Confirming /\ op.s \in Session /\ SetVirt(op.s, op.seen)
    <3>1. virt[op.s] = 0
      BY <2>4 DEF WorkInv, Confirming, OpenAt
    <3> QED
      BY <2>3, <2>4, <3>1
  <2>5. CASE /\ op.at = "c.place" /\ op.s \in Session /\ pos = 0 /\ op'.at # "c.place"
             /\ UNCHANGED virt
             /\ booked' = [booked EXCEPT ![op.s] = @ + 1]
    <3>1. virt[op.s] # 0 /\ booked[op.s] = 0
      BY <2>5 DEF WorkInv, CloseAt, BookedInv
    <3> QED
      BY <1>1, <1>3, <2>5, <3>1 DEF BookedInv
  <2> QED
    BY <2>2, <2>3, <2>4, <2>5, VirtMoves
<1> QED
  BY <1>2, <1>3, StepKinds
-----------------------------------------------------------------------------
(* What follows for every behaviour.                                       *)

LEMMA OrderAlways ==
  ASSUME Immediate
  PROVE  LiveSpec => []OrderFacts
<1>1. AttemptSpec => [](TypeOK /\ CallInv /\ KnownInv /\ QuietInv /\ FillInv)
  BY FillAlways DEF Immediate
<1>2. (TypeOK /\ CallInv /\ KnownInv /\ QuietInv /\ FillInv) => OrderFacts
  BY DEF OrderFacts
<1> QED
  BY <1>1, <1>2, LayerImplemented, PTL DEF OrderLayer

LEMMA WorkAlways ==
  ASSUME Immediate, Cautious
  PROVE  LiveSpec => [](SessInv /\ WorkInv /\ OpensInv)
<1>1. ASSUME LiveInit PROVE SessInv /\ WorkInv /\ OpensInv
  BY <1>1 DEF LiveInit, AttemptInit, SessInv, WorkInv, OpensInv, RowOpens, Running, NoOp, NoCall, OpenAt,
     CloseAt, DriftAt, Confirming, Between
<1>2. LiveInv /\ ClosingInv /\ SessInv /\ [LiveNext]_vars => SessInv'
  BY SessNext
<1>3. OrderFacts /\ LiveInv /\ WorkInv /\ [LiveNext]_vars => WorkInv'
  BY WorkNext
<1>4. /\ OrderFacts /\ LiveInv /\ ClosingInv /\ ClosedHasNoPosition /\ SessInv /\ WorkInv /\ OpensInv
      /\ [LiveNext]_vars
      => OpensInv'
  BY OpensNext
<1>5. LiveSpec => []OrderFacts
  BY OrderAlways
<1>6. LiveSpec => [](CopyInv /\ ClosingInv /\ ClosedHasNoPosition)
  BY ClosedAlways DEF Cautious
<1> QED
  BY <1>1, <1>2, <1>3, <1>4, <1>5, <1>6, LiveAlways, PTL DEF LiveSpec

\* One close is booked once: a virtual position never gets a second trade,
\* whatever fails, crashes or is aborted between the exchange's fill, the row in
\* trade_history and the deletion of the position. For orders that are over when
\* the exchange has answered, a policy that neither re-submits nor adopts a
\* mismatch (the default one), and an account in which nobody trades by hand
\* (live_execution.rs: close, retry_ambiguous_submission).
THEOREM BookedOnce ==
  ASSUME Immediate, Cautious, OutsidePos \subseteq {0}
  PROVE  LiveSpec => []TradeBookedOnce
<1>1. LiveInit => BookedInv
  BY DEF LiveInit, BookedInv, NoOp
<1>2. OrderFacts /\ LiveInv /\ WorkInv /\ OpensInv /\ BookedInv /\ [LiveNext]_vars => BookedInv'
  BY BookedNext
<1>3. BookedInv => TradeBookedOnce
  BY DEF BookedInv, TradeBookedOnce
<1>4. LiveSpec => []OrderFacts
  BY OrderAlways
<1> QED
  BY <1>1, <1>2, <1>3, <1>4, WorkAlways, LiveAlways, PTL DEF LiveSpec

\* A close never grows the position, not even by an order it finds and sends
\* again: whatever is left of an earlier operation when there is a position to
\* close is reduce-only (live_execution.rs: close, retry_ambiguous_submission).
THEOREM ClosesNeverGrow ==
  ASSUME Immediate, Cautious
  PROVE  LiveSpec => CloseNeverGrows
<1>1. ASSUME OrderFacts, LiveInv, WorkInv, OpensInv, [LiveNext]_vars, op.at \in CloseAt, book' # book
      PROVE  Abs(pos') <= Abs(pos)
  <2>1. virt[op.s] # 0 /\ op.s \in Session /\ pos \in Int
    BY <1>1, PositionFacts DEF WorkInv, LiveInv, Working, CloseAt
  <2>2. CASE AttemptStep
    BY <1>1, <2>1, <2>2, HelperCarries DEF OrderFacts, Abs
  <2>3. CASE NetworkStep
    BY <1>1, <2>1, <2>3, PositionShrinks
  <2> QED
    BY <1>1, <2>2, <2>3, StepKinds DEF OutsideStep, Outside
<1>2. OrderFacts /\ LiveInv /\ WorkInv /\ OpensInv /\ [LiveNext]_vars
        => (op.at \in {"c.ambiguous", "c.retry", "c.place", "c.confirm"} =>
              (book' # book => Abs(pos') <= Abs(pos)))
  BY <1>1 DEF CloseAt
<1>3. LiveSpec => []OrderFacts
  BY OrderAlways
<1> QED
  BY <1>2, <1>3, WorkAlways, LiveAlways, PTL DEF LiveSpec, CloseNeverGrows

\* While the PERP is held, no order of a decision, a close or a stop-loss opens
\* or grows a position: the hold is set only under the reconcile loop's own claim,
\* the cycle looks at it under its claim, and what is left of an earlier one is
\* not opening (supervisor.rs: run_decision_cycle; live_execution.rs).
THEOREM HeldOpensNothing ==
  ASSUME Immediate, Cautious
  PROVE  LiveSpec => HeldNeverOpens
<1>1. ASSUME OrderFacts, LiveInv, WorkInv, OpensInv, [LiveNext]_vars, hold, op.why # "drift", book' # book
      PROVE  Abs(pos') <= Abs(pos)
  <2>1. CASE AttemptStep
    BY <1>1, <2>1, PositionFacts, HelperCarries DEF OrderFacts, LiveInv, Abs
  <2>2. CASE NetworkStep
    <3>1. call.at = "await"
      BY <1>1, <2>2, NetworkFills DEF OrderFacts, Immediate
    <3>2. op.at \in CloseAt
      BY <1>1, <3>1 DEF LiveInv, Owner, WorkInv
    <3>3. virt[op.s] # 0 /\ op.s \in Session
      BY <1>1, <3>2 DEF WorkInv, LiveInv, Working, CloseAt
    <3> QED
      BY <1>1, <2>2, <3>3, PositionShrinks
  <2> QED
    BY <1>1, <2>1, <2>2, StepKinds DEF OutsideStep, Outside
<1>2. OrderFacts /\ LiveInv /\ WorkInv /\ OpensInv /\ [LiveNext]_vars
        => (hold /\ op.why # "drift" /\ book' # book => Abs(pos') <= Abs(pos))
  BY <1>1
<1>3. LiveSpec => []OrderFacts
  BY OrderAlways
<1> QED
  BY <1>2, <1>3, WorkAlways, LiveAlways, PTL DEF LiveSpec, HeldNeverOpens
=============================================================================
