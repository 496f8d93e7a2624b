------------------------- MODULE OrderAttempt_proofs -------------------------
(***************************************************************************)
(* Proofs about OrderAttempt, for every pool of client order ids, every    *)
(* order size and every number of failures.                                *)
(***************************************************************************)
EXTENDS OrderAttempt, TLAPS

-----------------------------------------------------------------------------
(* How a step changes the call.                                            *)

LEMMA NoCallTyped == NoTerms \in Terms /\ NoCall \in Call
<1>1. NoTerms \in Terms
  BY ExchangeAssumption DEF NoTerms, Terms
<1>2. QED
  BY <1>1 DEF NoCall, Call, Procs, Labels, Results

LEMMA GotoTyped ==
  ASSUME call \in Call, NEW l \in Labels, Goto(l)
  PROVE  /\ call' \in Call
         /\ call'.at = l
         /\ call'.id = call.id /\ call'.res = call.res /\ call'.proc = call.proc
BY DEF Goto, Call

LEMMA EnterTyped ==
  ASSUME call \in Call, NEW l \in Labels, NEW c \in Cloid \cup {None},
         call' = [call EXCEPT !.at = l, !.id = c]
  PROVE  /\ call' \in Call
         /\ call'.at = l
         /\ call'.id = c /\ call'.res = call.res /\ call'.proc = call.proc
BY DEF Call

LEMMA ReturnTyped ==
  ASSUME call \in Call, NEW r \in Results, Return(r)
  PROVE  /\ call' \in Call
         /\ call'.at = "done"
         /\ call'.id = None /\ call'.res = r /\ call'.proc = call.proc
<1>1. "done" \in Labels /\ NoTerms \in Terms
  BY NoCallTyped DEF Labels
<1>2. QED
  BY <1>1 DEF Return, Call

LEMMA InvokeTyped ==
  ASSUME NEW p \in Procs \ {"none"}, NEW t \in Terms, Invoke(p, t)
  PROVE  /\ call' \in Call
         /\ call'.at \in {"load", "reload", "lookup", "ask", "clearMem"}
         /\ call'.id = None /\ call'.res = "none" /\ call'.proc = p
         /\ call'.at = "clearMem" => call.res = "no"
<1>1. /\ Entry(p) \in {"load", "reload", "lookup", "ask", "clearMem"}
      /\ Entry(p) = "clearMem" => p = "clear"
  BY DEF Entry, Procs
<1>2. QED
  BY <1>1, NoCallTyped DEF Invoke, Call, Labels, Results

LEMMA FaultTyped ==
  ASSUME faults \in 0..MaxFaults, Fault
  PROVE  faults' \in 0..MaxFaults
BY AttemptAssumption DEF Fault

\* What a call that has confirmed, cleared or answered goes on to do.
LEMMA ConfirmedTyped ==
  ASSUME call \in Call, Confirmed
  PROVE  /\ call' \in Call
         /\ call'.at \in {"ask", "done"}
         /\ call'.at = "ask" => call'.res = call.res
         /\ call'.at = "done" => call'.res = "ok"
BY GotoTyped, ReturnTyped DEF Confirmed, Labels, Results

LEMMA ClearedTyped ==
  ASSUME call \in Call, Cleared
  PROVE  /\ call' \in Call
         /\ call'.at \in {"ask", "done"}
         /\ call'.at = "ask" => call'.res = call.res
         /\ call'.at = "done" => call'.res \in {"ok", "err"}
BY ConfirmedTyped, ReturnTyped DEF Cleared, Results

LEMMA AnswerTyped ==
  ASSUME call \in Call, NEW b \in BOOLEAN, Answer(b)
  PROVE  /\ call' \in Call
         /\ call'.at = "done"
         /\ call'.res = "no" => ~b
BY ReturnTyped DEF Answer, Results

LEMMA AbandonTyped ==
  ASSUME AttemptTypeOK, Abandon
  PROVE  /\ reply' = "none"
         /\ late' \subseteq Cloid
         /\ ~Delayed => late' = late
<1>1. call.at = "await" => call.id \in Cloid
  BY DEF AttemptTypeOK, Carrying, Call
<1>2. QED
  BY <1>1 DEF Abandon, AttemptTypeOK

-----------------------------------------------------------------------------
(* Type correctness.                                                       *)

LEMMA InitTyped == AttemptInit => TypeOK
BY NoCallTyped, ExchangeAssumption, AttemptAssumption
DEF AttemptInit, TypeOK, AttemptTypeOK, ExchangeTypeOK, OrderStatus, Replies,
    NoCall, Carrying

\* The exchange's moves keep its own state well typed.
LEMMA ExecuteTyped ==
  ASSUME ExchangeTypeOK, NEW c \in Cloid, NEW q \in -MaxSize..MaxSize, Execute(c, q)
  PROVE  /\ book' \in [Cloid -> OrderStatus]
         /\ pos' \in Int
BY ExchangeAssumption DEF Execute, ExchangeTypeOK, OrderStatus

LEMMA AcknowledgeTyped ==
  ASSUME ExchangeTypeOK, NEW c \in Cloid, Acknowledge(c)
  PROVE  /\ book' \in [Cloid -> OrderStatus]
         /\ pos' \in Int
BY DEF Acknowledge, ExchangeTypeOK, OrderStatus

LEMMA NextTyped == TypeOK /\ [AttemptNext]_attemptVars => TypeOK'
<1> SUFFICES ASSUME TypeOK, [AttemptNext]_attemptVars PROVE TypeOK'
  OBVIOUS
<1> USE DEF TypeOK, AttemptTypeOK, exchangeVars
<1>0. /\ call \in Call
      /\ call.want \in Terms
      /\ call.at \in Carrying => call.id \in Cloid
  BY DEF Call
<1>1. CASE PropagateError
  BY <1>1, <1>0, ReturnTyped, FaultTyped
  DEF PropagateError, Results, ExchangeTypeOK, Carrying
<1>2. CASE Load
  <2> DEFINE pending == IF mem # None THEN mem ELSE row
  <2>1. pending # None => pending \in Cloid
    OBVIOUS
  <2>2. call' \in Call /\ (call'.at \in Carrying => call'.id # None)
    <3>1. CASE Goto("sign")
      BY <3>1, GotoTyped DEF Labels, Carrying
    <3>2. CASE pending # None /\ call' = [call EXCEPT !.at = "send", !.id = pending]
      <4>1. "send" \in Labels
        BY DEF Labels
      <4>2. QED
        BY <4>1, <3>2, <2>1, EnterTyped
    <3>3. CASE Return("err")
      BY <3>3, ReturnTyped DEF Results, Carrying
    <3>4. QED
      BY <1>2, <3>1, <3>2, <3>3 DEF Load
  <2>3. QED
    BY <1>2, <2>2 DEF Load, ExchangeTypeOK
<1>3. CASE Sign
  <2>1. PICK c \in Cloid : /\ terms' = [terms EXCEPT ![c] = call.want]
                           /\ book' = [book EXCEPT ![c] = "unseen"]
                           /\ call' = [call EXCEPT !.at = "persist", !.id = c]
    BY <1>3 DEF Sign
  <2>2. call' \in Call /\ call'.id = c
    <3>1. "persist" \in Labels
      BY DEF Labels
    <3>2. QED
      BY <2>1, <3>1, EnterTyped
  <2>3. c # None
    BY DEF Cloid, None
  <2>4. terms' \in [Cloid -> Terms] /\ book' \in [Cloid -> OrderStatus]
    BY <2>1, <1>0 DEF ExchangeTypeOK, OrderStatus
  <2>5. QED
    BY <1>3, <2>2, <2>3, <2>4 DEF Sign, ExchangeTypeOK
<1>4. CASE Persist
  <2>1. row' \in Cloid \cup {None}
    BY <1>4, <1>0 DEF Persist, Inserted, Carrying
  <2>2. call' \in Call /\ (call'.at \in Carrying => call'.id # None)
    BY <1>4, <1>0, GotoTyped, ReturnTyped DEF Persist, Labels, Results, Carrying
  <2>3. QED
    BY <1>4, <2>1, <2>2, FaultTyped DEF Persist, ExchangeTypeOK
<1>5. CASE Remember
  BY <1>5, <1>0, GotoTyped DEF Remember, Labels, Carrying, ExchangeTypeOK
<1>6. CASE Reload
  <2>1. CASE Return("err")
    BY <1>6, <2>1, ReturnTyped DEF Reload, Results, Carrying, ExchangeTypeOK
  <2>2. CASE row # None /\ call' = [call EXCEPT !.at = "send", !.id = row]
    <3>1. "send" \in Labels
      BY DEF Labels
    <3>2. call' \in Call /\ call'.id = row
      BY <2>2, <3>1, EnterTyped
    <3>3. QED
      BY <1>6, <2>2, <3>2 DEF Reload, ExchangeTypeOK
  <2>3. QED
    BY <1>6, <2>1, <2>2 DEF Reload
<1>7. CASE Send
  BY <1>7, <1>0, GotoTyped DEF Send, Labels, Carrying, ExchangeTypeOK
<1>8. CASE ReplyOk
  BY <1>8, <1>0, ReturnTyped DEF ReplyOk, Results, Carrying, ExchangeTypeOK, Replies
<1>9. CASE ReplyRejected
  BY <1>9, <1>0, GotoTyped DEF ReplyRejected, Labels, Carrying, ExchangeTypeOK, Replies
<1>10. CASE TransportError
  BY <1>10, <1>0, ReturnTyped, FaultTyped, AbandonTyped
  DEF TransportError, Results, Carrying, ExchangeTypeOK, Replies
<1>11. CASE Lookup
  <2>1. CASE Confirmed
    BY <1>11, <2>1, <1>0, ConfirmedTyped DEF Lookup, Carrying, ExchangeTypeOK
  <2>2. CASE row # None /\ call' = [call EXCEPT !.at = "status", !.id = row]
    <3>1. "status" \in Labels
      BY DEF Labels
    <3>2. call' \in Call /\ call'.id = row
      BY <2>2, <3>1, EnterTyped
    <3>3. QED
      BY <1>11, <2>2, <3>2 DEF Lookup, ExchangeTypeOK
  <2>3. QED
    BY <1>11, <2>1, <2>2 DEF Lookup
<1>12. CASE Status
  BY <1>12, <1>0, ConfirmedTyped, GotoTyped
  DEF Status, Labels, Carrying, ExchangeTypeOK
<1>13. CASE ClearMem
  BY <1>13, <1>0, GotoTyped DEF ClearMem, Labels, Carrying, ExchangeTypeOK
<1>14. CASE ClearRow
  BY <1>14, <1>0, ClearedTyped, FaultTyped DEF ClearRow, Carrying, ExchangeTypeOK
<1>15. CASE Ask
  <2>1. PICK b \in BOOLEAN : Answer(b)
    BY <1>15 DEF Ask
  <2>2. call' \in Call /\ call'.at = "done"
    BY <2>1, <1>0, AnswerTyped
  <2>3. QED
    BY <1>15, <2>2, FaultTyped DEF Ask, Carrying, ExchangeTypeOK
<1>16. CASE Deliver
  <2>1. book' \in [Cloid -> OrderStatus] /\ pos' \in Int
    BY <1>16, <1>0, ExecuteTyped, AcknowledgeTyped DEF Deliver, Carrying, ExchangeTypeOK
  <2>2. reply' \in Replies
    BY <1>16, ExchangeAssumption DEF Deliver, Replies
  <2>3. QED
    BY <1>16, <2>1, <2>2 DEF Deliver, ExchangeTypeOK
<1>17. CASE DeliverLate
  <2>1. book' \in [Cloid -> OrderStatus] /\ pos' \in Int
    BY <1>17, ExecuteTyped, AcknowledgeTyped DEF DeliverLate, ExchangeTypeOK
  <2>2. QED
    BY <1>17, <2>1 DEF DeliverLate, ExchangeTypeOK
<1>18. CASE Settle
  <2>1. book' \in [Cloid -> OrderStatus] /\ pos' \in Int
    BY <1>18, ExecuteTyped DEF Settle
  <2>2. QED
    BY <1>18, <2>1 DEF Settle, ExchangeTypeOK
<1>19. CASE CallerStep
  <2>1. call' \in Call /\ call'.at \notin Carrying
    BY <1>19, InvokeTyped, NoCallTyped DEF CallerStep, Carrying, NoCall
  <2>2. QED
    BY <1>19, <2>1, FaultTyped DEF CallerStep, ExchangeTypeOK
<1>20. CASE Crash \/ Abort
  BY <1>20, NoCallTyped, FaultTyped, AbandonTyped
  DEF Crash, Abort, NoCall, Carrying, ExchangeTypeOK, Replies
<1>21. CASE OutsideStep
  BY <1>21, FaultTyped, ExchangeAssumption DEF OutsideStep, Outside, ExchangeTypeOK
<1>22. CASE UNCHANGED attemptVars
  BY <1>22 DEF attemptVars, ExchangeTypeOK
<1>23. QED
  BY <1>1, <1>2, <1>3, <1>4, <1>5, <1>6, <1>7, <1>8, <1>9, <1>10, <1>11, <1>12,
     <1>13, <1>14, <1>15, <1>16, <1>17, <1>18, <1>19, <1>20, <1>21, <1>22
  DEF AttemptNext, AttemptStep, NetworkStep

\* Every variable keeps its type, and a call that is about to use an order id
\* has one, in every behaviour of the Order Attempt.
THEOREM TypeCorrect == AttemptSpec => []TypeOK
BY InitTyped, NextTyped, PTL DEF AttemptSpec

-----------------------------------------------------------------------------
(* What is true at each label, for any exchange and any network.           *)

LEMMA InitCall == AttemptInit => CallInv
BY DEF AttemptInit, CallInv, MemBacked, NoCall, Carrying

LEMMA NextCall ==
  ASSUME TypeOK, CallInv, [AttemptNext]_attemptVars
  PROVE  CallInv'
<1> USE DEF TypeOK, AttemptTypeOK, CallInv, MemBacked, Carrying
<1>0. None \notin Cloid
  BY DEF None, Cloid
<1>1. CASE PropagateError
  BY <1>1, ReturnTyped DEF PropagateError, Results
<1>2. CASE Load
  <2> DEFINE pending == IF mem # None THEN mem ELSE row
  <2>1. pending = row
    OBVIOUS
  <2>2. CASE pending = None /\ Goto("sign")
    BY <1>2, <2>1, <2>2, GotoTyped DEF Load, Labels
  <2>3. CASE pending # None /\ call' = [call EXCEPT !.at = "send", !.id = pending]
    <3>1. "send" \in Labels
      BY DEF Labels
    <3>2. call'.at = "send" /\ call'.id = pending /\ call'.res = call.res
      BY <2>3, <3>1, EnterTyped
    <3>3. QED
      BY <1>2, <2>1, <3>2 DEF Load
  <2>4. CASE Return("err")
    BY <1>2, <2>4, ReturnTyped DEF Load, Results
  <2>5. QED
    BY <1>2, <2>2, <2>3, <2>4 DEF Load
<1>3. CASE Sign
  <2>1. PICK c \in Cloid : call' = [call EXCEPT !.at = "persist", !.id = c]
    BY <1>3 DEF Sign
  <2>2. "persist" \in Labels
    BY DEF Labels
  <2>3. call'.at = "persist" /\ call'.res = call.res
    BY <2>1, <2>2, EnterTyped
  <2>4. QED
    BY <1>3, <2>3 DEF Sign
<1>4. CASE Persist
  <2>1. row = None /\ mem = None /\ Inserted = call.id
    BY <1>4 DEF Persist, Inserted
  <2>2. CASE Goto("remember") /\ row' = Inserted
    BY <1>4, <2>1, <2>2, GotoTyped DEF Persist, Labels
  <2>3. CASE Return("err")
    BY <1>4, <2>1, <2>3, ReturnTyped DEF Persist, Results
  <2>4. QED
    BY <1>4, <2>2, <2>3 DEF Persist
<1>5. CASE Remember
  BY <1>5, GotoTyped DEF Remember, Labels
<1>6. CASE Reload
  <2>1. CASE Return("err")
    BY <1>6, <2>1, ReturnTyped DEF Reload, Results
  <2>2. CASE row # None /\ call' = [call EXCEPT !.at = "send", !.id = row]
    <3>1. "send" \in Labels
      BY DEF Labels
    <3>2. call'.at = "send" /\ call'.id = row /\ call'.res = call.res
      BY <2>2, <3>1, EnterTyped
    <3>3. QED
      BY <1>6, <3>2 DEF Reload
  <2>3. QED
    BY <1>6, <2>1, <2>2 DEF Reload
<1>7. CASE Send
  BY <1>7, GotoTyped DEF Send, Labels
<1>8. CASE ReplyOk
  BY <1>8, ReturnTyped DEF ReplyOk, Results
<1>9. CASE ReplyRejected
  BY <1>9, GotoTyped DEF ReplyRejected, Labels
<1>10. CASE TransportError
  BY <1>10, ReturnTyped DEF TransportError, Results
<1>11. CASE Lookup
  <2>1. CASE Confirmed
    BY <1>11, <2>1, ConfirmedTyped DEF Lookup
  <2>2. CASE row # None /\ call' = [call EXCEPT !.at = "status", !.id = row]
    <3>1. "status" \in Labels
      BY DEF Labels
    <3>2. call'.at = "status" /\ call'.id = row /\ call'.res = call.res
      BY <2>2, <3>1, EnterTyped
    <3>3. QED
      BY <1>11, <3>2 DEF Lookup
  <2>3. QED
    BY <1>11, <2>1, <2>2 DEF Lookup
<1>12. CASE Status
  BY <1>12, ConfirmedTyped, GotoTyped DEF Status, Labels
<1>13. CASE ClearMem
  BY <1>13, GotoTyped DEF ClearMem, Labels
<1>14. CASE ClearRow
  BY <1>14, ClearedTyped DEF ClearRow
<1>15. CASE Ask
  BY <1>15, AnswerTyped DEF Ask
<1>16. CASE NetworkStep
  BY <1>16 DEF NetworkStep, Deliver, DeliverLate, Settle
<1>17. CASE CallerStep
  BY <1>17, InvokeTyped DEF CallerStep, NoCall
<1>18. CASE Crash \/ Abort
  BY <1>18 DEF Crash, Abort, NoCall
<1>19. CASE OutsideStep \/ UNCHANGED attemptVars
  BY <1>19 DEF OutsideStep, attemptVars
<1>20. QED
  BY <1>1, <1>2, <1>3, <1>4, <1>5, <1>6, <1>7, <1>8, <1>9, <1>10, <1>11, <1>12,
     <1>13, <1>14, <1>15, <1>16, <1>17, <1>18, <1>19
  DEF AttemptNext, AttemptStep

LEMMA CallAlways == AttemptSpec => [](TypeOK /\ CallInv)
BY InitTyped, NextTyped, InitCall, NextCall, PTL DEF AttemptSpec

\* An engine that restarts finds in the row whatever its memory knew, for any
\* exchange, any network and any number of crashes, aborts and failed writes.
THEOREM MemoryIsBacked == AttemptSpec => []MemBacked
<1>1. CallInv => MemBacked
  BY DEF CallInv
<1>2. QED
  BY <1>1, CallAlways, PTL

\* For any exchange and any network, an order is signed only while neither the
\* row nor the memory copy holds an attempt, and the two agree after every step
\* (live_execution.rs, place_order).
THEOREM OneAttemptHolds == AttemptSpec => [][OneAttempt]_attemptVars
<1>1. CallInv /\ CallInv' => OneAttempt
  BY DEF CallInv, MemBacked, OneAttempt
<1>2. QED
  BY <1>1, CallAlways, PTL DEF AttemptSpec

-----------------------------------------------------------------------------
(* If the exchange never refuses the duplicate of an executed action.      *)

LEMMA InitKnown == AttemptInit => KnownInv
BY DEF AttemptInit, KnownInv, NoForgottenOrder, NoCall

LEMMA NextKnown ==
  ASSUME "duplicate" \notin DupReplies,
         TypeOK, CallInv, KnownInv, [AttemptNext]_attemptVars
  PROVE  KnownInv'
<1> USE DEF TypeOK, AttemptTypeOK, CallInv, KnownInv, NoForgottenOrder, Carrying
<1>0. None \notin Cloid
  BY DEF None, Cloid
<1>1. CASE PropagateError
  BY <1>1, ReturnTyped DEF PropagateError, Results
<1>2. CASE Load
  <2>1. call'.at \notin {"clearMem", "clearRow"}
    <3>1. CASE \E c \in Cloid \cup {None} : call' = [call EXCEPT !.at = "send", !.id = c]
      <4>1. "send" \in Labels
        BY DEF Labels
      <4>2. QED
        BY <3>1, <4>1, EnterTyped
    <3>2. CASE Goto("sign")
      BY <3>2, GotoTyped DEF Labels
    <3>3. CASE Return("err")
      BY <3>3, ReturnTyped DEF Results
    <3>4. QED
      BY <1>2, <3>1, <3>2, <3>3 DEF Load
  <2>2. QED
    BY <1>2, <2>1 DEF Load
<1>3. CASE Sign
  <2>1. "persist" \in Labels
    BY DEF Labels
  <2>2. call'.at = "persist"
    BY <1>3, <2>1, EnterTyped DEF Sign
  <2>3. QED
    BY <1>3, <2>2 DEF Sign
<1>4. CASE Persist
  <2>1. row = None /\ unknown = {}
    BY <1>0, <1>4 DEF Persist
  <2>2. call'.at \in {"remember", "done"}
    BY <1>4, GotoTyped, ReturnTyped DEF Persist, Labels, Results
  <2>3. QED
    BY <1>4, <2>1, <2>2 DEF Persist
<1>5. CASE Remember
  BY <1>5, GotoTyped DEF Remember, Labels
<1>6. CASE Reload
  <2>1. call'.at \notin {"clearMem", "clearRow"}
    <3>1. "send" \in Labels
      BY DEF Labels
    <3>2. QED
      BY <1>6, <3>1, EnterTyped, ReturnTyped DEF Reload, Results
  <2>2. QED
    BY <1>6, <2>1 DEF Reload
<1>7. CASE Send
  BY <1>7, GotoTyped DEF Send, Labels
<1>8. CASE ReplyOk
  BY <1>8, ReturnTyped DEF ReplyOk, Results
<1>9. CASE ReplyRejected
  <2>1. call'.at = "clearMem"
    BY <1>9, GotoTyped DEF ReplyRejected, Labels
  <2>2. QED
    BY <1>9, <2>1 DEF ReplyRejected
<1>10. CASE TransportError
  BY <1>10, ReturnTyped DEF TransportError, Results, Abandon
<1>11. CASE Lookup
  <2>1. call'.at \notin {"clearMem", "clearRow"}
    <3>1. "status" \in Labels
      BY DEF Labels
    <3>2. QED
      BY <1>11, <3>1, EnterTyped, ConfirmedTyped DEF Lookup
  <2>2. QED
    BY <1>11, <2>1 DEF Lookup
<1>12. CASE Status
  <2>1. CASE Confirmed /\ UNCHANGED unknown
    BY <1>12, <2>1, ConfirmedTyped DEF Status
  <2>2. CASE unknown' = unknown \ {call.id} /\ Goto("clearMem")
    BY <1>12, <2>2, GotoTyped DEF Status, Labels
  <2>3. QED
    BY <1>12, <2>1, <2>2 DEF Status
<1>13. CASE ClearMem
  BY <1>13, GotoTyped DEF ClearMem, Labels
<1>14. CASE ClearRow
  BY <1>14, ClearedTyped DEF ClearRow
<1>15. CASE Ask
  BY <1>15, AnswerTyped DEF Ask
<1>16. CASE Deliver
  BY <1>16 DEF Deliver
<1>17. CASE DeliverLate \/ Settle
  BY <1>17 DEF DeliverLate, Settle
<1>18. CASE CallerStep
  BY <1>0, <1>18, InvokeTyped DEF CallerStep, NoCall
<1>19. CASE Crash \/ Abort
  BY <1>19 DEF Crash, Abort, Abandon, NoCall
<1>20. CASE OutsideStep \/ UNCHANGED attemptVars
  BY <1>20 DEF OutsideStep, attemptVars
<1>21. QED
  BY <1>1, <1>2, <1>3, <1>4, <1>5, <1>6, <1>7, <1>8, <1>9, <1>10, <1>11, <1>12,
     <1>13, <1>14, <1>15, <1>16, <1>17, <1>18, <1>19, <1>20
  DEF AttemptNext, AttemptStep, NetworkStep

LEMMA KnownAlways ==
  ASSUME "duplicate" \notin DupReplies
  PROVE  AttemptSpec => [](TypeOK /\ CallInv /\ KnownInv)
BY InitTyped, NextTyped, InitCall, NextCall, InitKnown, NextKnown, PTL DEF AttemptSpec

\* Unless the exchange refuses the duplicate of an order it has executed, an
\* order whose outcome the engine has not proved is named by the durable row,
\* even when requests outlive their calls.
THEOREM NoOrderForgotten ==
  ASSUME "duplicate" \notin DupReplies
  PROVE  AttemptSpec => []NoForgottenOrder
<1>1. KnownInv => NoForgottenOrder
  BY DEF KnownInv
<1>2. QED
  BY <1>1, KnownAlways, PTL

-----------------------------------------------------------------------------
(* If moreover no request outlives its HTTP call.                          *)

LEMMA InitQuiet == AttemptInit => QuietInv
BY DEF AttemptInit, QuietInv, NoCall

LEMMA NextQuiet ==
  ASSUME ~Delayed, "duplicate" \notin DupReplies,
         TypeOK, CallInv, KnownInv, QuietInv, [AttemptNext]_attemptVars
  PROVE  QuietInv'
<1> USE DEF TypeOK, AttemptTypeOK, CallInv, KnownInv, QuietInv, NoForgottenOrder, Carrying
<1>0. None \notin Cloid
  BY DEF None, Cloid
<1>1. CASE PropagateError
  BY <1>1, ReturnTyped DEF PropagateError, Results, exchangeVars
<1>2. CASE Load \/ Reload \/ Lookup
  <2>1. call'.at # "await"
    <3>1. CASE \E l \in {"send", "status"}, c \in Cloid \cup {None} :
                 call' = [call EXCEPT !.at = l, !.id = c]
      <4>1. {"send", "status"} \subseteq Labels
        BY DEF Labels
      <4>2. QED
        BY <3>1, <4>1, EnterTyped
    <3>2. CASE Goto("sign") \/ Return("err") \/ Confirmed
      BY <3>2, GotoTyped, ReturnTyped, ConfirmedTyped DEF Labels, Results
    <3>3. QED
      BY <1>2, <3>1, <3>2 DEF Load, Reload, Lookup
  <2>2. UNCHANGED <<book, reply, unknown, late>>
    BY <1>2 DEF Load, Reload, Lookup, exchangeVars
  <2>3. QED
    BY <1>2, <2>1, <2>2 DEF Load, Reload, Lookup
<1>3. CASE Sign
  <2>1. PICK c \in Cloid : /\ book' = [book EXCEPT ![c] = "unseen"]
                           /\ call' = [call EXCEPT !.at = "persist", !.id = c]
    BY <1>3 DEF Sign
  <2>2. "persist" \in Labels
    BY DEF Labels
  <2>3. call'.at = "persist"
    BY <2>1, <2>2, EnterTyped
  <2>4. QED
    BY <1>3, <2>1, <2>3 DEF Sign, ExchangeTypeOK
<1>4. CASE Persist
  BY <1>4, GotoTyped, ReturnTyped DEF Persist, Labels, Results, exchangeVars
<1>5. CASE Remember
  BY <1>5, GotoTyped DEF Remember, Labels, exchangeVars
<1>6. CASE Send
  BY <1>6, GotoTyped DEF Send, Labels, exchangeVars
<1>7. CASE ReplyOk
  BY <1>7, ReturnTyped DEF ReplyOk, Results, exchangeVars
<1>8. CASE ReplyRejected
  <2>1. reply = "rejected" /\ book[call.id] = "unseen"
    BY <1>8 DEF ReplyRejected
  <2>2. QED
    BY <1>8, <2>1, GotoTyped DEF ReplyRejected, Labels, exchangeVars
<1>9. CASE TransportError
  BY <1>9, ReturnTyped DEF TransportError, Results, exchangeVars, Abandon
<1>10. CASE Status
  BY <1>10, ConfirmedTyped, GotoTyped DEF Status, Labels, exchangeVars
<1>11. CASE ClearMem
  BY <1>11, GotoTyped DEF ClearMem, Labels, exchangeVars
<1>12. CASE ClearRow
  BY <1>12, ClearedTyped DEF ClearRow, exchangeVars
<1>13. CASE Ask
  BY <1>13, AnswerTyped DEF Ask, exchangeVars
<1>14. CASE Deliver
  <2>1. call.at = "await" /\ call' = call /\ unknown' = unknown /\ late' = late
    BY <1>14 DEF Deliver
  <2>2. \A c \in Cloid : book'[c] = "open" => book[c] = "open" \/ c = call.id
    BY <1>14 DEF Deliver, Execute, Acknowledge, ExchangeTypeOK
  <2>3. reply' = "rejected" => book'[call.id] = "unseen"
    BY <1>14, ExchangeAssumption DEF Deliver
  <2>4. QED
    BY <2>1, <2>2, <2>3
<1>15. CASE DeliverLate
  BY <1>15 DEF DeliverLate
<1>16. CASE Settle
  <2>1. PICK c \in Cloid : /\ book[c] = "open"
                           /\ book' = [book EXCEPT ![c] = "done"]
    BY <1>16 DEF Settle, Execute
  <2>2. QED
    BY <1>16, <2>1 DEF Settle, ExchangeTypeOK
<1>17. CASE CallerStep
  BY <1>17, InvokeTyped DEF CallerStep, NoCall, Free, Invoke, exchangeVars
<1>18. CASE Crash \/ Abort
  BY <1>18 DEF Crash, Abort, Abandon, NoCall, exchangeVars
<1>19. CASE OutsideStep \/ UNCHANGED attemptVars
  BY <1>19 DEF OutsideStep, Outside, attemptVars
<1>20. QED
  BY <1>1, <1>2, <1>3, <1>4, <1>5, <1>6, <1>7, <1>8, <1>9, <1>10, <1>11, <1>12,
     <1>13, <1>14, <1>15, <1>16, <1>17, <1>18, <1>19
  DEF AttemptNext, AttemptStep, NetworkStep

LEMMA QuietAlways ==
  ASSUME ~Delayed, "duplicate" \notin DupReplies
  PROVE  AttemptSpec => [](TypeOK /\ CallInv /\ KnownInv /\ QuietInv)
BY InitTyped, NextTyped, InitCall, NextCall, InitKnown, NextKnown, InitQuiet, NextQuiet,
   PTL DEF AttemptSpec

LEMMA QuietOutstanding ==
  ASSUME TypeOK, QuietInv
  PROVE  Outstanding \subseteq unknown
BY DEF Outstanding, QuietInv

\* If requests do not outlive their HTTP calls, an order the engine has stopped
\* waiting for can no longer reach the position.
THEOREM NothingLeft ==
  ASSUME ~Delayed, "duplicate" \notin DupReplies
  PROVE  AttemptSpec => []NothingLeftToWaitFor
<1>1. TypeOK /\ QuietInv => NothingLeftToWaitFor
  BY QuietOutstanding DEF NothingLeftToWaitFor
<1>2. QED
  BY <1>1, QuietAlways, PTL

\* Under the same conditions a new order is signed only while no earlier order
\* of this wallet and PERP can still execute.
THEOREM NoSecondOrderIsSigned ==
  ASSUME ~Delayed, "duplicate" \notin DupReplies
  PROVE  AttemptSpec => NoSecondOrder
<1>1. ASSUME TypeOK, CallInv, KnownInv, QuietInv,
             call.at = "sign", call'.at = "persist"
      PROVE  Outstanding = {}
  <2>1. unknown = {}
    BY <1>1 DEF CallInv, KnownInv, NoForgottenOrder, TypeOK, AttemptTypeOK, None, Cloid
  <2>2. QED
    BY <1>1, <2>1, QuietOutstanding
<1>2. QED
  BY <1>1, QuietAlways, PTL DEF NoSecondOrder, AttemptSpec

\* Under the same conditions the exchange only ever executes the order that the
\* durable row names at that moment.
THEOREM WriteAheadHolds ==
  ASSUME ~Delayed, "duplicate" \notin DupReplies
  PROVE  AttemptSpec => WriteAhead
<1>1. ASSUME TypeOK, CallInv, KnownInv, QuietInv, [AttemptNext]_attemptVars,
             NEW c \in Cloid, book[c] # "done", book'[c] = "done"
      PROVE  row = c
  <2> USE <1>1 DEF TypeOK, AttemptTypeOK, ExchangeTypeOK, CallInv, KnownInv, QuietInv,
                   NoForgottenOrder, Carrying
  <2>1. CASE Deliver
    BY <2>1 DEF Deliver, Execute, Acknowledge
  <2>2. CASE Settle
    BY <2>2 DEF Settle, Execute
  <2>3. CASE DeliverLate
    BY <2>3 DEF DeliverLate
  <2>4. CASE Sign
    BY <2>4 DEF Sign
  <2>5. CASE UNCHANGED book
    BY <2>5
  <2>6. AttemptStep => Sign \/ UNCHANGED book
    BY DEF AttemptStep, PropagateError, Load, Persist, Remember, Reload, Send, ReplyOk,
           ReplyRejected, TransportError, Lookup, Status, ClearMem, ClearRow, Ask,
           exchangeVars
  <2>7. CallerStep \/ Crash \/ Abort \/ OutsideStep \/ UNCHANGED attemptVars
          => UNCHANGED book
    BY DEF CallerStep, Crash, Abort, OutsideStep, Outside, exchangeVars, attemptVars
  <2>8. QED
    BY <2>1, <2>2, <2>3, <2>4, <2>5, <2>6, <2>7 DEF AttemptNext, NetworkStep
<1>2. TypeOK /\ CallInv /\ KnownInv /\ QuietInv /\ [AttemptNext]_attemptVars
        => \A c \in Cloid : book[c] # "done" /\ book'[c] = "done" => row = c
  BY <1>1
<1>3. QED
  BY <1>2, QuietAlways, PTL DEF WriteAhead, AttemptSpec
-----------------------------------------------------------------------------
(* If, moreover, an order is over as soon as the exchange answers for it.  *)

\* The row's order can no longer change the position.
RowSettled == row = None \/ book[row] = "done"

Placing == {"load", "sign", "persist", "remember"}
Asking  == {"lookup", "status", "ask"}

\* What an answer says of the order it is about.
FillInv ==
  /\ \A c \in Cloid : book[c] # "open"
  /\ call.at = "await" /\ reply \in {"filled", "empty"} => book[call.id] = "done"
  /\ call.proc \in {"place", "retry"} /\ call.at = "done" /\ call.res # "err" => RowSettled
  /\ call.at \in Placing => call.proc = "place"
  /\ call.at \in Asking => call.proc \notin {"place", "retry"}

LEMMA InitFill == AttemptInit => FillInv
BY DEF AttemptInit, FillInv, NoCall, Placing, Asking

\* A step of a helper stays in it, and leaves what the exchange has done alone.
LEMMA HelperKeeps ==
  ASSUME TypeOK, CallInv, AttemptStep
  PROVE  /\ call'.proc = call.proc
         /\ call'.at \in Placing => call.at \in Placing
         /\ call'.at \in Asking => call.at \in Asking \/ call.proc \notin {"place", "retry"}
         /\ call'.at = "await" => call.at = "send" /\ UNCHANGED reply
         /\ RowSettled => RowSettled' \/ call.at = "persist"
         /\ (\A c \in Cloid : book'[c] = book[c] \/ book'[c] = "unseen")
<1> USE DEF TypeOK, AttemptTypeOK, ExchangeTypeOK, CallInv, MemBacked, Carrying, Placing, Asking, RowSettled
<1>0. None \notin Cloid
  BY DEF None, Cloid
<1>1. ASSUME NEW l \in Labels, Goto(l), UNCHANGED exchangeVars,
             row' \in {row, None} \/ call.at = "persist"
      PROVE  /\ call'.proc = call.proc /\ call'.at = l
             /\ RowSettled => RowSettled' \/ call.at = "persist"
             /\ (\A c \in Cloid : book'[c] = book[c])
  BY <1>1, GotoTyped DEF exchangeVars
<1>2. ASSUME NEW r \in Results, Return(r), UNCHANGED exchangeVars,
             row' \in {row, None} \/ call.at = "persist"
      PROVE  /\ call'.proc = call.proc /\ call'.at = "done"
             /\ RowSettled => RowSettled' \/ call.at = "persist"
             /\ (\A c \in Cloid : book'[c] = book[c])
  BY <1>2, ReturnTyped DEF exchangeVars
<1>3. ASSUME NEW l \in Labels, NEW i \in Cloid \cup {None}, call' = [call EXCEPT !.at = l, !.id = i],
             UNCHANGED <<exchangeVars, row>>
      PROVE  /\ call'.proc = call.proc /\ call'.at = l
             /\ RowSettled => RowSettled'
             /\ (\A c \in Cloid : book'[c] = book[c])
  BY <1>3, EnterTyped DEF exchangeVars
<1>4. {"load", "sign", "persist", "remember", "send", "await", "lookup", "status", "clearMem",
       "clearRow", "ask", "done"} \subseteq Labels
  BY DEF Labels
<1>5. {"ok", "unpriced", "err", "yes", "no"} \subseteq Results
  BY DEF Results
<1>6. CASE PropagateError
  BY <1>2, <1>5, <1>6 DEF PropagateError
<1>7. CASE Load
  <2> DEFINE pending == IF mem # None THEN mem ELSE row
  <2>1. pending \in Cloid \cup {None}
    OBVIOUS
  <2> HIDE DEF pending
  <2>2. \/ Goto("sign") \/ Return("err") \/ call' = [call EXCEPT !.at = "send", !.id = pending]
    BY <1>7 DEF Load, pending
  <2> QED
    BY <1>1, <1>2, <1>3, <1>4, <1>5, <1>7, <2>1, <2>2 DEF Load
<1>8. CASE Sign
  <2>1. PICK c \in Cloid \ InUse : /\ terms' = [terms EXCEPT ![c] = call.want]
                                   /\ book' = [book EXCEPT ![c] = "unseen"]
                                   /\ call' = [call EXCEPT !.at = "persist", !.id = c]
    BY <1>8 DEF Sign
  <2>2. call'.proc = call.proc /\ call'.at = "persist"
    BY <1>4, <2>1, EnterTyped
  <2>3. RowSettled'
    BY <1>8 DEF Sign
  <2> QED
    BY <1>8, <2>1, <2>2, <2>3 DEF Sign
<1>9. CASE Persist
  BY <1>1, <1>2, <1>4, <1>5, <1>9 DEF Persist
<1>10. CASE Remember \/ Send
  BY <1>1, <1>4, <1>10 DEF Remember, Send
<1>11. CASE Reload
  BY <1>2, <1>3, <1>4, <1>5, <1>11 DEF Reload
<1>12. CASE ReplyOk \/ ReplyRejected \/ TransportError
  BY <1>1, <1>2, <1>4, <1>5, <1>12 DEF ReplyOk, ReplyRejected, TransportError
<1>13. CASE Lookup \/ Status
  BY <1>1, <1>2, <1>3, <1>4, <1>5, <1>13 DEF Lookup, Status, Confirmed
<1>14. CASE ClearMem \/ ClearRow
  BY <1>1, <1>2, <1>4, <1>5, <1>14 DEF ClearMem, ClearRow, Cleared, Confirmed
<1>15. CASE Ask
  BY <1>2, <1>5, <1>15 DEF Ask, Answer
<1> QED
  BY <1>6, <1>7, <1>8, <1>9, <1>10, <1>11, <1>12, <1>13, <1>14, <1>15 DEF AttemptStep

LEMMA NextFill ==
  ASSUME ~Delayed, ~Resting, "duplicate" \notin DupReplies,
         TypeOK, CallInv, KnownInv, QuietInv, FillInv, [AttemptNext]_attemptVars
  PROVE  FillInv'
<1> USE DEF TypeOK, AttemptTypeOK, ExchangeTypeOK, FillInv
<1>1. CASE AttemptStep
  <2>1. \A c \in Cloid : book'[c] # "open"
    BY <1>1, HelperKeeps
  <2>2. ASSUME call'.at = "await" PROVE reply' \notin {"filled", "empty"}
    <3>1. call.at = "send" /\ UNCHANGED reply
      BY <1>1, <2>2, HelperKeeps
    <3> QED
      BY <3>1 DEF QuietInv
  <2>3. ASSUME call'.proc \in {"place", "retry"}, call'.at = "done", call'.res # "err"
        PROVE  RowSettled'
    <3>1. call.proc \in {"place", "retry"} /\ call.at # "done"
      BY <1>1, <2>3, HelperKeeps
      DEF AttemptStep, PropagateError, Load, Sign, Persist, Remember, Reload, Send, ReplyOk,
          ReplyRejected, TransportError, Lookup, Status, ClearMem, ClearRow, Ask
    <3>2. CASE ReplyOk
      BY <3>2 DEF ReplyOk, RowSettled, CallInv, Carrying, exchangeVars
    <3>3. \A r \in Results : Return(r) => call'.res = r
      BY ReturnTyped
    <3>4. "err" \in Results
      BY DEF Results
    <3>5. \A l \in Labels \ {"done"} : ~Goto(l)
      BY <2>3, GotoTyped
    <3>6. \A l \in Labels \ {"done"}, i \in Cloid \cup {None} : call' # [call EXCEPT !.at = l, !.id = i]
      BY <2>3, EnterTyped
    <3>7. {"sign", "send", "persist", "remember", "await", "status", "clearMem", "clearRow", "ask"}
            \subseteq Labels \ {"done"}
      BY DEF Labels
    <3>8. ~Return("err")
      BY <2>3, <3>3, <3>4
    <3>9. ~Load
      <4> DEFINE pending == IF mem # None THEN mem ELSE row
      <4>1. pending \in Cloid \cup {None}
        OBVIOUS
      <4> QED
        BY <3>5, <3>6, <3>7, <3>8, <4>1 DEF Load
    <3>10. ~Sign /\ ~Reload
      BY <3>6, <3>7, <3>8 DEF Sign, Reload
    <3>11. ~PropagateError /\ ~TransportError /\ ~Persist /\ ~Remember /\ ~Send /\ ~ReplyRejected
           /\ ~ClearMem
      BY <3>5, <3>7, <3>8 DEF PropagateError, TransportError, Persist, Remember, Send, ReplyRejected,
         ClearMem
    <3>12. ~Lookup /\ ~Status /\ ~Ask
      BY <3>1 DEF Lookup, Status, Ask, Asking
    <3>13. ~ClearRow
      BY <3>1, <3>8 DEF ClearRow, Cleared
    <3> QED
      BY <1>1, <3>2, <3>9, <3>10, <3>11, <3>12, <3>13 DEF AttemptStep
  <2> QED
    BY <1>1, <2>1, <2>2, <2>3, HelperKeeps
<1>2. CASE Deliver
  <2>1. UNCHANGED <<row, call>> /\ call.at = "await" /\ call.id \in Cloid
    BY <1>2 DEF Deliver, Carrying, Call
  <2>2. \A c \in Cloid : book'[c] = book[c] \/ (c = call.id /\ book'[c] = "done")
    BY <1>2 DEF Deliver, Execute, Acknowledge
  <2>3. reply' \in {"filled", "empty"} => book'[call.id] = "done"
    BY <1>2, <2>1, ExchangeAssumption DEF Deliver, Execute, Acknowledge, OrderStatus
  <2>4. RowSettled => RowSettled'
    BY <2>1, <2>2 DEF RowSettled
  <2> QED
    BY <2>1, <2>2, <2>3, <2>4
<1>3. CASE DeliverLate
  BY <1>3 DEF DeliverLate, QuietInv
<1>4. CASE Settle
  BY <1>4 DEF Settle
<1>5. CASE CallerStep
  <2>1. UNCHANGED <<book, row>>
    BY <1>5 DEF CallerStep, exchangeVars
  <2>2. ASSUME NEW p \in Procs \ {"none"}, NEW t \in Terms, Invoke(p, t) PROVE FillInv'
    <3>1. call'.at = Entry(p) /\ call'.proc = p
      BY <2>2 DEF Invoke
    <3> QED
      BY <2>1, <3>1 DEF Entry, Procs, Placing, Asking
  <2>3. call' = NoCall => FillInv'
    BY <2>1 DEF NoCall, Placing, Asking
  <2> QED
    BY <1>5, <2>2, <2>3 DEF CallerStep
<1>6. CASE Crash \/ Abort
  BY <1>6 DEF Crash, Abort, NoCall, exchangeVars, Placing, Asking
<1>7. CASE OutsideStep \/ UNCHANGED attemptVars
  BY <1>7 DEF OutsideStep, Outside, attemptVars, RowSettled
<1> QED
  BY <1>1, <1>2, <1>3, <1>4, <1>5, <1>6, <1>7 DEF AttemptNext, NetworkStep

LEMMA FillAlways ==
  ASSUME ~Delayed, ~Resting, "duplicate" \notin DupReplies
  PROVE  AttemptSpec => [](TypeOK /\ CallInv /\ KnownInv /\ QuietInv /\ FillInv)
BY InitFill, NextFill, QuietAlways, PTL DEF AttemptSpec
-----------------------------------------------------------------------------
(* The order in hand, and what it can do to the position.                  *)

\* The row's order can still open or grow a position.
RowOpens == row # None /\ book[row] # "done" /\ ~terms[row].reduce

\* From the caller's terms to the row: only a helper that signs and persists
\* makes the row name another order.
LEMMA HelperCarries ==
  ASSUME TypeOK, CallInv, AttemptStep
  PROVE  /\ call'.at \in {"load", "sign"} => call.at \in {"load", "sign"} /\ call'.want = call.want
         /\ call'.at = "persist" => call.at = "sign" /\ terms'[call'.id] = call.want
         /\ RowOpens' => RowOpens \/ (call.at = "persist" /\ ~terms[call.id].reduce)
         /\ UNCHANGED pos
<1> USE DEF TypeOK, AttemptTypeOK, ExchangeTypeOK, CallInv, Carrying, RowOpens
<1>0. None \notin Cloid
  BY DEF None, Cloid
<1> DEFINE Keeps ==
      /\ UNCHANGED <<terms, book, pos>>
      /\ row' \in {row, None} \/ (call.at = "persist" /\ row' = call.id)
<1>1. ASSUME NEW l \in Labels, Goto(l) PROVE call'.at = l /\ call'.want = call.want
  BY <1>1 DEF Goto, Call
<1>2. ASSUME NEW r \in Results, Return(r) PROVE call'.at = "done"
  BY <1>2, ReturnTyped
<1>3. ASSUME NEW i \in Cloid \cup {None}, call' = [call EXCEPT !.at = "send", !.id = i]
      PROVE  call'.at = "send"
  BY <1>3 DEF Call
<1>4. ASSUME NEW i \in Cloid \cup {None}, call' = [call EXCEPT !.at = "status", !.id = i]
      PROVE  call'.at = "status"
  BY <1>4 DEF Call
<1>5. {"sign", "persist", "remember", "send", "await", "clearMem", "clearRow", "ask"} \subseteq Labels
      /\ {"ok", "unpriced", "err", "yes", "no"} \subseteq Results
  BY DEF Labels, Results
<1>6. ASSUME Keeps, call'.at \notin {"load", "persist"},
             call'.at = "sign" => call.at = "load" /\ call'.want = call.want
      PROVE  /\ call'.at \in {"load", "sign"} => call.at \in {"load", "sign"} /\ call'.want = call.want
             /\ call'.at = "persist" => call.at = "sign" /\ terms'[call'.id] = call.want
             /\ RowOpens' => RowOpens \/ (call.at = "persist" /\ ~terms[call.id].reduce)
             /\ UNCHANGED pos
  BY <1>6
<1>7. CASE Sign
  <2>1. PICK c \in Cloid \ InUse : /\ terms' = [terms EXCEPT ![c] = call.want]
                                   /\ book' = [book EXCEPT ![c] = "unseen"]
                                   /\ call' = [call EXCEPT !.at = "persist", !.id = c]
    BY <1>7 DEF Sign
  <2>2. call'.at = "persist" /\ call'.id = c /\ terms'[c] = call.want
    BY <2>1 DEF Call
  <2>3. ~RowOpens'
    BY <1>7 DEF Sign
  <2> QED
    BY <1>7, <2>2, <2>3 DEF Sign
<1>8. CASE PropagateError \/ Load \/ Reload
  <2>1. (IF mem # None THEN mem ELSE row) \in Cloid \cup {None}
    OBVIOUS
  <2>2. call'.at \in {"sign", "send", "done"} /\ (call'.at = "sign" => call.at = "load" /\ call'.want = call.want)
    BY <1>1, <1>2, <1>3, <1>5, <1>8, <2>1 DEF PropagateError, Load, Reload
  <2> QED
    BY <1>6, <1>8, <2>2 DEF PropagateError, Load, Reload, exchangeVars
<1>9. CASE Persist \/ Remember \/ Send
  <2>1. call'.at \in {"remember", "send", "await", "done"}
    BY <1>1, <1>2, <1>5, <1>9 DEF Persist, Remember, Send
  <2> QED
    BY <1>6, <1>9, <2>1 DEF Persist, Remember, Send, Inserted, exchangeVars
<1>10. CASE ReplyOk \/ ReplyRejected \/ TransportError
  <2>1. call'.at \in {"clearMem", "done"}
    BY <1>1, <1>2, <1>5, <1>10 DEF ReplyOk, ReplyRejected, TransportError
  <2> QED
    BY <1>6, <1>10, <2>1 DEF ReplyOk, ReplyRejected, TransportError, exchangeVars
<1>11. CASE Lookup \/ Status \/ ClearMem \/ ClearRow \/ Ask
  <2>1. call'.at \in {"ask", "done", "status", "clearMem", "clearRow"}
    BY <1>1, <1>2, <1>4, <1>5, <1>11
    DEF Lookup, Status, ClearMem, ClearRow, Ask, Confirmed, Cleared, Answer
  <2> QED
    BY <1>6, <1>11, <2>1 DEF Lookup, Status, ClearMem, ClearRow, Ask, exchangeVars
<1> QED
  BY <1>7, <1>8, <1>9, <1>10, <1>11 DEF AttemptStep

\* The exchange executes the order of the row, while its answer is awaited, or
\* nothing.
LEMMA NetworkFills ==
  ASSUME ~Resting, TypeOK, CallInv, QuietInv, FillInv, NetworkStep
  PROVE  /\ UNCHANGED <<terms, row, call>>
         /\ UNCHANGED <<book, pos>> \/ (call.at = "await" /\ \E q \in Int : row \in Cloid /\ Execute(row, q))
<1> USE DEF TypeOK, AttemptTypeOK, CallInv, Carrying, Call
<1>1. CASE Deliver
  BY <1>1, ExchangeAssumption DEF Deliver, Acknowledge
<1>2. CASE DeliverLate
  BY <1>2 DEF DeliverLate, QuietInv
<1>3. CASE Settle
  BY <1>3 DEF Settle, FillInv
<1> QED
  BY <1>1, <1>2, <1>3 DEF NetworkStep

\* A reduce-only order never grows a position, and opens none.
LEMMA ReduceShrinks ==
  ASSUME pos \in Int, NEW t \in Terms, t.reduce, NEW q \in Int, q \in Fills(t, pos)
  PROVE  Abs(pos + q) <= Abs(pos) /\ (pos = 0 => q = 0)
BY ExchangeAssumption DEF Fills, Abs
=============================================================================
