----------------------------- MODULE OrderAttempt -----------------------------
(***************************************************************************)
(* The Order Attempt of one live wallet and PERP                           *)
(* (src/engine/src/decision/live_execution.rs): the durable row in         *)
(* live_order_attempts, its in-process copy, and the helpers through which *)
(* open, close and reconcile place, re-send, resolve and discard it.       *)
(*                                                                         *)
(* Every caller holds the PERP's execution claim, so at most one helper    *)
(* call is in progress: "call" is its program counter and its locals. Each *)
(* action is the code between two awaits. A crash forgets the memory copy  *)
(* and the call, an aborted decision task only the call.                   *)
(***************************************************************************)
EXTENDS Exchange

CONSTANTS
  Delayed,    \* may a request outlive the HTTP call that sent it?
  MaxFaults   \* bound: failures the environment may still inject

ASSUME AttemptAssumption ==
  /\ Delayed \in BOOLEAN
  /\ MaxFaults \in Nat

VARIABLES
  row,       \* the live_order_attempts row: the attempt's id, or None
  mem,       \* ambiguous_submissions(): the attempt's id, or None
  call,      \* the helper call in progress
  reply,     \* the exchange's answer to the request being awaited
  unknown,   \* history: ids sent whose final outcome the engine has not proved
  late,      \* requests still in the network after their call ended
  faults     \* failures left to inject

exchangeVars == <<terms, book, pos>>
attemptVars  == <<terms, book, pos, row, mem, call, reply, unknown, late, faults>>

Procs   == {"none", "place", "retry", "confirm", "ensure", "ambiguous", "clear"}
Labels  == {"idle", "load", "sign", "persist", "remember", "send", "await", "reload",
            "lookup", "status", "clearMem", "clearRow", "ask", "done"}
Results == {"none", "ok", "unpriced", "err", "yes", "no"}
Replies == {"none", "filled", "empty", "rejected", "duplicate"}

NoTerms == [buy |-> FALSE, size |-> 1, reduce |-> FALSE, basis |-> "mid"]
NoCall  == [proc |-> "none", at |-> "idle", id |-> None, want |-> NoTerms, res |-> "none"]

Call == [proc: Procs, at: Labels, id: Cloid \cup {None}, want: Terms, res: Results]

\* Where the call has an order in hand.
Carrying == {"persist", "remember", "send", "await", "status"}

AttemptTypeOK ==
  /\ ExchangeTypeOK
  /\ row \in Cloid \cup {None}
  /\ mem \in Cloid \cup {None}
  /\ call \in Call
  /\ call.at \in Carrying => call.id # None
  /\ reply \in Replies
  /\ unknown \subseteq Cloid
  /\ late \subseteq Cloid
  /\ faults \in 0..MaxFaults

-----------------------------------------------------------------------------
(* The caller's side of a helper call.                                     *)

Free == call.at \in {"idle", "done"}

Entry(proc) ==
  CASE proc = "place"                   -> "load"
    [] proc = "retry"                   -> "reload"
    [] proc \in {"confirm", "ensure"}   -> "lookup"
    [] proc = "ambiguous"               -> "ask"
    [] proc = "clear"                   -> "clearMem"

\* A caller enters helper proc. open discards an attempt unconditionally
\* only right after has_ambiguous_submission said there is none.
Invoke(proc, t) ==
  /\ Free
  /\ proc = "clear" => call.res = "no"
  /\ call' = [proc |-> proc, at |-> Entry(proc), id |-> None,
              want |-> IF proc = "place" THEN t ELSE NoTerms, res |-> "none"]

Goto(l)   == call' = [call EXCEPT !.at = l]
Return(r) == call' = [call EXCEPT !.at = "done", !.id = None, !.want = NoTerms, !.res = r]
Fault     == faults > 0 /\ faults' = faults - 1

\* A query or request fails before it changed anything; `?` hands the error up.
PropagateError ==
  /\ call.at \in {"load", "sign", "reload", "lookup", "status"}
  /\ Fault
  /\ Return("err")
  /\ UNCHANGED <<exchangeVars, row, mem, reply, unknown, late>>

-----------------------------------------------------------------------------
(* place_order and retry_ambiguous_submission.                             *)

\* Faulty variant: different terms replace the attempt instead of being refused.
LoadReplacing ==
  /\ call.at = "load"
  /\ LET pending == IF mem # None THEN mem ELSE row IN
       IF pending # None /\ terms[pending] = call.want
         THEN call' = [call EXCEPT !.at = "send", !.id = pending]
         ELSE Goto("sign")
  /\ UNCHANGED <<exchangeVars, row, mem, reply, unknown, late, faults>>

\* place_order's lookup: the memory copy first, then the persisted one. Equal
\* terms re-use the attempt; different terms are refused.
Load ==
  /\ call.at = "load"
  /\ LET pending == IF mem # None THEN mem ELSE row IN
       \/ /\ pending = None
          /\ Goto("sign")
       \/ /\ pending # None
          /\ terms[pending] = call.want
          /\ call' = [call EXCEPT !.at = "send", !.id = pending]
       \/ /\ pending # None
          /\ terms[pending] # call.want
          /\ Return("err")
  /\ UNCHANGED <<exchangeVars, row, mem, reply, unknown, late, faults>>

InUse == {row, mem} \cup late \cup unknown \cup {c \in Cloid : book[c] = "open"}

\* Faulty variant: the order is sent first and persisted later.
SignAndSend ==
  /\ call.at = "sign"
  /\ \E c \in Cloid \ InUse :
       /\ terms' = [terms EXCEPT ![c] = call.want]
       /\ book' = [book EXCEPT ![c] = "unseen"]
       /\ call' = [call EXCEPT !.at = "send", !.id = c]
  /\ UNCHANGED <<pos, row, mem, reply, unknown, late, faults>>

\* asset_index, a fresh client order id, and the signature over the terms.
Sign ==
  /\ call.at = "sign"
  /\ \E c \in Cloid \ InUse :
       /\ terms' = [terms EXCEPT ![c] = call.want]
       /\ book' = [book EXCEPT ![c] = "unseen"]
       /\ call' = [call EXCEPT !.at = "persist", !.id = c]
  /\ UNCHANGED <<pos, row, mem, reply, unknown, late, faults>>

Inserted == IF row = None THEN call.id ELSE row   \* ON CONFLICT DO NOTHING

\* Faulty variant: a failed INSERT is only logged.
PersistLenient ==
  /\ call.at = "persist"
  /\ (row' = Inserted /\ UNCHANGED faults) \/ (row' = row /\ Fault)
  /\ Goto("remember")
  /\ UNCHANGED <<exchangeVars, mem, reply, unknown, late>>

\* persist_pending_order. A failed INSERT may still have committed.
Persist ==
  /\ call.at = "persist"
  /\ \/ /\ row' = Inserted
        /\ Goto("remember")
        /\ UNCHANGED faults
     \/ /\ Fault
        /\ row' \in {row, Inserted}
        /\ Return("err")
  /\ UNCHANGED <<exchangeVars, mem, reply, unknown, late>>

Remember ==
  /\ call.at = "remember"
  /\ mem' = call.id
  /\ Goto("send")
  /\ UNCHANGED <<exchangeVars, row, reply, unknown, late, faults>>

\* retry_ambiguous_submission re-reads the persisted attempt and sends it.
Reload ==
  /\ call.at = "reload"
  /\ \/ /\ row = None
        /\ Return("err")
     \/ /\ row # None
        /\ call' = [call EXCEPT !.at = "send", !.id = row]
  /\ UNCHANGED <<exchangeVars, row, mem, reply, unknown, late, faults>>

-----------------------------------------------------------------------------
(* send_signed_order and the network.                                      *)

Send ==
  /\ call.at = "send"
  /\ Goto("await")
  /\ unknown' = unknown \cup {call.id}
  /\ UNCHANGED <<exchangeVars, row, mem, reply, late, faults>>

\* The awaited request reaches the exchange, which executes it, refuses it
\* outright, or recognises an action it has executed before.
Deliver ==
  /\ call.at = "await"
  /\ reply = "none"
  /\ \/ \E q \in -MaxSize..MaxSize :
          /\ book[call.id] = "unseen"
          /\ Execute(call.id, q)
          /\ reply' = IF q = 0 THEN "empty" ELSE "filled"
     \/ /\ Acknowledge(call.id)
        /\ reply' = "empty"
     \/ /\ book[call.id] = "unseen"
        /\ reply' = "rejected"
        /\ UNCHANGED <<book, pos>>
     \/ /\ book[call.id] # "unseen"
        /\ reply' \in DupReplies
        /\ UNCHANGED <<book, pos>>
  /\ UNCHANGED <<terms, row, mem, call, unknown, late, faults>>

\* A request whose call has ended still reaches the exchange.
DeliverLate ==
  /\ \E c \in late :
       /\ late' = late \ {c}
       /\ \/ \E q \in -MaxSize..MaxSize : book[c] = "unseen" /\ Execute(c, q)
          \/ Acknowledge(c)
          \/ UNCHANGED <<book, pos>>     \* refused, or a duplicate
  /\ UNCHANGED <<terms, row, mem, call, reply, unknown, faults>>

\* An acknowledged order settles.
Settle ==
  /\ \E c \in Cloid, q \in -MaxSize..MaxSize : book[c] = "open" /\ Execute(c, q)
  /\ UNCHANGED <<terms, row, mem, call, reply, unknown, late, faults>>

\* What becomes of a request when its call ends without an answer: it is
\* lost, or (only with Delayed) it is still under way.
Abandon ==
  /\ reply' = "none"
  /\ \/ late' = late
     \/ /\ Delayed
        /\ call.at = "await" /\ reply = "none"
        /\ late' = late \cup {call.id}

\* The request or its answer is lost or unreadable: the attempt is kept.
TransportError ==
  /\ call.at = "await"
  /\ Fault
  /\ Return("err")
  /\ Abandon
  /\ UNCHANGED <<exchangeVars, row, mem, unknown>>

\* status = "ok": the attempt is kept until the caller has observed its outcome.
ReplyOk ==
  /\ call.at = "await"
  /\ reply \in {"filled", "empty"}
  /\ Return(IF reply = "filled" THEN "ok" ELSE "unpriced")
  /\ reply' = "none"
  /\ UNCHANGED <<exchangeVars, row, mem, unknown, late, faults>>

\* status # "ok": the attempt is discarded. A refused action was never
\* executed; the answer to a duplicate says nothing of the first copy.
ReplyRejected ==
  /\ call.at = "await"
  /\ reply \in {"rejected", "duplicate"}
  /\ unknown' = IF reply = "rejected" THEN unknown \ {call.id} ELSE unknown
  /\ Goto("clearMem")
  /\ reply' = "none"
  /\ UNCHANGED <<exchangeVars, row, mem, late, faults>>

-----------------------------------------------------------------------------
(* clear_confirmed_pending_order, ensure_pending_order_resolved,           *)
(* clear_ambiguous_submission and has_ambiguous_submission.                *)

\* What follows the confirmation: ensure goes on to ask whether an attempt is left.
Confirmed == IF call.proc = "ensure" THEN Goto("ask") ELSE Return("ok")

\* Faulty variant: the status of an attempt that may not exist.
LookupAnyway ==
  /\ call.at = "lookup"
  /\ call' = [call EXCEPT !.at = "status", !.id = row]
  /\ UNCHANGED <<exchangeVars, row, mem, reply, unknown, late, faults>>

Lookup ==
  /\ call.at = "lookup"
  /\ \/ /\ row = None
        /\ Confirmed
     \/ /\ row # None
        /\ call' = [call EXCEPT !.at = "status", !.id = row]
  /\ UNCHANGED <<exchangeVars, row, mem, reply, unknown, late, faults>>

\* Faulty variant: a live status discards the attempt too.
StatusAny ==
  /\ call.at = "status"
  /\ unknown' = unknown \ {call.id}
  /\ Goto("clearMem")
  /\ UNCHANGED <<exchangeVars, row, mem, reply, late, faults>>

\* orderStatus: no record and every status but a live one discard the attempt.
Status ==
  /\ call.at = "status"
  /\ \/ /\ book[call.id] = "open"
        /\ Confirmed
        /\ UNCHANGED unknown
     \/ /\ book[call.id] # "open"
        /\ unknown' = unknown \ {call.id}
        /\ Goto("clearMem")
  /\ UNCHANGED <<exchangeVars, row, mem, reply, late, faults>>

\* Faulty variant: the memory copy is left behind.
KeepMem ==
  /\ call.at = "clearMem"
  /\ Goto("clearRow")
  /\ UNCHANGED <<exchangeVars, row, mem, reply, unknown, late, faults>>

ClearMem ==
  /\ call.at = "clearMem"
  /\ mem' = None
  /\ Goto("clearRow")
  /\ UNCHANGED <<exchangeVars, row, reply, unknown, late, faults>>

Cleared == IF call.proc \in {"place", "retry"} THEN Return("err") ELSE Confirmed

\* The DELETE; its failure is only logged, and it may still have committed.
ClearRow ==
  /\ call.at = "clearRow"
  /\ \/ row' = None /\ UNCHANGED faults
     \/ row' = row /\ Fault
  /\ Cleared
  /\ UNCHANGED <<exchangeVars, mem, reply, unknown, late>>

Answer(b) ==
  IF call.proc = "ensure" THEN Return(IF b THEN "err" ELSE "ok")
                          ELSE Return(IF b THEN "yes" ELSE "no")

\* has_ambiguous_submission: memory, then the row; an unreadable row counts.
Ask ==
  /\ call.at = "ask"
  /\ \/ Answer(mem # None \/ row # None) /\ UNCHANGED faults
     \/ mem = None /\ Fault /\ Answer(TRUE)
  /\ UNCHANGED <<exchangeVars, row, mem, reply, unknown, late>>

-----------------------------------------------------------------------------

\* The engine process dies and restarts: statics and calls are gone.
Crash ==
  /\ Fault
  /\ mem' = None
  /\ call' = NoCall
  /\ Abandon
  /\ UNCHANGED <<exchangeVars, row, unknown>>

\* handle.abort() drops a decision task's future at an await.
Abort ==
  /\ call.at # "idle"
  /\ Fault
  /\ call' = NoCall
  /\ Abandon
  /\ UNCHANGED <<exchangeVars, row, mem, unknown>>

AttemptStep ==
  \/ PropagateError \/ Load \/ Sign \/ Persist \/ Remember \/ Reload
  \/ Send \/ ReplyOk \/ ReplyRejected \/ TransportError
  \/ Lookup \/ Status \/ ClearMem \/ ClearRow \/ Ask

NetworkStep == Deliver \/ DeliverLate \/ Settle

\* The caller's own step: it enters or leaves a helper, and its own queries
\* may fail.
CallerStep ==
  /\ \/ \E proc \in Procs \ {"none"}, t \in Terms : Invoke(proc, t)
     \/ Free /\ call' = NoCall
  /\ UNCHANGED faults \/ Fault
  /\ UNCHANGED <<exchangeVars, row, mem, reply, unknown, late>>

OutsideStep ==
  /\ Outside
  /\ Fault
  /\ UNCHANGED <<row, mem, call, reply, unknown, late>>

AttemptInit ==
  /\ terms = [c \in Cloid |-> NoTerms]
  /\ book = [c \in Cloid |-> "unseen"]
  /\ pos = 0
  /\ row = None
  /\ mem = None
  /\ call = NoCall
  /\ reply = "none"
  /\ unknown = {}
  /\ late = {}
  /\ faults = MaxFaults

AttemptNext ==
  AttemptStep \/ NetworkStep \/ CallerStep \/ Crash \/ Abort \/ OutsideStep

AttemptSpec == AttemptInit /\ [][AttemptNext]_attemptVars

-----------------------------------------------------------------------------
(* What the Order Attempt promises.                                        *)

\* Orders that can still change the position: the request being awaited,
\* requests that outlived their call, and acknowledged orders.
Outstanding ==
  late \cup {c \in Cloid : book[c] = "open"}
       \cup (IF call.at = "await" /\ reply = "none" THEN {call.id} ELSE {})

\* Type invariant.
TypeOK == AttemptTypeOK

\* The memory copy is only a fast path: whatever it holds, an engine that
\* restarts finds in the row, across lost writes, crashes and aborts.
MemBacked == mem # None => mem = row

\* No order is forgotten: as long as the engine has no proof of an order's
\* outcome, the durable row names it. So no crash, abort, lost answer or
\* failed write leaves an order behind that nobody will ever resolve.
NoForgottenOrder == unknown \subseteq {row}

\* When the engine is satisfied that an order is over, it is over: nothing it
\* has stopped waiting for can still reach the position.
NothingLeftToWaitFor == Outstanding \subseteq unknown

\* "no second order for that PERP is created while one is outstanding": a new
\* client order id is signed only while no earlier order can still execute.
NoSecondOrder ==
  [][call.at = "sign" /\ call'.at = "persist" => Outstanding = {}]_attemptVars

\* "A PERP has at most one Order Attempt at a time": a new client order id is
\* signed only when neither the row nor the memory copy holds an attempt, and
\* the two agree after every step.
OneAttempt ==
  /\ MemBacked'
  /\ call.at = "sign" /\ call'.at = "persist" => row = None /\ mem = None

\* Write-ahead: the exchange only ever executes the order the durable row
\* names, so an engine that dies at any moment restarts knowing its id.
WriteAhead ==
  [][\A c \in Cloid : book[c] # "done" /\ book'[c] = "done" => row = c]_attemptVars

-----------------------------------------------------------------------------
(* Why they hold: what is true at each label of a call.                    *)

\* For any exchange and any network.
CallInv ==
  /\ MemBacked
  /\ call.at \notin {"idle", "done"} => call.res = "none"
  /\ call.at \in {"sign", "persist"} => row = None
  /\ call.at \in Carrying \ {"persist"} => call.id = row
  /\ call.at = "clearRow" => mem = None
  /\ call.res = "no" => row = None /\ mem = None

\* If the exchange never refuses a duplicate of an executed action.
KnownInv ==
  /\ NoForgottenOrder
  /\ reply # "duplicate"
  /\ call.at \in {"clearMem", "clearRow"} => row \notin unknown

\* If moreover no request outlives its HTTP call.
QuietInv ==
  /\ late = {}
  /\ \A c \in Cloid : book[c] = "open" => c \in unknown
  /\ call.at = "await" => call.id \in unknown
  /\ reply # "none" => call.at = "await"
  /\ reply = "rejected" => book[call.id] = "unseen"
=============================================================================
