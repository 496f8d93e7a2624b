-------------------------------- MODULE Api ---------------------------------
(***************************************************************************)
(* The API as its clients see it (api/src): the reads the console's pages  *)
(* are made of and the writes, each the sequence of the awaited queries of *)
(* its handler, on one market, its sessions and the wallets.               *)
(*                                                                         *)
(* What Sessions leaves out is here: wallets come and go, a session keeps  *)
(* a foreign key to its wallet when it is closed, a query or a call of     *)
(* Hyperliquid fails, and a handler that is not wrapped takes the whole    *)
(* process down with it. What Sessions has, the engine, appears only as    *)
(* closing sessions and holding wallets. Prices, sizes and the settings of *)
(* a session other than its wallet are left out.                           *)
(***************************************************************************)
EXTENDS Naturals, FiniteSets

CONSTANTS
  Session,    \* trading sessions of the market that may ever exist
  Wallet,     \* wallets that may ever exist, each with its label
  Kind,       \* "mock" or "live"
  ChartRange,      \* chart ranges a client may ask samples of
  Client,     \* clients with a write under way
  Overlap,    \* bound: reads of one resource in flight at once
  MaxWrites,  \* bound: writes ever sent
  MaxFaults   \* bound: failures the environment may inject

None == "none"
Resource == {"perp", "sessions", "samples", "wallets", "selectable", "holds", "mode",
             "run", "position", "trades"}
Ops == {"create", "attach", "detach", "soft", "hard", "patch", "mode", "remove", "add", "clear",
        "backtest"}

ASSUME ApiAssumption ==
  /\ None \notin Session \cup Wallet
  /\ Kind \in [Wallet -> {"mock", "live"}]
  /\ Overlap \in Nat \ {0} /\ MaxWrites \in Nat /\ MaxFaults \in Nat

VARIABLES
  up,       \* the process lives; nothing restarts it
  cookie,   \* the browser's session token is valid
  mode,     \* engineConfig.mode
  sampling, \* the market's samplingEnabled
  wallets,  \* rows of wallets
  sess,     \* rows of trading_sessions
  holds,    \* rows of live_execution_holds: the wallets on hold
  run,      \* the market's backtest: its status, an open position, closed trades
  read,     \* the reads under way, by resource
  call,     \* the write each client waits for
  writes,   \* writes left to send
  faults    \* failures left to inject

dbVars  == <<mode, sampling, wallets, sess, holds>>
apiVars == <<up, cookie, dbVars, run, read, call, writes, faults>>

Status == {"none", "active", "soft", "hard", "closed"}
Open   == {"active", "soft", "hard"}
RunStatus == {"none", "pending", "running", "completed", "failed"}

NoRead == [at |-> "none", by |-> "poll", arg |-> None, body |-> <<>>]
NoCall == [op |-> "none", at |-> "idle", s |-> None, w |-> None, v |-> None,
           got |-> {}, code |-> "pending"]

Fault == faults > 0 /\ faults' = faults - 1

\* getWalletSessionId: the open sessions w is attached to.
SessionsOn(w) == {s \in Session : sess[s].status \in Open /\ sess[s].wallet = w}

\* The rows the foreign key of trading_sessions keeps from being deleted.
Referenced(w) == \E s \in Session : sess[s].status # "none" /\ sess[s].wallet = w

-----------------------------------------------------------------------------
(* Reads. A fetch answers with the rows, or fails: not 2xx, or no answer.  *)

SessionRows == [s \in {t \in Session : sess[t].status # "none"} |-> sess[s]]
Usage(W)    == [w \in W |-> SessionsOn(w) # {}]

\* Of the backtest: its status, its open position, its closed trades.
RunSnapshot == [run |-> run.status, position |-> run.held, trades |-> run.trades]

Snapshot(r, arg) ==
  CASE r = "perp"     -> sampling
    [] r = "sessions" -> SessionRows
    [] r = "samples"  -> arg
    [] r = "holds"    -> holds
    [] r = "mode"     -> mode
    [] r = "wallets"  -> Usage(wallets)
    [] r \in DOMAIN RunSnapshot -> RunSnapshot[r]

\* Requests beyond the bound wait in the browser; the caller says where they start.
Free(reads) == {k \in DOMAIN reads : reads[k].at = "none"}
Asked(by, arg) == [at |-> "asked", by |-> by, arg |-> arg, body |-> <<>>]
Asking(reads, by, arg) ==
  IF Free(reads) = {} THEN reads
  ELSE [reads EXCEPT ![CHOOSE k \in Free(reads) : \A j \in Free(reads) : k <= j] = Asked(by, arg)]

SetRead(r, k, at, body) ==
  read' = [read EXCEPT ![r][k].at = at, ![r][k].body = body]

Crash ==
  /\ up' = FALSE
  /\ call' = [c \in Client |->
       IF call[c].at \in {"idle", "done"} THEN call[c]
       ELSE [call[c] EXCEPT !.at = "done", !.code = "down"]]
  /\ UNCHANGED <<cookie, dbVars, run, writes>>

\* One query; what belongs to a backtest is asked for after the backtest itself,
\* and is not found without it.
ServeOne(r, k) ==
  /\ up /\ read[r][k].at = "asked" /\ r \notin {"wallets", "selectable"}
  /\ IF cookie /\ (r \in {"position", "trades"} => run.status # "none") THEN SetRead(r, k, "got", <<Snapshot(r, read[r][k].arg)>>)
               ELSE SetRead(r, k, "failed", <<>>)
  /\ UNCHANGED <<up, cookie, run, dbVars, call, writes, faults>>

\* The list of wallets (of those in the engine's mode, for the form) ...
ListWallets(r, k) ==
  /\ up /\ read[r][k].at = "asked" /\ r \in {"wallets", "selectable"}
  /\ IF cookie
       THEN SetRead(r, k, "listed",
              <<IF r = "wallets" THEN wallets ELSE {w \in wallets : Kind[w] = mode}>>)
       ELSE SetRead(r, k, "failed", <<>>)
  /\ UNCHANGED <<up, cookie, run, dbVars, call, writes, faults>>

\* ... and the session each is attached to; for the form, those that are free
\* and whose balance covers the size, which any may fail to.
FindUsage(r, k) ==
  /\ up /\ read[r][k].at = "listed"
  /\ LET listed == read[r][k].body[1]
     IN  IF r = "wallets"
           THEN SetRead(r, k, "got",
                  <<Usage(listed)>>)
           ELSE \E rich \in SUBSET listed :
                  SetRead(r, k, "got", <<{w \in rich : SessionsOn(w) = {}}>>)
  /\ UNCHANGED <<up, cookie, run, dbVars, call, writes, faults>>

\* A query or Hyperliquid fails: /perps is wrapped and answers 500 or 503.
ReadFails(r, k) ==
  /\ up /\ read[r][k].at \in {"asked", "listed"}
  /\ Fault
  /\ IF r = "perp"
       THEN /\ SetRead(r, k, "failed", <<>>)
            /\ UNCHANGED <<up, cookie, run, dbVars, call, writes>>
       ELSE Crash /\ UNCHANGED read

\* The connection breaks, or nobody listens.
LoseRead(r, k) ==
  /\ read[r][k].at \in {"asked", "listed"}
  /\ IF up THEN Fault ELSE UNCHANGED faults
  /\ SetRead(r, k, "failed", <<>>)
  /\ UNCHANGED <<up, cookie, run, dbVars, call, writes>>

Serve(r, k) == ServeOne(r, k) \/ ListWallets(r, k) \/ FindUsage(r, k)

-----------------------------------------------------------------------------
(* Writes. A client learns whether the answer is 2xx, or that none came.   *)

\* The values a request may carry.
Request(op, s, w, v) ==
  /\ op \in Ops
  /\ IF op \in {"attach", "detach", "soft", "hard"} THEN sess[s].status # "none"
     ELSE IF op = "create" THEN sess[s].status = "none" /\ \A c \in Client : call[c].s # s
     ELSE IF op = "backtest" THEN run.status = "none" /\ s = None /\ \A c \in Client : call[c].op # op
     ELSE s = None
  /\ IF op \in {"attach", "remove", "add", "clear"} THEN w \in Wallet
     ELSE IF op = "create" THEN w \in Wallet \cup {None} ELSE w = None
  /\ v \in IF op = "patch" THEN {"on", "off", "keep"}
           ELSE IF op = "mode" THEN {"mock", "live"}
           ELSE IF op = "create" THEN {"on"} ELSE {None}

MaySend(c) == call[c] = NoCall /\ writes > 0

Send(c, op, s, w, v) ==
  /\ MaySend(c)
  /\ writes' = writes - 1
  /\ call' = [call EXCEPT ![c] = [NoCall EXCEPT !.op = op, !.at = "sent",
                                                !.s = s, !.w = w, !.v = v]]

Go(c, at)      == call' = [call EXCEPT ![c].at = at]
Answer(c, code) == call' = [call EXCEPT ![c].at = "done", ![c].code = code]

FirstQuery(c) ==
  CASE call[c].op = "create" -> IF call[c].w = None THEN "config" ELSE "eligible"
    [] call[c].op = "attach" -> "existing"
    [] call[c].op = "detach" -> "wallet"
    [] call[c].op \in {"soft", "hard"} -> "close"
    [] call[c].op = "patch"  -> "config"
    [] call[c].op = "mode"   -> "mode"
    [] call[c].op = "remove" -> "usage"
    [] call[c].op = "add"    -> "new"
    [] call[c].op = "clear"  -> "hold"
    [] call[c].op = "backtest" -> "span"

\* Values outside the limits, a live wallet or mode on a demo deployment.
MayRefuse(c) == call[c].op \in {"create", "patch", "mode", "add", "backtest"}

\* requireAuth and the checks of the request's values.
Enter(c) ==
  /\ up /\ call[c].at = "sent"
  /\ \/ ~cookie /\ Answer(c, "refused")
     \/ cookie /\ MayRefuse(c) /\ Answer(c, "refused")
     \/ cookie /\ Go(c, FirstQuery(c))
  /\ UNCHANGED <<up, cookie, run, dbVars, read, writes, faults>>

\* attach: the session, for its size and symbol.
Existing(c) ==
  /\ up /\ call[c].at = "existing"
  /\ Go(c, "eligible")
  /\ UNCHANGED <<up, cookie, run, dbVars, read, writes, faults>>

\* isWalletEligible: the mode, the wallet and its session ...
Eligible(c) ==
  /\ up /\ call[c].at = "eligible"
  /\ IF call[c].w \in wallets /\ Kind[call[c].w] = mode /\ SessionsOn(call[c].w) = {}
       THEN Go(c, "balance") ELSE Answer(c, "refused")
  /\ UNCHANGED <<up, cookie, run, dbVars, read, writes, faults>>

\* ... and its balance, which covers the size or does not.
Balance(c) ==
  /\ up /\ call[c].at = "balance"
  /\ \/ Go(c, IF call[c].op = "create" THEN "config" ELSE "wallet")
     \/ Answer(c, "refused")
  /\ UNCHANGED <<up, cookie, run, dbVars, read, writes, faults>>

\* updatePerpConfig reads the market's settings ...
ReadConfig(c) ==
  /\ up /\ call[c].at = "config"
  /\ call' = [call EXCEPT ![c].at = "write",
       ![c].v = IF @ = "keep" THEN IF sampling THEN "kept on" ELSE "kept off" ELSE @]
  /\ UNCHANGED <<up, cookie, run, dbVars, read, writes, faults>>

\* ... and writes them back, changed or not.
WriteConfig(c) ==
  /\ up /\ call[c].at = "write"
  /\ sampling' = (call[c].v \in {"on", "kept on"})
  /\ IF call[c].op = "create" THEN Go(c, "insert")
     ELSE IF call[c].v = "off" THEN Go(c, "sweep")
     ELSE Answer(c, "ok")
  /\ UNCHANGED <<up, cookie, run, mode, wallets, sess, holds, read, writes, faults>>

\* Faulty variant: the table has no foreign key to wallets.
PutUnchecked(c, row) ==
  IF call[c].w # None /\ row.status \in Open /\ SessionsOn(call[c].w) \ {call[c].s} # {}
    THEN Answer(c, "refused") /\ UNCHANGED <<up, cookie, run, dbVars, writes>>
  ELSE /\ sess' = [sess EXCEPT ![call[c].s] = row]
       /\ Answer(c, "ok")
       /\ UNCHANGED <<up, cookie, run, mode, sampling, wallets, holds, writes>>

\* A row of trading_sessions: the unique index answers 409, the foreign key is
\* not expected.
Put(c, row) ==
  IF call[c].w \notin wallets \cup {None} THEN Crash ELSE PutUnchecked(c, row)

Insert(c) ==
  /\ up /\ call[c].at = "insert"
  /\ Put(c, [status |-> "active", wallet |-> call[c].w])
  /\ UNCHANGED <<read, faults>>

\* setSessionWallet, whatever the session's status.
SetWallet(c) ==
  /\ up /\ call[c].at = "wallet"
  /\ Put(c, [sess[call[c].s] EXCEPT !.wallet = call[c].w])
  /\ UNCHANGED <<read, faults>>

Closed(c, S) ==
  sess' = [s \in Session |-> IF s \in S THEN [sess[s] EXCEPT !.status = "hard"] ELSE sess[s]]

\* Sampling is off: hardCloseTradingSessionsForSymbol.
Sweep(c) ==
  /\ up /\ call[c].at = "sweep"
  /\ Closed(c, {s \in Session : sess[s].status \in {"active", "soft"}})
  /\ Answer(c, "ok")
  /\ UNCHANGED <<up, cookie, run, mode, sampling, wallets, holds, read, writes, faults>>

CloseSession(c) ==
  /\ up /\ call[c].at = "close"
  /\ LET from == IF call[c].op = "soft" THEN {"active"} ELSE {"active", "soft"}
     IN  IF sess[call[c].s].status \in from
           THEN /\ sess' = [sess EXCEPT ![call[c].s].status = call[c].op]
                /\ Answer(c, "ok")
           ELSE Answer(c, "refused") /\ UNCHANGED sess
  /\ UNCHANGED <<up, cookie, run, mode, sampling, wallets, holds, read, writes, faults>>

SetMode(c) ==
  /\ up /\ call[c].at = "mode"
  /\ mode' = call[c].v
  /\ IF call[c].v = "mock" THEN Go(c, "live") ELSE Answer(c, "ok")
  /\ UNCHANGED <<up, cookie, run, sampling, wallets, sess, holds, read, writes, faults>>

\* closeSessionsOnLiveWallets: the sessions, then one UPDATE for each.
ListLive(c) ==
  /\ up /\ call[c].at = "live"
  /\ LET live == {s \in Session : /\ sess[s].status \in Open
                                  /\ sess[s].wallet \in wallets
                                  /\ Kind[sess[s].wallet] = "live"}
     IN  call' = [call EXCEPT ![c].at = "each", ![c].got = live]
  /\ UNCHANGED <<up, cookie, run, dbVars, read, writes, faults>>

CloseEach(c) ==
  /\ up /\ call[c].at = "each"
  /\ \/ /\ call[c].got = {}
        /\ Answer(c, "ok")
        /\ UNCHANGED sess
     \/ \E s \in call[c].got :
          /\ call' = [call EXCEPT ![c].got = @ \ {s}]
          /\ Closed(c, {s} \cap {t \in Session : sess[t].status \in {"active", "soft"}})
  /\ UNCHANGED <<up, cookie, run, mode, sampling, wallets, holds, read, writes, faults>>

\* deleteWallet asks whether a session uses the wallet ...
CheckUsage(c) ==
  /\ up /\ call[c].at = "usage"
  /\ IF SessionsOn(call[c].w) = {} THEN Go(c, "delete") ELSE Answer(c, "refused")
  /\ UNCHANGED <<up, cookie, run, dbVars, read, writes, faults>>

\* Faulty variant: the wallet's holds stay.
DeleteOnly(c) ==
  /\ up /\ call[c].at = "delete"
  /\ IF Referenced(call[c].w) THEN Crash
     ELSE /\ wallets' = wallets \ {call[c].w}
          /\ Answer(c, IF call[c].w \in wallets THEN "ok" ELSE "refused")
          /\ UNCHANGED <<up, cookie, run, mode, sampling, sess, holds, writes>>
  /\ UNCHANGED <<read, faults>>

\* ... and deletes it with its holds, unless a session, a closed one even,
\* still refers to it.
Delete(c) ==
  /\ up /\ call[c].at = "delete"
  /\ IF Referenced(call[c].w) THEN Crash
     ELSE /\ wallets' = wallets \ {call[c].w}
          /\ holds' = holds \ {call[c].w}
          /\ Answer(c, IF call[c].w \in wallets THEN "ok" ELSE "refused")
          /\ UNCHANGED <<up, cookie, run, mode, sampling, sess, writes>>
  /\ UNCHANGED <<read, faults>>

\* insertWallet: labels are unique.
InsertWallet(c) ==
  /\ up /\ call[c].at = "new"
  /\ wallets' = wallets \cup {call[c].w}
  /\ Answer(c, IF call[c].w \in wallets THEN "refused" ELSE "ok")
  /\ UNCHANGED <<up, cookie, run, mode, sampling, sess, holds, read, writes, faults>>

ClearHold(c) ==
  /\ up /\ call[c].at = "hold"
  /\ holds' = holds \ {call[c].w}
  /\ Answer(c, IF call[c].w \in holds THEN "ok" ELSE "refused")
  /\ UNCHANGED <<up, cookie, run, mode, sampling, wallets, sess, read, writes, faults>>

\* getMarketDataRange: a backtest may not leave the samples there are.
DataSpan(c) ==
  /\ up /\ call[c].at = "span"
  /\ Go(c, "run") \/ Answer(c, "refused")
  /\ UNCHANGED <<up, cookie, run, dbVars, read, writes, faults>>

\* createBacktestRun.
InsertRun(c) ==
  /\ up /\ call[c].at = "run"
  /\ run' = [run EXCEPT !.status = "pending"]
  /\ Answer(c, "ok")
  /\ UNCHANGED <<up, cookie, dbVars, read, writes, faults>>

\* A query, or Hyperliquid's answer for a live wallet, fails: only the handler
\* of the market's settings is wrapped.
CallFails(c) ==
  /\ up /\ call[c].at \notin {"idle", "sent", "done"}
  /\ Fault
  /\ IF call[c].op = "patch"
       THEN Answer(c, "refused") /\ UNCHANGED <<up, cookie, run, dbVars, writes>>
       ELSE Crash
  /\ UNCHANGED read

\* The request or its answer is lost, or nobody listens.
LoseCall(c) ==
  /\ \/ call[c].at = "sent"
     \/ up /\ call[c].at = "done" /\ call[c].code # "down"
  /\ IF up THEN Fault ELSE UNCHANGED faults
  /\ Answer(c, "down")
  /\ UNCHANGED <<up, cookie, run, dbVars, read, writes>>

Handle(c) ==
  \/ Enter(c) \/ Existing(c) \/ Eligible(c) \/ Balance(c) \/ ReadConfig(c) \/ WriteConfig(c)
  \/ Insert(c) \/ SetWallet(c) \/ Sweep(c) \/ CloseSession(c)
  \/ SetMode(c) \/ ListLive(c) \/ CloseEach(c)
  \/ CheckUsage(c) \/ Delete(c) \/ InsertWallet(c) \/ ClearHold(c)
  \/ DataSpan(c) \/ InsertRun(c)

-----------------------------------------------------------------------------
(* What happens meanwhile.                                                 *)

\* The engine closes a session that is closing, or puts a live wallet on hold.
Engine ==
  /\ \/ \E s \in Session :
          /\ sess[s].status \in {"soft", "hard"}
          /\ sess' = [sess EXCEPT ![s].status = "closed"]
          /\ UNCHANGED holds
     \/ \E w \in wallets \ holds :
          /\ Kind[w] = "live" /\ SessionsOn(w) # {}
          /\ holds' = holds \cup {w}
          /\ UNCHANGED sess
  /\ UNCHANGED <<up, cookie, run, mode, sampling, wallets, read, call, writes, faults>>

\* The engine claims the backtest, opens a position and closes it, and is done,
\* or fails and leaves things as they are.
Replay ==
  /\ \/ run.status = "pending" /\ run' = [run EXCEPT !.status = "running"]
     \/ /\ run.status = "running"
        /\ \/ ~run.held /\ run.trades = 0 /\ run' = [run EXCEPT !.held = TRUE]
           \/ run.held /\ run' = [run EXCEPT !.held = FALSE, !.trades = 1]
           \/ \E end \in {"completed", "failed"} : run' = [run EXCEPT !.status = end]
  /\ UNCHANGED <<up, cookie, dbVars, read, call, writes, faults>>

\* The token is 24 hours old.
Expire ==
  /\ cookie /\ Fault
  /\ cookie' = FALSE
  /\ UNCHANGED <<up, dbVars, run, read, call, writes>>

ApiStep ==
  \/ \E r \in Resource : \E k \in DOMAIN read[r] : Serve(r, k) \/ ReadFails(r, k) \/ LoseRead(r, k)
  \/ \E c \in Client : Handle(c) \/ CallFails(c) \/ LoseCall(c)
  \/ Engine \/ Replay \/ Expire

-----------------------------------------------------------------------------
ApiTypeOK ==
  /\ up \in BOOLEAN /\ cookie \in BOOLEAN
  /\ mode \in {"mock", "live"} /\ sampling \in BOOLEAN
  /\ wallets \subseteq Wallet /\ holds \subseteq wallets
  /\ sess \in [Session -> [status : Status, wallet : Wallet \cup {None}]]
  /\ run \in [status : RunStatus, held : BOOLEAN, trades : 0..1]
  /\ \A r \in Resource : DOMAIN read[r] \subseteq 1..Overlap
  /\ \A r \in Resource : \A k \in DOMAIN read[r] :
       read[r][k].at \in {"none", "asked", "listed", "got", "failed"}
  /\ \A c \in Client :
       /\ call[c].op \in Ops \cup {"none"}
       /\ call[c].code \in {"pending", "ok", "refused", "down"}
       /\ call[c].at = "done" <=> call[c].code # "pending"
  /\ writes \in 0..MaxWrites /\ faults \in 0..MaxFaults

\* A session keeps its wallet: no interleaving of creating, attaching and
\* deleting leaves a row, open or closed, that names a wallet that is gone,
\* although deleteWallet looks for open sessions only and deletes later.
WalletKept == \A s \in Session : sess[s].wallet \in wallets \cup {None}

\* "No single request - a bad symbol, a transient upstream failure - may be
\* allowed to kill the server" (app.ts): expected to fail.
ServerSurvives == up
=============================================================================
