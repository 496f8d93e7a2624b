------------------------------ MODULE Sessions ------------------------------
(***************************************************************************)
(* The control plane of one market: the API's requests that create, close, *)
(* attach and detach trading sessions and switch the market's sampling and *)
(* the engine mode (api/src/trading-sessions, perps, engineMode), the two  *)
(* MongoDB documents the engine watches through change streams             *)
(* (engine/src/mode.rs, config/watcher.rs), the session poller and the     *)
(* sampling guard (engine/src/session).                                    *)
(*                                                                         *)
(* A request is the sequence of its awaited queries; several requests are  *)
(* in flight at once. Trading itself appears only as what it does to a     *)
(* closing session: the engine flattens it and marks it closed.            *)
(***************************************************************************)
EXTENDS Integers

CONSTANTS
  Session,      \* trading sessions that may ever be created
  Wallet,       \* wallets
  Kind,         \* each wallet's kind, "mock" or "live"
  Request,      \* requests that may be in flight at once
  Gap,          \* may a write fall between loading a document and watching it?
  MaxRequests,  \* bound: requests ever sent
  MaxFaults     \* bound: failures the environment may still inject

None      == "none"
NoSession == "nobody"
Docs      == {"mode", "sampling"}

ASSUME SessionsAssumption ==
  /\ NoSession \notin Session
  /\ None \notin Wallet
  /\ Kind \in [Wallet -> {"mock", "live"}]
  /\ Gap \in BOOLEAN
  /\ MaxRequests \in Nat
  /\ MaxFaults \in Nat

VARIABLES
  doc,      \* engineConfig.mode and the market's perpConfigs.samplingEnabled
  status,   \* trading_sessions.status
  wallet,   \* trading_sessions.wallet_id
  req,      \* the requests in flight
  sent,     \* requests sent so far
  copy,     \* ModeStore and ConfigStore
  link,     \* the watcher of each document
  pending,  \* documents with a change event that was not read yet
  store,    \* SessionStore: status and wallet of the non-closed sessions
  seen,     \* the sampling guard's first_seen
  faults    \* failures left to inject

apiVars    == <<doc, status, wallet, req, sent>>
engineVars == <<copy, link, pending, store, seen>>
vars       == <<apiVars, engineVars, faults>>

SessionStatus == {"none", "active", "soft", "hard", "closed"}
Closing       == {"soft", "hard"}
Absent        == [status |-> "none", wallet |-> None]
NoReq == [kind |-> "none", at |-> "idle", s |-> NoSession, w |-> None, val |-> None, list |-> {}]

TypeOK ==
  /\ doc \in [mode: {"mock", "live"}, sampling: {None, "on", "off"}]
  /\ status \in [Session -> SessionStatus]
  /\ wallet \in [Session -> Wallet \cup {None}]
  /\ req \in [Request ->
       [kind: {"none", "create", "attach", "patch", "mode"},
        at: {"idle", "eligible", "read", "write", "insert", "set", "sweep", "mode", "list", "close"},
        s: Session \cup {NoSession}, w: Wallet \cup {None},
        val: {None, "on", "off", "mock", "live"}, list: SUBSET Session]]
  /\ sent \in 0..MaxRequests
  /\ copy \in [mode: {"mock", "live"}, sampling: {None, "on", "off"}]
  /\ link \in [Docs -> {"down", "loaded", "watching"}]
  /\ pending \in [Docs -> BOOLEAN]
  /\ store \in [Session -> [status: SessionStatus \ {"closed"}, wallet: Wallet \cup {None}]]
  /\ seen \subseteq Session
  /\ faults \in 0..MaxFaults

Fault == faults > 0 /\ faults' = faults - 1

\* Is w attached to a non-closed session other than s?
InUse(w, s) == \E r \in Session \ {s} : status[r] \notin {"none", "closed"} /\ wallet[r] = w

-----------------------------------------------------------------------------
(* The API.                                                                *)

Go(r, at)  == req' = [req EXCEPT ![r].at = at]
Respond(r) == req' = [req EXCEPT ![r] = NoReq]

Sent == sent < MaxRequests /\ sent' = sent + 1

\* A request arrives. One without a wallet skips the eligibility check; a
\* sampling patch that only changes the frequency keeps samplingEnabled.
Arrive(r) ==
  /\ req[r] = NoReq
  /\ Sent
  /\ \/ \E s \in Session, w \in Wallet \cup {None} :
          /\ status[s] = "none"
          /\ \A q \in Request : req[q].s # s
          /\ req' = [req EXCEPT ![r] = [NoReq EXCEPT !.kind = "create", !.s = s, !.w = w,
                       !.at = IF w = None THEN "read" ELSE "eligible", !.val = "on"]]
     \/ \E s \in Session, w \in Wallet :
          /\ status[s] # "none"
          /\ req' = [req EXCEPT ![r] = [NoReq EXCEPT !.kind = "attach", !.s = s, !.w = w,
                       !.at = "eligible"]]
     \/ \E v \in {"on", "off", None} :
          req' = [req EXCEPT ![r] = [NoReq EXCEPT !.kind = "patch", !.at = "read", !.val = v]]
     \/ \E m \in {"mock", "live"} :
          req' = [req EXCEPT ![r] = [NoReq EXCEPT !.kind = "mode", !.at = "mode", !.val = m]]
  /\ UNCHANGED <<doc, status, wallet, engineVars, faults>>

\* isWalletEligible.
Eligible(r) ==
  /\ req[r].at = "eligible"
  /\ \/ /\ Kind[req[r].w] = doc.mode
        /\ ~InUse(req[r].w, NoSession)
        /\ Go(r, IF req[r].kind = "create" THEN "read" ELSE "set")
     \/ Respond(r)                     \* not eligible, or too little balance
  /\ UNCHANGED <<doc, status, wallet, sent, engineVars, faults>>

\* updatePerpConfig reads the settings, the defaults when there are none ...
ReadConfig(r) ==
  /\ req[r].at = "read"
  /\ req' = [req EXCEPT ![r].at = "write",
                        ![r].val = IF @ # None THEN @
                                   ELSE IF doc.sampling = None THEN "off" ELSE doc.sampling,
                        ![r].list = IF req[r].val = "off" THEN Session ELSE {}]
  /\ UNCHANGED <<doc, status, wallet, sent, engineVars, faults>>

\* The change stream reports a write if it is open. Without Gap no write falls
\* between the loading of a document and the opening of its stream.
Write(d, v) ==
  /\ Gap \/ link[d] # "loaded"
  /\ doc' = [doc EXCEPT ![d] = v]
  /\ pending' = [pending EXCEPT ![d] = @ \/ (link[d] = "watching" /\ doc[d] # v)]

\* ... and writes them all back. A create goes on to the INSERT, a request to
\* turn sampling off to the closing of the market's sessions.
WriteConfig(r) ==
  /\ req[r].at = "write"
  /\ Write("sampling", req[r].val)
  /\ IF req[r].kind = "create" THEN Go(r, "insert")
     ELSE IF req[r].list # {} THEN Go(r, "sweep") ELSE Respond(r)
  /\ UNCHANGED <<status, wallet, sent, copy, link, store, seen, faults>>

\* Faulty variant: only the eligibility check protects the wallet.
InsertUnchecked(r) ==
  /\ req[r].at = "insert"
  /\ Respond(r)
  /\ status' = [status EXCEPT ![req[r].s] = "active"]
  /\ wallet' = [wallet EXCEPT ![req[r].s] = req[r].w]
  /\ UNCHANGED <<doc, sent, engineVars, faults>>

\* createTradingSession: the unique index refuses a wallet in use.
Insert(r) ==
  /\ req[r].at = "insert"
  /\ Respond(r)
  /\ LET s == req[r].s
         w == req[r].w
     IN  IF w # None /\ InUse(w, s)
           THEN UNCHANGED <<status, wallet>>
           ELSE /\ status' = [status EXCEPT ![s] = "active"]
                /\ wallet' = [wallet EXCEPT ![s] = w]
  /\ UNCHANGED <<doc, sent, engineVars, faults>>

\* setSessionWallet: the index only concerns non-closed sessions.
SetWallet(r) ==
  /\ req[r].at = "set"
  /\ Respond(r)
  /\ LET s == req[r].s
         w == req[r].w
     IN  IF status[s] # "closed" /\ InUse(w, s)
           THEN UNCHANGED wallet
           ELSE wallet' = [wallet EXCEPT ![s] = w]
  /\ UNCHANGED <<doc, status, sent, engineVars, faults>>

HardClose(S) ==
  status' = [s \in Session |-> IF s \in S /\ status[s] \in {"active", "soft"}
                               THEN "hard" ELSE status[s]]

\* hardCloseTradingSessionsForSymbol.
SweepMarket(r) ==
  /\ req[r].at = "sweep"
  /\ HardClose(Session)
  /\ Respond(r)
  /\ UNCHANGED <<doc, wallet, sent, engineVars, faults>>

\* setEngineMode; a switch to mock goes on to closeSessionsOnLiveWallets.
SetMode(r) ==
  /\ req[r].at = "mode"
  /\ Write("mode", req[r].val)
  /\ IF req[r].val = "mock" THEN Go(r, "list") ELSE Respond(r)
  /\ UNCHANGED <<status, wallet, sent, copy, link, store, seen, faults>>

OnLiveWallet(s) == wallet[s] # None /\ Kind[wallet[s]] = "live"

ListLive(r) ==
  /\ req[r].at = "list"
  /\ req' = [req EXCEPT ![r].at = "close",
               ![r].list = {s \in Session : status[s] \notin {"none", "closed"} /\ OnLiveWallet(s)}]
  /\ UNCHANGED <<doc, status, wallet, sent, engineVars, faults>>

\* The listed sessions are closed one UPDATE each.
CloseListed(r) ==
  /\ req[r].at = "close"
  /\ \/ req[r].list = {} /\ Respond(r) /\ UNCHANGED status
     \/ \E s \in req[r].list :
          /\ HardClose({s})
          /\ req' = [req EXCEPT ![r].list = @ \ {s}]
  /\ UNCHANGED <<doc, wallet, sent, engineVars, faults>>

\* The requests that are one statement.
SoftClose(s) ==
  /\ Sent
  /\ status[s] = "active"
  /\ status' = [status EXCEPT ![s] = "soft"]
  /\ UNCHANGED <<doc, wallet, req, engineVars, faults>>

HardCloseOne(s) ==
  /\ Sent
  /\ status[s] \in {"active", "soft"}
  /\ HardClose({s})
  /\ UNCHANGED <<doc, wallet, req, engineVars, faults>>

Detach(s) ==
  /\ Sent
  /\ wallet[s] # None
  /\ wallet' = [wallet EXCEPT ![s] = None]
  /\ UNCHANGED <<doc, status, req, engineVars, faults>>

\* A query of the request fails, or the API restarts: what it has written stays.
RequestDies(r) ==
  /\ req[r] # NoReq
  /\ Fault
  /\ Respond(r)
  /\ UNCHANGED <<doc, status, wallet, sent, engineVars>>

-----------------------------------------------------------------------------
(* The engine's copies of the two documents.                               *)

\* Faulty variant: after a reconnect the document is not loaded again.
LoadSkipped(d) ==
  /\ link[d] = "down"
  /\ link' = [link EXCEPT ![d] = "watching"]
  /\ UNCHANGED <<apiVars, copy, pending, store, seen, faults>>

\* load_initial; a missing document changes nothing.
Load(d) ==
  /\ link[d] = "down"
  /\ copy' = IF doc[d] = None THEN copy ELSE [copy EXCEPT ![d] = doc[d]]
  /\ link' = [link EXCEPT ![d] = "loaded"]
  /\ UNCHANGED <<apiVars, pending, store, seen, faults>>

Watch(d) ==
  /\ link[d] = "loaded"
  /\ link' = [link EXCEPT ![d] = "watching"]
  /\ UNCHANGED <<apiVars, copy, pending, store, seen, faults>>

\* watch_changes: UpdateLookup delivers the document as it is now.
Event(d) ==
  /\ pending[d]
  /\ copy' = [copy EXCEPT ![d] = doc[d]]
  /\ pending' = [pending EXCEPT ![d] = FALSE]
  /\ UNCHANGED <<apiVars, link, store, seen, faults>>

\* The stream ends; its unread events are lost.
Disconnect(d) ==
  /\ link[d] # "down"
  /\ Fault
  /\ link' = [link EXCEPT ![d] = "down"]
  /\ pending' = [pending EXCEPT ![d] = FALSE]
  /\ UNCHANGED <<apiVars, copy, store, seen>>

-----------------------------------------------------------------------------
(* The poller, the sampling guard and the closing of sessions.             *)

\* Faulty variant: closed sessions are polled too.
PollAll ==
  /\ store' = [s \in Session |-> [status |-> status[s], wallet |-> wallet[s]]]
  /\ UNCHANGED <<apiVars, copy, link, pending, seen, faults>>

Poll ==
  /\ store' = [s \in Session |-> IF status[s] \in {"none", "closed"} THEN Absent
                                 ELSE [status |-> status[s], wallet |-> wallet[s]]]
  /\ UNCHANGED <<apiVars, copy, link, pending, seen, faults>>

\* Faulty variant: a soft-closing session is not looked at.
ActiveOnly == {s \in Session : store[s].status = "active" /\ copy.sampling = "off"}

\* sessions_without_sampling.
Violating == {s \in Session : store[s].status \in {"active", "soft"} /\ copy.sampling = "off"}

\* A pass of the guard. Sessions that were in violation throughout the grace
\* period are hard-closed; a failed UPDATE starts a new period.
Guard ==
  LET due == Violating \cap seen IN
    /\ seen' = Violating \ due
    /\ \/ HardClose(due) /\ UNCHANGED faults
       \/ due # {} /\ UNCHANGED status /\ Fault
    /\ UNCHANGED <<doc, wallet, req, sent, copy, link, pending, store>>

\* Faulty variant: a closing session, too, waits for market data.
ResolvesSampled(s) ==
  store[s].wallet # None /\ Kind[store[s].wallet] = copy.mode /\ copy.sampling # "off"

\* resolve_execution's condition on what the engine knows of the session.
Resolves(s) == store[s].wallet # None /\ Kind[store[s].wallet] = copy.mode

\* The engine has flattened a closing session and marks it closed.
Finish(s) ==
  /\ store[s].status \in Closing
  /\ Resolves(s)
  /\ status' = [status EXCEPT ![s] = "closed"]
  /\ UNCHANGED <<doc, wallet, req, sent, engineVars, faults>>

Crash ==
  /\ Fault
  /\ copy' = [mode |-> "mock", sampling |-> None]
  /\ link' = [d \in Docs |-> "down"]
  /\ pending' = [d \in Docs |-> FALSE]
  /\ store' = [s \in Session |-> Absent]
  /\ seen' = {}
  /\ UNCHANGED apiVars

Handler(r) ==
  \/ Eligible(r) \/ ReadConfig(r) \/ WriteConfig(r) \/ Insert(r) \/ SetWallet(r)
  \/ SweepMarket(r) \/ SetMode(r) \/ ListLive(r) \/ CloseListed(r)

Watcher(d) == Load(d) \/ Watch(d) \/ Event(d)

Init ==
  /\ doc = [mode |-> "mock", sampling |-> None]
  /\ status = [s \in Session |-> "none"]
  /\ wallet = [s \in Session |-> None]
  /\ req = [r \in Request |-> NoReq]
  /\ sent = 0
  /\ copy = [mode |-> "mock", sampling |-> None]
  /\ link = [d \in Docs |-> "down"]
  /\ pending = [d \in Docs |-> FALSE]
  /\ store = [s \in Session |-> Absent]
  /\ seen = {}
  /\ faults = MaxFaults

Next ==
  \/ \E r \in Request : Arrive(r) \/ Handler(r) \/ RequestDies(r)
  \/ \E s \in Session : SoftClose(s) \/ HardCloseOne(s) \/ Detach(s) \/ Finish(s)
  \/ \E d \in Docs : Watcher(d) \/ Disconnect(d)
  \/ Poll \/ Guard \/ Crash

Spec == Init /\ [][Next]_vars

\* Requests are carried out, loops run, streams deliver, and a hard close that
\* the engine may carry out succeeds in the end. A soft close need not: it
\* waits for market data.
Fairness ==
  /\ WF_vars(\E r \in Request : Handler(r))
  /\ WF_vars(\E d \in Docs : Watcher(d))
  /\ WF_vars(Poll) /\ WF_vars(Guard)
  /\ WF_vars(\E s \in Session : store[s].status = "hard" /\ Finish(s))

FairSpec == Spec /\ Fairness

-----------------------------------------------------------------------------
(* What the control plane promises.                                        *)

\* "A wallet may be attached to at most one non-closed session at a time",
\* however requests that checked it earlier are interleaved.
WalletExclusive ==
  \A s \in Session :
    status[s] \notin {"none", "closed"} /\ wallet[s] # None => ~InUse(wallet[s], s)

\* The engine catches up with both documents, across ended streams and restarts.
CatchesUp == \A d \in Docs : []<>(copy[d] = doc[d])

\* "No market is ever traded blind": a session is not left trading a market
\* whose sampling is off, whichever requests raced to switch it.
NoBlindTrading ==
  \A s \in Session :
    (doc.sampling = "off" /\ status[s] \in {"active", "soft"})
      ~> (doc.sampling # "off" \/ status[s] \notin {"active", "soft"})

\* May the engine trade session s?
Tradable(s) == wallet[s] # None /\ Kind[wallet[s]] = doc.mode

\* A hard close completes as long as the session keeps a wallet of the current mode.
HardCloseCompletes ==
  \A s \in Session : status[s] = "hard" ~> (status[s] = "closed" \/ ~Tradable(s))

\* "When the engine mode switches to mock, force-close any non-closed session
\* currently attached to a live wallet, rather than leaving it running but
\* unable to execute."
LiveSessionsEnd ==
  \A s \in Session :
    (doc.mode = "mock" /\ status[s] = "hard" /\ OnLiveWallet(s))
      ~> (doc.mode = "live" \/ status[s] = "closed" \/ ~OnLiveWallet(s))
=============================================================================
