------------------------------ MODULE Console -------------------------------
(***************************************************************************)
(* The operator's console (frontend/src/app/dashboard) on top of the API:  *)
(* the pages of a market, of a session, of a backtest, of the markets, of  *)
(* the wallets and of the positions, one of them open, and the engine mode *)
(* switch beside each.                                                     *)
(*                                                                         *)
(* A page shows what its reads brought back (view), polled every few       *)
(* seconds or read once when it opens, patched by what its own writes      *)
(* answer. A second client and the engine change the same rows. The page   *)
(* has one write under way at a time.                                      *)
(***************************************************************************)
EXTENDS Api, Sequences

CONSTANTS
  Scope      \* what is looked at together: a page, those of its resources that are
             \* followed, what other clients ask of the API meanwhile, the bounds

VARIABLES
  scope,     \* the scope of this run of the system
  view,      \* what it shows of each resource: <<>> until something arrived
  range,     \* what is selected: the chart's range, the market of the decisions
  dialog,    \* the dialog that is open
  walletId,  \* the wallet selected in the new-session form
  stuck,     \* a handler was left by an exception: its button stays busy
  error      \* an error message is shown

pageVars    == <<scope, view, range, dialog, walletId, stuck, error>>
consoleVars == <<apiVars, pageVars>>

Me == "page"

\* "also" is for what stands beside the console and is looked at instead of it.
Looks == [also : STRING,
          page : {"none", "market", "session", "backtest", "markets", "wallets", "positions"},
          reads : SUBSET Resource, others : SUBSET Ops,
          sessions : SUBSET Session, wallets : SUBSET Wallet,
          writes : 0..MaxWrites, faults : 0..MaxFaults, overlap : 1..Overlap]

ASSUME ConsoleAssumption == Me \in Client /\ Scope \subseteq Looks

page == scope.page

Dialogs == {"none", "sampling", "disable", "session"}

\* What each page reads again and again, what when it opens, and which of it
\* puts an error on display when it fails.
MarketPage    == [polls |-> {"perp", "sessions", "samples"}, loads |-> {"mode"}, errors |-> {"samples"}]
SessionPage   == [polls |-> {"sessions", "samples"}, loads |-> {"mode"}, errors |-> {"samples"}]
BacktestPage  == [polls |-> {"run", "position", "trades"}, loads |-> {"mode"}, errors |-> {}]
MarketsPage   == [polls |-> {}, loads |-> {"perp", "sessions", "mode"}, errors |-> {"perp"}]
WalletsPage   == [polls |-> {}, loads |-> {"wallets", "mode"}, errors |-> {"wallets"}]
PositionsPage == [polls |-> {}, loads |-> {"sessions", "samples", "mode"}, errors |-> {"samples"}]

Pages == [none |-> [polls |-> {}, loads |-> {}, errors |-> {}],
          market |-> MarketPage, session |-> SessionPage, backtest |-> BacktestPage,
          markets |-> MarketsPage, wallets |-> WalletsPage, positions |-> PositionsPage]

Repeated == MarketPage.polls \cup BacktestPage.polls

Slots      == 1..scope.overlap
Follows(r) == r \in scope.reads
Polled     == Pages[page].polls \cap scope.reads

Shown(r)  == view[r] # <<>>
Rows      == IF Shown("sessions") THEN view["sessions"][1] ELSE [s \in {} |-> NoCall]
OpenShown == {s \in DOMAIN Rows : Rows[s].status \in Open}
Live(W)   == {w \in W : Kind[w] = "live"}

\* The page asks for some resources at once.
Arg(r, x)    == IF r = "samples" THEN x ELSE None
Fetch(R, by) ==
  read' = [r \in Resource |-> IF r \in R THEN Asking(read[r], by, Arg(r, range)) ELSE read[r]]

\* A page that opens asks for all of it.
Opening(p) ==
  read' = [r \in Resource |-> [k \in Slots |->
    IF k = 1 /\ Follows(r) /\ r \in Pages[p].polls \cup Pages[p].loads
      THEN Asked("poll", Arg(r, range)) ELSE NoRead]]

ConsoleInit ==
  /\ up = TRUE /\ cookie = TRUE
  /\ mode \in {Kind[w] : w \in Wallet} /\ sampling = TRUE
  /\ scope \in Scope
  /\ wallets = scope.wallets /\ holds = Live(wallets) \cap {w \in Wallet : page = "wallets"}
  /\ sess \in [Session -> [status : {"active", "closed"}, wallet : Wallet \cup {None}]
                          \cup [status : {"none"}, wallet : {None}]]
  /\ WalletKept
  /\ \A s \in Session \ scope.sessions : sess[s].status = "none"
  /\ \A s \in Session : sess[s].status = "active" /\ sess[s].wallet # None =>
       Kind[sess[s].wallet] = mode /\ SessionsOn(sess[s].wallet) = {s}
  /\ run \in [status : IF page = "backtest" THEN {"none", "pending"} ELSE {"none"},
             held : {FALSE}, trades : {0}]
  /\ call = [c \in Client |-> NoCall]
  /\ writes = scope.writes /\ faults = scope.faults
  /\ range \in ChartRange
  /\ view = [r \in Resource |-> <<>>]
  /\ read = [r \in Resource |-> [k \in 1..scope.overlap |->
       IF k = 1 /\ Follows(r) /\ r \in Pages[page].polls \cup Pages[page].loads THEN Asked("poll", Arg(r, range)) ELSE NoRead]]
  /\ dialog = "none" /\ walletId = None
  /\ stuck = FALSE /\ error = FALSE

-----------------------------------------------------------------------------
(* Reads arrive.                                                           *)

\* Faulty variant: what is polled is read once.
PollOnce(r) ==
  /\ r \in Polled /\ ~Shown(r) /\ Free(read[r]) # {}
  /\ Fetch({r}, "poll")
  /\ UNCHANGED <<up, cookie, run, dbVars, call, writes, faults, pageVars>>

\* The interval: it does not wait for the previous answers.
Poll(r) ==
  /\ r \in Polled /\ Free(read[r]) # {}
  /\ Fetch({r}, "poll")
  /\ UNCHANGED <<up, cookie, run, dbVars, call, writes, faults, pageVars>>

\* The holds are read whenever the list of wallets changes; the answer to an
\* earlier list is ignored.
HoldsOf(W) ==
  IF ~Follows("holds") \/ Live(W) = {} THEN [k \in Slots |-> NoRead]
  ELSE [k \in Slots |-> IF k = 1 THEN Asked("poll", None) ELSE NoRead]

\* The form's wallet is the first of the list when it is not one of the list:
\* "No wallet" only stays selected when there is none.
Select(w, W) == IF w \in W \/ W = {} THEN IF w \in W THEN w ELSE None
                ELSE CHOOSE x \in W : TRUE

Deliver(r, k) ==
  /\ read[r][k].at = "got"
  /\ LET body   == read[r][k].body
         relist == r = "wallets"
     IN  /\ view' = [q \in Resource |-> IF q = r THEN body
                       ELSE IF q = "holds" /\ relist /\ Live(DOMAIN body[1]) = {} THEN <<{}>>
                       ELSE view[q]]
         /\ walletId' = IF r = "selectable" THEN Select(walletId, body[1]) ELSE walletId
         /\ read' = [q \in Resource |-> IF q = r THEN [read[q] EXCEPT ![k] = NoRead]
                       ELSE IF q = "holds" /\ relist THEN HoldsOf(DOMAIN body[1])
                       ELSE read[q]]
  /\ UNCHANGED <<up, cookie, run, dbVars, call, writes, faults>>
  /\ UNCHANGED <<scope, range, dialog, stuck, error>>

\* What a page shows when a read failed: no sessions, no wallets to choose, no
\* holds, no backtest and no trades of it; the rest as it was.
Fallback(r, by) ==
  IF r = "sessions" /\ (by = "poll" \/ page = "session") THEN <<[s \in {} |-> NoCall]>>
  ELSE IF r \in {"selectable", "holds"} THEN <<{}>>
  ELSE IF r = "run" THEN <<"none">>
  ELSE IF r = "trades" THEN <<0>>
  ELSE IF r = "position" /\ ~Shown(r) THEN <<FALSE>>
  ELSE view[r]

DeliverFailure(r, k) ==
  /\ read[r][k].at = "failed"
  /\ view' = [view EXCEPT ![r] = Fallback(r, read[r][k].by)]
  /\ walletId' = IF r = "selectable" THEN None ELSE walletId
  /\ error' = (error \/ r \in Pages[page].errors)
  /\ read' = [read EXCEPT ![r][k] = NoRead]
  /\ UNCHANGED <<up, cookie, run, dbVars, call, writes, faults>>
  /\ UNCHANGED <<scope, range, dialog, stuck>>

\* Another range or market. The market's page ignores what its last effect
\* still waits for; the others do not.
Reread    == IF page = "positions" THEN {"samples"} ELSE Polled
StillOpen == [r \in Resource |-> [k \in Slots |->
  IF page = "market" /\ r \in Polled /\ read[r][k].by = "poll" THEN NoRead ELSE read[r][k]]]

ChangeRange(x) ==
  /\ page \in {"market", "session", "positions"} /\ Follows("samples") /\ x # range
  /\ \A r \in Reread : Free(StillOpen[r]) # {}
  /\ range' = x
  /\ read' = [r \in Resource |->
       IF r \in Reread THEN Asking(StillOpen[r], "poll", Arg(r, x)) ELSE StillOpen[r]]
  /\ UNCHANGED <<up, cookie, run, dbVars, call, writes, faults>>
  /\ UNCHANGED <<scope, view, dialog, walletId, stuck, error>>

-----------------------------------------------------------------------------
(* The operator.                                                           *)

Idle == call[Me] = NoCall /\ ~stuck

\* applyPatch shows the market as asked for and sends; the rest is in Answered.
Patch(v) ==
  /\ Send(Me, "patch", None, None, v)
  /\ view' = [view EXCEPT !["perp"] = <<v = "on">>]

\* handleSamplingClick: turning it off asks first if open sessions are shown.
SamplingClick ==
  /\ page \in {"market", "markets"} /\ dialog = "none"
  /\ Shown("perp") /\ Idle
  /\ IF view["perp"] = <<TRUE>> /\ OpenShown = {}
       THEN /\ Patch("off")
            /\ UNCHANGED dialog
       ELSE /\ dialog' = IF view["perp"] = <<TRUE>> THEN "disable" ELSE "sampling"
            /\ UNCHANGED <<call, writes, view>>
  /\ UNCHANGED <<up, cookie, run, dbVars, read, faults>>
  /\ UNCHANGED <<scope, range, walletId, stuck, error>>

\* SamplingForm and DisableSamplingConfirm.
Confirm ==
  /\ dialog \in {"sampling", "disable"} /\ Idle
  /\ Patch(IF dialog = "sampling" THEN "on" ELSE "off")
  /\ UNCHANGED <<up, cookie, run, dbVars, read, faults>>
  /\ UNCHANGED <<scope, range, dialog, walletId, stuck, error>>

Cancel ==
  /\ dialog # "none" /\ Idle
  /\ dialog' = "none" /\ walletId' = None
  /\ view' = [view EXCEPT !["selectable"] = <<>>]
  /\ read' = [read EXCEPT !["selectable"] = [k \in Slots |-> NoRead]]
  /\ UNCHANGED <<up, cookie, run, dbVars, call, writes, faults, scope, range, stuck, error>>

\* The buttons of a session depend on the status shown.
CloseClick(op, s) ==
  /\ page \in {"market", "session"} /\ dialog = "none"
  /\ s \in DOMAIN Rows
  /\ Rows[s].status \in (IF op = "soft" THEN {"active"} ELSE {"active", "soft"})
  /\ Idle
  /\ Send(Me, op, s, None, None)
  /\ error' = FALSE
  /\ UNCHANGED <<up, cookie, run, dbVars, read, faults>>
  /\ UNCHANGED <<scope, view, range, dialog, walletId, stuck>>

\* The new-session form asks which wallets can be chosen.
OpenForm ==
  /\ page = "market" /\ dialog = "none" /\ Idle
  /\ dialog' = "session"
  /\ IF Follows("selectable") THEN Fetch({"selectable"}, "poll") ELSE UNCHANGED read
  /\ UNCHANGED <<up, cookie, run, dbVars, call, writes, faults>>
  /\ UNCHANGED <<scope, view, range, walletId, stuck, error>>

ChooseWallet(w) ==
  /\ dialog = "session" /\ Shown("selectable") /\ w \in view["selectable"][1] /\ w # walletId
  /\ walletId' = w
  /\ UNCHANGED <<apiVars, scope, view, range, dialog, stuck, error>>

\* Submitting the form creates the session ...
Submit ==
  /\ dialog = "session" /\ Idle
  /\ \E s \in scope.sessions :
       /\ Request("create", s, walletId, "on")
       /\ Send(Me, "create", s, walletId, "on")
  /\ error' = FALSE
  /\ UNCHANGED <<up, cookie, run, dbVars, read, faults>>
  /\ UNCHANGED <<scope, view, range, dialog, walletId, stuck>>

\* ... or, with the other type selected, a backtest (where backtests are followed).
SubmitBacktest ==
  /\ dialog = "session" /\ Idle /\ Follows("run")
  /\ Request("backtest", None, None, None)
  /\ Send(Me, "backtest", None, None, None)
  /\ error' = FALSE
  /\ UNCHANGED <<up, cookie, run, dbVars, read, faults>>
  /\ UNCHANGED <<scope, view, range, dialog, walletId, stuck>>

WalletClick(op, w) ==
  /\ page = "wallets" /\ Idle
  /\ \/ op = "add"    /\ ~(Shown("wallets") /\ w \in DOMAIN view["wallets"][1])
     \/ op = "remove" /\ Shown("wallets") /\ w \in DOMAIN view["wallets"][1] /\ ~view["wallets"][1][w]
     \/ op = "clear"  /\ Shown("holds") /\ w \in view["holds"][1]
  /\ Send(Me, op, None, w, None)
  /\ UNCHANGED <<up, cookie, run, dbVars, read, faults, pageVars>>

\* The switch of the sidebar, towards the mode that is not shown.
ModeClick ==
  /\ Shown("mode") /\ Idle
  /\ Send(Me, "mode", None, None, IF view["mode"] = <<"live">> THEN "mock" ELSE "live")
  /\ UNCHANGED <<up, cookie, run, dbVars, read, faults, pageVars>>

-----------------------------------------------------------------------------
(* Its writes are answered.                                                *)

Refreshed == IF Follows("sessions") THEN {"sessions"} ELSE {}
Over      == call' = [call EXCEPT ![Me] = NoCall]

\* The catch of applyPatch leaves what was asked for on display.
PatchAnswered ==
  /\ call[Me].op = "patch"
  /\ view' = IF call[Me].code = "ok" THEN [view EXCEPT !["perp"] = <<call[Me].v \in {"on", "kept on"}>>]
             ELSE view
  /\ error' = (error \/ call[Me].code # "ok")
  /\ dialog' = "none"
  /\ IF dialog = "disable" THEN Fetch(Refreshed, "refresh") ELSE UNCHANGED read
  /\ Over
  /\ UNCHANGED <<walletId, stuck, writes>>

\* No handler but applyPatch catches a fetch that rejects: its button stays busy.
Thrown ==
  /\ call[Me].op # "patch" /\ call[Me].code = "down"
  /\ stuck' = (call[Me].op \in {"soft", "hard", "create", "backtest", "add", "mode"})
  /\ Over
  /\ UNCHANGED <<view, error, dialog, walletId, read, writes>>

\* Faulty variant: a refusal returns before the button is released.
CloseForgotten ==
  /\ call[Me].op \in {"soft", "hard"} /\ call[Me].code # "down"
  /\ error' = (call[Me].code = "refused")
  /\ stuck' = (call[Me].code = "refused")
  /\ Fetch(Refreshed, "refresh")
  /\ Over
  /\ UNCHANGED <<view, dialog, walletId, writes>>

CloseAnswered ==
  /\ call[Me].op \in {"soft", "hard"} /\ call[Me].code # "down"
  /\ error' = (call[Me].code = "refused")
  /\ Fetch(Refreshed, "refresh")
  /\ Over
  /\ UNCHANGED <<view, dialog, walletId, stuck, writes>>

\* ... and attaches the wallet to it, which the API has done; what comes of it
\* does not matter.
CreateAnswered ==
  /\ call[Me].op \in {"create", "attach"} /\ call[Me].code # "down"
  /\ IF call[Me].op = "create" /\ call[Me].code = "refused"
       THEN error' = TRUE /\ Over /\ UNCHANGED <<dialog, walletId, view, read>>
     ELSE IF call[Me].op = "create" /\ call[Me].w # None
       THEN /\ call' = [call EXCEPT ![Me] =
                 [NoCall EXCEPT !.op = "attach", !.at = "sent", !.s = call[Me].s, !.w = call[Me].w]]
            /\ UNCHANGED <<dialog, walletId, view, error, read>>
     ELSE /\ dialog' = "none" /\ walletId' = None
          /\ view' = [view EXCEPT !["selectable"] = <<>>]
          /\ Fetch(Refreshed, "refresh")
          /\ Over
          /\ UNCHANGED error
  /\ UNCHANGED <<stuck, writes>>

\* A backtest that was accepted is what the page turns to.
BacktestAnswered ==
  /\ call[Me].op = "backtest" /\ call[Me].code # "down"
  /\ error' = (call[Me].code = "refused")
  /\ IF call[Me].code = "refused" THEN UNCHANGED <<scope, dialog, walletId, view, read>>
     ELSE /\ scope' = [scope EXCEPT !.page = "backtest"]
          /\ dialog' = "none" /\ walletId' = None
          /\ view' = [r \in Resource |-> <<>>]
          /\ Opening("backtest")
  /\ Over
  /\ UNCHANGED <<stuck, writes>>

\* The list of wallets and that of holds follow the writes.
WalletAnswered ==
  /\ call[Me].op \in {"add", "remove", "clear"} /\ call[Me].code # "down"
  /\ error' = (error \/ call[Me].code = "refused")
  /\ LET w   == call[Me].w
         old == IF Shown("wallets") THEN view["wallets"][1] ELSE [x \in {} |-> FALSE]
         W   == IF call[Me].op = "add" THEN DOMAIN old \cup {w} ELSE DOMAIN old \ {w}
     IN  IF call[Me].code = "refused" THEN UNCHANGED <<view, read>>
         ELSE IF call[Me].op = "clear"
           THEN view' = [view EXCEPT !["holds"] = <<IF @ = <<>> THEN {} ELSE @[1] \ {w}>>] /\ UNCHANGED read
         ELSE /\ view' = [view EXCEPT
                   !["wallets"] = <<[x \in W |-> x \in DOMAIN old /\ old[x]]>>,
                   !["holds"] = IF Live(W) = {} THEN <<{}>> ELSE @]
              /\ read' = [read EXCEPT !["holds"] = HoldsOf(W)]
  /\ Over
  /\ UNCHANGED <<dialog, walletId, stuck, writes>>

ModeAnswered ==
  /\ call[Me].op = "mode" /\ call[Me].code # "down"
  /\ view' = IF call[Me].code = "ok" THEN [view EXCEPT !["mode"] = <<call[Me].v>>] ELSE view
  /\ Over
  /\ UNCHANGED <<error, dialog, walletId, stuck, read, writes>>

Answered ==
  /\ page # "none" /\ call[Me].at = "done"
  /\ \/ BacktestAnswered
     \/ /\ \/ PatchAnswered \/ Thrown \/ CloseAnswered
           \/ CreateAnswered \/ WalletAnswered \/ ModeAnswered
        /\ UNCHANGED scope
  /\ UNCHANGED <<up, cookie, run, dbVars, faults, range>>

-----------------------------------------------------------------------------
\* Another client's writes; only what its calls do matters. Where no page is
\* open the operator is one more of them.
Elsewhere(c) ==
  \/ /\ c # Me \/ page = "none"
     /\ MaySend(c)
     /\ \E op \in scope.others, s \in scope.sessions \cup {None}, w \in scope.wallets \cup {None},
           v \in {"on", "off", "keep", "mock", "live", None} :
          /\ op \in {"attach", "detach", "soft", "hard", "create"} => s # None
          /\ Request(op, s, w, v) /\ Send(c, op, s, w, v)
     /\ UNCHANGED <<up, cookie, run, dbVars, read, faults, pageVars>>
  \/ /\ c # Me \/ page = "none"
     /\ call[c].at = "done"
     /\ call' = [call EXCEPT ![c] = NoCall]
     /\ UNCHANGED <<up, cookie, run, dbVars, read, writes, faults, pageVars>>

ApiActs == ApiStep /\ UNCHANGED pageVars

Operator ==
  \/ SamplingClick \/ Confirm \/ Cancel \/ OpenForm \/ Submit \/ SubmitBacktest \/ ModeClick
  \/ \E w \in Wallet : ChooseWallet(w)
  \/ \E op \in {"soft", "hard"}, s \in Session : CloseClick(op, s)
  \/ \E op \in {"add", "remove", "clear"}, w \in scope.wallets : WalletClick(op, w)
  \/ \E x \in ChartRange : ChangeRange(x)

Arrive(r) == \E k \in Slots : Deliver(r, k) \/ DeliverFailure(r, k)

ConsoleNext ==
  \/ ApiActs
  \/ Operator \/ Answered
  \/ \E r \in Resource : Poll(r) \/ Arrive(r)
  \/ \E c \in Client : Elsewhere(c)

\* Intervals fire; what a polling page asks for is served or its failure noticed,
\* a write is handled, and the answer of either too.
ConsoleFairness ==
  /\ \A r \in Repeated :
       /\ WF_consoleVars(Poll(r))
       /\ \A k \in 1..Overlap :
            /\ WF_consoleVars(k \in Slots /\ (Serve(r, k) \/ (~up /\ LoseRead(r, k))) /\ UNCHANGED pageVars)
            /\ WF_consoleVars(k \in Slots /\ (Deliver(r, k) \/ DeliverFailure(r, k)))
  /\ \A c \in Client : WF_consoleVars((Handle(c) \/ (~up /\ LoseCall(c))) /\ UNCHANGED pageVars)
  /\ WF_consoleVars(Answered)

ConsoleSpec == ConsoleInit /\ [][ConsoleNext]_consoleVars /\ ConsoleFairness

-----------------------------------------------------------------------------
ConsoleTypeOK ==
  /\ ApiTypeOK
  /\ \E x \in Scope : scope = [x EXCEPT !.page = page]
  /\ page \in DOMAIN Pages /\ range \in ChartRange /\ dialog \in Dialogs
  /\ walletId \in Wallet \cup {None}
  /\ \A r \in Resource : Shown(r) => Len(view[r]) = 1
  /\ Shown("sessions") => DOMAIN Rows \subseteq Session
  /\ stuck \in BOOLEAN /\ error \in BOOLEAN

\* A page that polls ends up showing what there is, in the range selected,
\* whatever was overtaken, lost or failed on the way, unless the server is gone,
\* the operator signed out or never stops changing the range.
ScreenSettles ==
  <>[][range' = range]_range =>
    \A r \in Repeated :
      <>[](up /\ cookie /\ r \in Polled => view[r] = <<Snapshot(r, range)>>)

\* A button that was pressed can be pressed again, as long as the API lives and
\* nothing is lost: every path through every handler answers.
ButtonComesBack ==
  call[Me] # NoCall ~> Idle \/ ~up \/ faults < scope.faults \/ page = "none"
=============================================================================
