----------------------------- MODULE MCConsole ------------------------------
(***************************************************************************)
(* What an operator has on the screen, for TLC: the console and the API,   *)
(* and what its pages embed or call: the decision log's panel, the price   *)
(* chart, the cached listings of Hyperliquid and the Overview page's       *)
(* derivations. These share no state with the rest, so each is looked at   *)
(* on its own: a scope names what is looked at and its bounds.             *)
(***************************************************************************)
EXTENDS Console, DecisionHistory, HyperliquidCache, Overview, PriceVolumeChart

KindDef == [w \in Wallet |-> "live"]

Look(p, reads, others, n, f, o) ==
  [also |-> "nothing", page |-> p, reads |-> reads, others |-> others, sessions |-> {"s1"}, wallets |-> {"w1"},
   writes |-> n, faults |-> f, overlap |-> o]
Apart(what) ==
  [also |-> what, page |-> "none", reads |-> {}, others |-> {}, sessions |-> {}, wallets |-> {},
   writes |-> 0, faults |-> 0, overlap |-> 1]

Crud == {"create", "attach", "remove"}

ScopeDef ==
  { Look("market", {"perp", "sessions"}, {"patch"}, 1, 0, 1),
    Look("market", {"sessions", "selectable"}, {"attach"}, 2, 0, 1),
    [Look("market", {"selectable"}, {}, 1, 0, 1) EXCEPT !.wallets = Wallet],
    Look("market", {"perp"}, {"patch"}, 1, 1, 1),
    Look("session", {"samples"}, {}, 0, 1, 2),
    Look("session", {"sessions"}, {"soft"}, 1, 0, 2),
    Look("markets", {"perp", "sessions"}, {"patch", "create"}, 1, 1, 1),
    Look("wallets", {"wallets", "holds"}, {"create", "add", "remove", "clear"}, 2, 0, 1),
    Look("wallets", {"wallets"}, {}, 0, 1, 1),
    Look("wallets", {"mode"}, {"mode"}, 2, 0, 2),
    Look("positions", {"samples"}, {}, 0, 1, 2),
    [Look("market", {"run", "trades"}, {}, 1, 0, 1) EXCEPT !.sessions = {}, !.wallets = {}],
    [Look("backtest", {"run", "position"}, {}, 0, 1, 1) EXCEPT !.sessions = {}, !.wallets = {}],
    [Look("none", {}, Crud, 3, 0, 1) EXCEPT !.sessions = Session],
    Look("none", {}, Ops, 1, 1, 1) }
  \cup {Apart(what) : what \in Listings \cup {"log", "rolling log", "overview", "price chart"}}

\* The page of the wallets, nothing failing and nobody else at work.
WalletsOnly == {Look("wallets", {"wallets"}, {}, 1, 0, 1)}

\* A third of the decisions failed.
MatchesDef == [f \in Filter |-> IF f = "all" THEN 1..MaxRows ELSE {r \in 1..MaxRows : r % 3 # 0}]

SymbolOfDef == [s \in Account |-> IF s = "a1" THEN 1 ELSE 2]
LeverageDef == [s \in Account |-> IF s = "a1" THEN 2 ELSE 1]

PeriodDef == [p \in {"1d", "all"} |-> IF p = "1d" THEN 1 ELSE 0]
OpenedAtDef == {[dir |-> "short", opened |-> 4]}
ClosedTradeDef == {[dir |-> "long", opened |-> 0, closed |-> 3]}

ScreenInit ==
  /\ ConsoleInit /\ CacheInit /\ HistoryInit /\ OverviewInit /\ ChartInit
  /\ Follows("samples") \/ range = "1d"
  /\ scope.also = "overview" \/ part = "book"

\* The log is looked at with many requests, two at a time and none failing, or
\* with few of them and a rolling range.
UnderWay == {i \in 1..MaxLoads : loads[i].at = "open"}

ScreenNext ==
  \/ /\ scope.also = "nothing" /\ ConsoleNext
     /\ UNCHANGED <<cacheVars, historyVars, overviewVars, chartVars>>
  \/ /\ \E l \in Listings \cap {scope.also} : CacheStep(l)
     /\ UNCHANGED <<consoleVars, historyVars, overviewVars, chartVars>>
  \/ /\ scope.also \in {"log", "rolling log"} /\ HistoryNext
     /\ IF scope.also = "log" THEN UNCHANGED <<oldest, failed>> /\ Cardinality(UnderWay') <= 2
        ELSE requestId' < MaxLoads
     /\ UNCHANGED <<consoleVars, cacheVars, overviewVars, chartVars>>
  \/ /\ scope.also = "overview" /\ OverviewNext
     /\ UNCHANGED <<consoleVars, cacheVars, historyVars, chartVars>>
  \/ /\ scope.also = "price chart" /\ ChartNext
     /\ UNCHANGED <<consoleVars, cacheVars, historyVars, overviewVars>>

screenVars == <<consoleVars, cacheVars, historyVars, overviewVars, chartVars>>

ScreenSpec == ScreenInit /\ [][ScreenNext]_screenVars /\ ConsoleFairness /\ CacheFairness

\* The variables of the four parts have their types.
ScreenTypeOK == ConsoleTypeOK /\ CacheTypeOK /\ HistoryTypeOK
=============================================================================
