------------------------------ MODULE Overview ------------------------------
(***************************************************************************)
(* The Overview page (frontend/src/app/dashboard/page.tsx) and the         *)
(* derivations behind it (lib/overview.ts): what its tiles, tables and     *)
(* charts make of the lists the API returns.                               *)
(*                                                                         *)
(* Nine requests fill the lists, each at its own moment and each replaced  *)
(* by an empty list when it fails, so the lists need not fit together: a   *)
(* position may be of a session that is not listed, of a market that has   *)
(* no price. Here they grow and vanish independently. Money is in units in *)
(* which every profit is whole, time in quarters of an hour, a symbol is   *)
(* its place in the alphabet. Shares, rates, labels and the order in which *)
(* the rows of a table stand are left out.                                 *)
(***************************************************************************)
EXTENDS Integers, Sequences, FiniteSetsExt, Functions

CONSTANTS
  Part,       \* the lists looked at together: "book", "flow" or "chart"
  Account,    \* trading sessions
  SymbolOf,   \* each session's market
  Leverage,   \* and leverage
  Price,
  Notional,   \* of a position: a multiple of every price
  Moment,     \* times of decisions and payments
  MaxLog,     \* bound: decisions and payments
  Instant,    \* times of price samples
  MaxSamples, \* bound: samples of one market
  Buckets,    \* points of the performance chart
  Cap,        \* markets with a colour of their own
  FeedLimit   \* events in the activity feed

Symbols == Range(SymbolOf)

ASSUME OverviewAssumption ==
  /\ SymbolOf \in [Account -> Nat] /\ Leverage \in [Account -> Nat \ {0}]
  /\ Notional \in Nat /\ Price \subseteq Nat \ {0} /\ \A p \in Price : Notional % p = 0
  /\ Moment \subseteq Nat /\ Instant \subseteq Nat
  /\ Buckets \in Nat \ {0} /\ Cap \in Nat /\ FeedLimit \in Nat

VARIABLES
  part,      \* which lists
  listed,    \* the sessions that are listed
  positions, \* the open position of those that have one
  marks,     \* the price of the markets that have one
  log,       \* decisions
  paid,      \* times of the funding payments
  samples    \* each charted market's price history

overviewVars == <<part, listed, positions, marks, log, paid, samples>>

Empty == [x \in {} |-> 0]
Null  == <<>>  \* of a value that may be null; the others are <<v>>

-----------------------------------------------------------------------------
(* The portfolio, the positions and the sessions.                          *)

UnrealizedPnl(p, mark) ==
  ((Notional * (mark - p.entry)) \div p.entry) * (IF p.dir = "long" THEN 1 ELSE -1)

Sized(S) == Notional * Cardinality(S)
Going(d) == {s \in DOMAIN positions : positions[s].dir = d}
Priced   == {s \in DOMAIN positions : SymbolOf[s] \in DOMAIN marks}
Pnl      == [s \in Priced |-> UnrealizedPnl(positions[s], marks[SymbolOf[s]])]

\* A position of a session that is not listed counts with leverage 1.
Margin(s) == Notional \div (IF s \in listed THEN Leverage[s] ELSE 1)

SummarisePortfolio ==
  [unrealized |-> SumFunction(Pnl),
   deployed   |-> SumFunction([s \in DOMAIN positions |-> Margin(s)]),
   long       |-> Sized(Going("long")),
   short      |-> Sized(Going("short"))]

BuildPositionRows ==
  [s \in DOMAIN positions |->
     [pnl    |-> IF s \in Priced THEN <<Pnl[s]>> ELSE Null,
      margin |-> IF s \in listed THEN <<Margin(s)>> ELSE Null]]

BuildSessionRows ==
  [s \in listed |-> [pnl |-> IF s \in Priced THEN <<Pnl[s]>> ELSE Null]]

-----------------------------------------------------------------------------
(* The decision and order charts.                                          *)

Hour == 4
Day  == 96

\* Faulty variant: the last bucket starts with the newest, on no boundary.
UnalignedGranularity(times) ==
  LET span == Max(times) - Min(times)
      g    == IF span <= 6 * Hour THEN [bucket |-> 1, count |-> 24]
              ELSE IF span <= 2 * Day THEN [bucket |-> Hour, count |-> 24]
              ELSE [bucket |-> Day, count |-> 14]
  IN  [bucket |-> g.bucket, starts |-> {Max(times) - i * g.bucket : i \in 0..(g.count - 1)}]

\* Buckets sized by the span of the data, ending with the newest; {} starts
\* when there is none.
ChooseGranularity(times) ==
  LET span == Max(times) - Min(times)
      g    == IF span <= 6 * Hour THEN [bucket |-> 1, count |-> 24]
              ELSE IF span <= 2 * Day THEN [bucket |-> Hour, count |-> 24]
              ELSE [bucket |-> Day, count |-> 14]
      last == (Max(times) \div g.bucket) * g.bucket
  IN  [bucket |-> g.bucket, starts |-> {last - i * g.bucket : i \in 0..(g.count - 1)}]

\* How many of the items fall into each bucket, by their keys in key; those
\* without a key and those before the first bucket are left out.
BucketCounts(items, key, keys, g) ==
  LET start(d) == (d.t \div g.bucket) * g.bucket
  IN  [p \in g.starts \X keys |->
         Cardinality({i \in DOMAIN items : <<start(items[i]), key[i]>> = p})]

Times(items) == {items[i].t : i \in DOMAIN items}
Ordered(d)   == d.act \in {<<"opened">>, <<"closed">>, <<"closed_and_opened">>}
Orders       == Restrict(log, {i \in DOMAIN log : Ordered(log[i])})

\* The busiest symbols, and whether there are others.
TopSymbols(counts, limit) ==
  LET busier(y) == {x \in DOMAIN counts :
                      counts[x] > counts[y] \/ (counts[x] = counts[y] /\ x < y)}
      symbols   == {y \in DOMAIN counts : Cardinality(busier(y)) < limit}
  IN  [symbols |-> symbols, hasOther |-> Cardinality(DOMAIN counts) > Cardinality(symbols)]

Other == <<0>>

OrderCounts == [y \in {Orders[i].sym : i \in DOMAIN Orders} |->
                  Cardinality({i \in DOMAIN Orders : Orders[i].sym = y})]
OrderSeries == TopSymbols(OrderCounts, Cap)
SeriesKeys  == {<<y>> : y \in OrderSeries.symbols} \cup (IF OrderSeries.hasOther THEN {Other} ELSE {})
OrderKey(y) == IF y \in OrderSeries.symbols THEN <<y>> ELSE Other

-----------------------------------------------------------------------------
(* The performance chart and the activity feed.                            *)

Charted  == {y \in DOMAIN samples : Len(samples[y]) > 1}
AllTimes == UNION {Times(samples[y]) : y \in Charted}
First    == Min(AllTimes)
Span     == Max(AllTimes) - First

\* The time of the i-th row, rounded.
RowTime(i) == First + (2 * i * Span + Buckets) \div (2 * Buckets)

\* One pass over the rows with a cursor into the market's samples, which carries
\* the last price seen; a row's value is that price against the first one.
Walk(sorted) ==
  LET walk[i \in 0..Buckets] ==
        LET from  == IF i = 0 THEN 1 ELSE walk[i - 1].cursor
            ahead == {c \in from..Len(sorted) : sorted[c].t > RowTime(i)}
            next  == IF ahead = {} THEN Len(sorted) + 1 ELSE Min(ahead)
        IN  [cursor |-> next,
             last   |-> IF next > from THEN <<sorted[next - 1].price>>
                        ELSE IF i = 0 THEN Null ELSE walk[i - 1].last]
  IN  walk

BuildPerformanceSeries(y) == [i \in 0..Buckets |-> Walk(samples[y])[i].last]

Events ==
  {[kind |-> "decision", place |-> i, t |-> log[i].t] : i \in DOMAIN log}
  \cup {[kind |-> "funding", place |-> Len(log) + i, t |-> paid[i]] : i \in DOMAIN paid}

\* Those that are listed before an event: newer ones, and of the same time those
\* that came first in the two lists.
Above(e) == {d \in Events : d.t > e.t \/ (d.t = e.t /\ d.place < e.place)}

\* Decisions and payments, the newest ones, as many as fit.
BuildActivityFeed == {e \in Events : Cardinality(Above(e)) < FeedLimit}

-----------------------------------------------------------------------------
(* What arrives.                                                           *)

OverviewInit ==
  /\ part \in Part
  /\ listed = {} /\ positions = Empty /\ marks = Empty
  /\ log = <<>> /\ paid = <<>>
  /\ samples = [y \in Symbols |-> <<>>]

With(f, x, v) == [y \in DOMAIN f \cup {x} |-> IF y = x THEN v ELSE f[y]]

\* A list that failed, or a row of it.
List ==
  /\ part = "book"
  /\ \/ listed' = {}
     \/ \E s \in Account : listed' = listed \cup {s}
  /\ UNCHANGED <<part, positions, marks, log, paid, samples>>

Hold ==
  /\ part = "book"
  /\ \/ positions' = Empty
     \/ \E s \in Account, d \in {"long", "short"}, p \in Price :
          positions' = With(positions, s, [dir |-> d, entry |-> p])
  /\ UNCHANGED <<part, listed, marks, log, paid, samples>>

Mark ==
  /\ part = "book"
  /\ \/ marks' = Empty
     \/ \E y \in Symbols, p \in Price : marks' = With(marks, y, p)
  /\ UNCHANGED <<part, listed, positions, log, paid, samples>>

\* A failed cycle has neither direction nor action.
Decide ==
  /\ part = "flow" /\ Len(log) + Len(paid) < MaxLog
  /\ \E t \in Moment, y \in Symbols, o \in {[dir |-> Null, act |-> Null], [dir |-> <<"long">>, act |-> <<"opened">>],
                                     [dir |-> <<"flat">>, act |-> <<"no_op">>]} :
       log' = Append(log, [t |-> t, sym |-> y, dir |-> o.dir, act |-> o.act])
  /\ UNCHANGED <<part, listed, positions, marks, paid, samples>>

Pay ==
  /\ part = "flow" /\ Len(log) + Len(paid) < MaxLog
  /\ \E t \in Moment : paid' = Append(paid, t)
  /\ UNCHANGED <<part, listed, positions, marks, log, samples>>

\* The API returns a market's samples in time order.
Sample ==
  /\ part = "chart"
  /\ \E y \in Symbols, t \in Instant, p \in Price :
       /\ Len(samples[y]) < MaxSamples
       /\ \A i \in DOMAIN samples[y] : samples[y][i].t <= t
       /\ samples' = [samples EXCEPT ![y] = Append(@, [t |-> t, price |-> p])]
  /\ UNCHANGED <<part, listed, positions, marks, log, paid>>

OverviewNext == List \/ Hold \/ Mark \/ Decide \/ Pay \/ Sample

OverviewSpec == OverviewInit /\ [][OverviewNext]_overviewVars

-----------------------------------------------------------------------------
Value(v) == IF v = Null THEN 0 ELSE v[1]

\* The portfolio tile, the table of the positions and that of the sessions are
\* of one book, whichever list is missing: the profit is the same but for the
\* positions whose session is not listed, and so is the margin.
TilesAgree ==
  LET rows    == BuildPositionRows
      inTable == SumFunction([s \in DOMAIN rows |-> Value(rows[s].pnl)])
      orphans == Priced \ listed
      bySession == BuildSessionRows
  IN  /\ SummarisePortfolio.unrealized = inTable
      /\ inTable = SumFunction([s \in listed |-> Value(bySession[s].pnl)])
                   + SumFunction(Restrict(Pnl, orphans))
      /\ SummarisePortfolio.deployed =
           SumFunction([s \in DOMAIN rows |-> IF rows[s].margin = Null THEN Notional
                                             ELSE rows[s].margin[1]])
      /\ SummarisePortfolio.long + SummarisePortfolio.short = Sized(DOMAIN positions)

\* The charts count every decision once that is no older than their first
\* bucket, the newest in the last one, and drop none as long as the data span
\* less than the buckets do; what is counted has a series to be seen in.
ChartComplete(items, key, keys) ==
  DOMAIN items # {} =>
    LET g      == ChooseGranularity(Times(items))
        counts == BucketCounts(items, key, keys, g)
        keyed  == {i \in DOMAIN items : key[i] # Null}
        age(i) == Max(Times(items)) - items[i].t
        window == Max(g.starts) - Min(g.starts)
    IN  /\ SumFunction(counts) = Cardinality({i \in keyed : items[i].t >= Min(g.starts)})
        /\ \A i \in keyed : age(i) <= window => items[i].t >= Min(g.starts)
        /\ Max(g.starts) <= Max(Times(items)) /\ Max(Times(items)) < Max(g.starts) + g.bucket

FlowComplete ==
  /\ ChartComplete(log, [i \in DOMAIN log |-> log[i].dir], {<<"long">>, <<"flat">>, <<"short">>})
  /\ ChartComplete(Orders, [i \in DOMAIN Orders |-> OrderKey(Orders[i].sym)], SeriesKeys)

\* Each point of the performance chart is the last price known at its time, and
\* the last point the newest.
PriceCarried ==
  Span > 0 =>
    \A y \in Charted :
      LET points == BuildPerformanceSeries(y)
          h      == samples[y]
      IN  /\ \A i \in DOMAIN points :
               LET known == {c \in DOMAIN h : h[c].t <= RowTime(i)}
               IN  points[i] = IF known = {} THEN Null ELSE <<h[Max(known)].price>>
          /\ points[Buckets] = <<h[Len(h)].price>>

\* Nothing is left out of a feed that is not full, nor is anything that is newer
\* than something in it.
FeedNewest ==
  LET feed == BuildActivityFeed
  IN  /\ Cardinality(feed) <= FeedLimit
      /\ \A e \in Events \ feed :
           Cardinality(feed) = FeedLimit /\ \A d \in feed : d.t >= e.t

OverviewAgrees ==
  /\ part = "book" => TilesAgree
  /\ part = "flow" => FlowComplete /\ FeedNewest
  /\ part = "chart" /\ Charted # {} => PriceCarried
=============================================================================
