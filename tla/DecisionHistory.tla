-------------------------- MODULE DecisionHistory ---------------------------
(***************************************************************************)
(* The decision log of a market or a session: the panel that pages,        *)
(* filters and sorts it (frontend/src/components/DecisionHistoryPanel.tsx) *)
(* and the API's query behind it (api/src/decisions).                      *)
(*                                                                         *)
(* The panel asks again every ten seconds and on every change of what is   *)
(* selected, without waiting for the answers still under way; each answer  *)
(* is a page of the rows and a count, read by two queries at two moments,  *)
(* while the engine appends decisions and the chart's rolling range leaves *)
(* old ones behind. A decision is its number in the log; what the filters  *)
(* tell apart is Matches. Sorting by confidence is not modelled.           *)
(***************************************************************************)
EXTENDS Integers, FiniteSets

CONSTANTS
  FirstRows, \* decisions recorded when the panel opens
  MaxRows,   \* bound: decisions ever recorded
  MaxLoads,  \* bound: requests ever sent
  MaxSlides, \* bound: decisions that leave the rolling range
  Sizes,     \* page sizes on offer
  Filter,    \* what may be selected: session, direction, action, status, confidence, chart selection
  Matches    \* the decisions each filter lets through

ASSUME HistoryAssumption ==
  /\ MaxRows \in Nat /\ FirstRows \in 0..MaxRows /\ MaxLoads \in Nat \ {0} /\ MaxSlides \in Nat
  /\ Sizes \subseteq Nat \ {0} /\ Sizes # {}
  /\ Filter # {}
  /\ Matches \in [Filter -> SUBSET (1..MaxRows)]

VARIABLES
  newest,     \* decisions recorded so far
  oldest,     \* the first one the rolling range still holds
  query,      \* filters, order, pageSize and page
  requestId,  \* the requestId ref: requests sent so far
  loads,      \* the requests, by number
  shown,      \* decisions and total, and the query they answer
  failed,     \* the error flag
  asOf,       \* auxiliary: newest when the latest rows shown were read
  seen,       \* auxiliary: rows shown since the reader left the first page
  start       \* auxiliary: asOf when the first page was left

logVars     == <<newest, oldest>>
askVars     == <<query, requestId, loads>>
walkVars    == <<seen, start>>
historyVars == <<logVars, askVars, shown, failed, asOf, walkVars>>

SortOrders == {"desc", "asc"}
Query  == [filter : Filter, order : SortOrders, size : Sizes, page : Nat]

-----------------------------------------------------------------------------
(* The API's query: buildWhere, the page in the order asked for, the count. *)

Selected(q) == {r \in Matches[q.filter] : oldest <= r /\ r <= newest}

\* How many of the rows selected are listed before r. (ORDER BY)
Rank(q, r) ==
  Cardinality({x \in Selected(q) : IF q.order = "asc" THEN x < r ELSE x > r})

\* The rows from one offset up to another; they are listed in the query's order. (OFFSET, LIMIT)
Slice(q, from, to) == {r \in Selected(q) : from <= Rank(q, r) /\ Rank(q, r) < to}

\* Faulty variant: the offset is one row too far on later pages.
PageShifted(q) == Slice(q, q.page * (q.size + 1), q.page * (q.size + 1) + q.size)

Page(q) == Slice(q, q.page * q.size, (q.page + 1) * q.size)

-----------------------------------------------------------------------------
NoLoad == [at |-> "none", q |-> [filter |-> "none"], rows |-> {}, total |-> -1, asOf |-> -1]
Load(q)  == [at |-> "open", q |-> q, rows |-> {}, total |-> -1, asOf |-> -1]
Loading  == [at |-> "loading", q |-> [filter |-> "none"], rows |-> {}, total |-> 0]

\* Any change of the query empties the table and asks; the requests are numbered.
Ask(q) ==
  /\ requestId < MaxLoads
  /\ query' = q
  /\ requestId' = requestId + 1
  /\ loads' = [loads EXCEPT ![requestId + 1] = Load(q)]
  /\ shown' = Loading

\* The selection changes on a later page: the effect that asks runs once with
\* the old page before the one that resets the page has its way.
AskTwice(q) ==
  /\ requestId + 1 < MaxLoads
  /\ query' = [q EXCEPT !.page = 0]
  /\ requestId' = requestId + 2
  /\ loads' = [loads EXCEPT ![requestId + 1] = Load(q),
                              ![requestId + 2] = Load([q EXCEPT !.page = 0])]
  /\ shown' = Loading

\* A filter, the order or the page size.
ChangeQuery(q) ==
  /\ q.page = query.page /\ q # query
  /\ IF query.page = 0 THEN Ask(q) ELSE AskTwice(q)
  /\ seen' = {} /\ start' = 0
  /\ UNCHANGED <<logVars, failed, asOf>>

PageCount == IF shown.total = 0 THEN 1 ELSE (shown.total + query.size - 1) \div query.size

\* The page buttons are there while a table is, and the log is not empty.
NextPage ==
  /\ shown.at = "table" /\ shown.total > 0
  /\ query.page + 1 < PageCount
  /\ Ask([query EXCEPT !.page = @ + 1])
  /\ seen' = seen \cup shown.rows
  /\ start' = IF query.page = 0 THEN asOf ELSE start
  /\ UNCHANGED <<logVars, failed, asOf>>

PreviousPage ==
  /\ shown.at = "table" /\ shown.total > 0
  /\ query.page > 0
  /\ Ask([query EXCEPT !.page = @ - 1])
  /\ seen' = {} /\ start' = 0
  /\ UNCHANGED <<logVars, failed, asOf>>

PollLog ==
  /\ requestId < MaxLoads
  /\ requestId' = requestId + 1
  /\ loads' = [loads EXCEPT ![requestId + 1] = Load(query)]
  /\ UNCHANGED <<logVars, query, shown, failed, asOf, walkVars>>

\* The two queries of one request, in either order.
ReadRows(i) ==
  /\ loads[i].at = "open" /\ loads[i].asOf = -1
  /\ loads' = [loads EXCEPT ![i].rows = Page(loads[i].q), ![i].asOf = newest]
  /\ UNCHANGED <<logVars, query, requestId, shown, failed, asOf, walkVars>>

Count(i) ==
  /\ loads[i].at = "open" /\ loads[i].total = -1
  /\ loads' = [loads EXCEPT ![i].total = Cardinality(Selected(loads[i].q))]
  /\ UNCHANGED <<logVars, query, requestId, shown, failed, asOf, walkVars>>

BothRead(i) == loads[i].at = "open" /\ loads[i].asOf # -1 /\ loads[i].total # -1

\* Faulty variant: whatever arrives is shown.
ShowAny(i) ==
  /\ BothRead(i)
  /\ loads' = [loads EXCEPT ![i] = NoLoad]
  /\ shown' = [at |-> "table", q |-> loads[i].q, rows |-> loads[i].rows, total |-> loads[i].total]
  /\ asOf' = loads[i].asOf
  /\ failed' = FALSE
  /\ UNCHANGED <<logVars, query, requestId, walkVars>>

\* An answer that is not the last request's is dropped.
ShowAnswer(i) ==
  /\ BothRead(i)
  /\ loads' = [loads EXCEPT ![i] = NoLoad]
  /\ IF i = requestId
       THEN /\ shown' = [at |-> "table", q |-> loads[i].q, rows |-> loads[i].rows,
                         total |-> loads[i].total]
            /\ asOf' = loads[i].asOf
            /\ failed' = FALSE
       ELSE UNCHANGED <<shown, asOf, failed>>
  /\ UNCHANGED <<logVars, query, requestId, walkVars>>

\* The request failed or its answer was lost: the rows there are stay, or none are shown.
ShowFailure(i) ==
  /\ loads[i].at = "open"
  /\ loads' = [loads EXCEPT ![i] = NoLoad]
  /\ IF i = requestId
       THEN /\ shown' = IF shown.at = "table" THEN shown
                        ELSE [shown EXCEPT !.at = "table", !.q = loads[i].q]
            /\ failed' = TRUE
       ELSE UNCHANGED <<shown, failed>>
  /\ UNCHANGED <<logVars, query, requestId, asOf, walkVars>>

-----------------------------------------------------------------------------
(* The engine and the clock.                                               *)

Record ==
  /\ newest < MaxRows
  /\ newest' = newest + 1
  /\ UNCHANGED <<oldest, askVars, shown, failed, asOf, walkVars>>

Slide ==
  /\ oldest <= newest /\ oldest <= MaxSlides
  /\ oldest' = oldest + 1
  /\ UNCHANGED <<newest, askVars, shown, failed, asOf, walkVars>>

\* The panel opens on the newest decisions and asks.
HistoryInit ==
  /\ newest = FirstRows
  /\ oldest = 1
  /\ query \in [filter : Filter, order : {"desc"}, size : Sizes, page : {0}]
  /\ requestId = 1
  /\ loads = [i \in 1..MaxLoads |-> IF i = 1 THEN Load(query) ELSE NoLoad]
  /\ shown = Loading
  /\ failed = FALSE
  /\ asOf = 0
  /\ seen = {} /\ start = 0

LoadStep(i) == ReadRows(i) \/ Count(i) \/ ShowAnswer(i) \/ ShowFailure(i)

HistoryNext ==
  \/ \E f \in Filter, o \in SortOrders, n \in Sizes :
       ChangeQuery([filter |-> f, order |-> o, size |-> n, page |-> query.page])
  \/ NextPage \/ PreviousPage \/ PollLog
  \/ \E i \in 1..MaxLoads : LoadStep(i)
  \/ Record \/ Slide

HistorySpec == HistoryInit /\ [][HistoryNext]_historyVars

-----------------------------------------------------------------------------
(* What the reader can rely on.                                            *)

HistoryTypeOK ==
  /\ newest \in 0..MaxRows
  /\ oldest \in 1..(MaxRows + 1)
  /\ query \in Query
  /\ requestId \in 1..MaxLoads
  /\ failed \in BOOLEAN
  /\ asOf \in 0..newest
  /\ \A i \in 1..MaxLoads :
       /\ loads[i].at \in {"none", "open"}
       /\ loads[i].asOf \in -1..newest
       /\ loads[i].total \in -1..MaxRows
  /\ shown.at \in {"loading", "table"}
  /\ shown.total \in 0..MaxRows
  /\ seen \subseteq 1..MaxRows
  /\ start \in 0..newest

LA == INSTANCE LatestAnswer WITH
  Question <- Query, Loading <- Loading.q, clock <- newest, question <- query, shown <- shown.q

\* The table answers the filters, order and page selected now, whichever
\* answers overtook each other, and never goes back to older rows.
ShowsLatest == LA!Spec

\* A reader who pages down the log, newest first, misses no decision that was
\* there when he left the first page, although rows keep arriving and the
\* pages shift under him.
NoRowSkipped ==
  query.order = "desc" /\ shown.at = "table" =>
    \A r \in Matches[query.filter] :
      (\E x \in shown.rows : x <= r) /\ r <= start => r \in seen \cup shown.rows
=============================================================================
