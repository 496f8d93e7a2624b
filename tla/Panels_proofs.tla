--------------------------- MODULE Panels_proofs ----------------------------
(***************************************************************************)
(* What the console's pages embed and call: the panel of the decision log  *)
(* (DecisionHistory) and the cached listings of Hyperliquid                *)
(* (HyperliquidCache), which share no state.                               *)
(*                                                                         *)
(* For any log, filters, page sizes and number of requests, the table      *)
(* shows the latest answer to what is selected, and a reader who pages     *)
(* down the log misses nothing. For any callers and DEXes, each cached     *)
(* listing implements LastGood: a step of the cache is a step of LastGood  *)
(* for one listing and a stutter for the other.                            *)
(***************************************************************************)
EXTENDS DecisionHistory, HyperliquidCache, FiniteSetTheorems, TLAPS

LoadShaped(f) ==
  f = [at |-> f.at, q |-> f.q, rows |-> f.rows, total |-> f.total, asOf |-> f.asOf]

\* The last request is about the current query, and its rows, once read, are no
\* older than the rows on display: an answer is only shown while no later
\* request was sent, so the next one is read after it.
HistoryInv ==
  /\ newest \in Nat /\ asOf \in Nat /\ asOf <= newest
  /\ query \in Query
  /\ requestId \in 1..MaxLoads
  /\ loads = [i \in 1..MaxLoads |-> loads[i]]
  /\ \A i \in 1..MaxLoads :
       /\ LoadShaped(loads[i])
       /\ loads[i].asOf \in Int /\ loads[i].asOf <= newest
       /\ loads[i].at = "open" => i <= requestId
  /\ loads[requestId].at = "open" =>
       /\ loads[requestId].q = query
       /\ loads[requestId].asOf # -1 => asOf <= loads[requestId].asOf
  /\ shown.at = "table" => shown.q = query
  /\ shown.at # "table" => shown = Loading

LEMMA LoadShape ==
  ASSUME NEW q
  PROVE  /\ LoadShaped(Load(q)) /\ Load(q).asOf = -1 /\ Load(q).q = q
         /\ Load(q).at = "open"
  BY DEF LoadShaped, Load

LEMMA InitHistory == HistoryInit => HistoryInv
<1> SUFFICES ASSUME HistoryInit PROVE HistoryInv
  OBVIOUS
<1>1. query \in Query
  BY DEF HistoryInit, Query, SortOrders
<1>2. LoadShaped(NoLoad) /\ NoLoad.at = "none" /\ NoLoad.asOf = -1
  BY DEF LoadShaped, NoLoad
<1>3. requestId = 1 /\ requestId \in 1..MaxLoads /\ newest \in Nat
  BY HistoryAssumption DEF HistoryInit
<1>4. ASSUME NEW i \in 1..MaxLoads
      PROVE  /\ LoadShaped(loads[i]) /\ loads[i].asOf = -1
             /\ loads[i].at = "open" => i = 1 /\ loads[i].q = query
  BY <1>2, LoadShape DEF HistoryInit
<1>5. loads = [i \in 1..MaxLoads |-> loads[i]]
  BY DEF HistoryInit
<1>6. shown = Loading /\ Loading.at = "loading" /\ asOf = 0
  BY DEF HistoryInit, Loading
<1> QED
  BY <1>1, <1>3, <1>4, <1>5, <1>6 DEF HistoryInv

\* A request sent for query q, whatever becomes of the table.
LEMMA LoadInv ==
  ASSUME HistoryInv, NEW q \in Query,
         requestId < MaxLoads, requestId' = requestId + 1, query' = q,
         loads' = [loads EXCEPT ![requestId + 1] = Load(q)],
         shown' = Loading \/ (q = query /\ shown' = shown),
         UNCHANGED <<newest, asOf>>
  PROVE  HistoryInv'
<1>1. requestId' \in 1..MaxLoads
  BY HistoryAssumption DEF HistoryInv
<1>2. /\ loads' = [i \in 1..MaxLoads |-> loads'[i]]
      /\ loads'[requestId'] = Load(q)
      /\ \A i \in 1..MaxLoads \ {requestId'} : loads'[i] = loads[i]
  BY <1>1 DEF HistoryInv
<1>3. ASSUME NEW i \in 1..MaxLoads
      PROVE  /\ LoadShaped(loads'[i]) /\ loads'[i].asOf \in Int /\ loads'[i].asOf <= newest
             /\ loads'[i].at = "open" => i <= requestId'
  BY <1>1, <1>2, LoadShape DEF HistoryInv
<1>4. shown'.at = "table" => shown'.q = query'
  BY DEF HistoryInv, Loading
<1>5. shown'.at # "table" => shown' = Loading
  BY DEF HistoryInv
<1>6. LoadShaped(loads[1])' <=> LoadShaped(loads'[1])
  BY DEF LoadShaped
<1> QED
  BY <1>1, <1>2, <1>3, <1>4, <1>5, LoadShape DEF HistoryInv, LoadShaped

LEMMA AskInv ==
  ASSUME HistoryInv, NEW q \in Query, Ask(q), UNCHANGED <<newest, asOf>>
  PROVE  HistoryInv'
  BY LoadInv DEF Ask

LEMMA AskTwiceInv ==
  ASSUME HistoryInv, NEW q \in Query, AskTwice(q), UNCHANGED <<newest, asOf>>
  PROVE  HistoryInv'
<1>1. query' \in Query
  BY DEF AskTwice, Query
<1>2. requestId' = requestId + 2 /\ requestId' \in 1..MaxLoads /\ requestId + 1 \in 1..MaxLoads
  BY HistoryAssumption DEF HistoryInv, AskTwice
<1>3. /\ loads' = [i \in 1..MaxLoads |-> loads'[i]]
      /\ loads'[requestId'] = Load(query')
      /\ loads'[requestId + 1] = Load(q)
      /\ \A i \in 1..MaxLoads \ {requestId + 1, requestId'} : loads'[i] = loads[i]
  <2> DEFINE first  == Load(q)
             second == Load([q EXCEPT !.page = 0])
  <2>1. loads' = [loads EXCEPT ![requestId + 1] = first, ![requestId + 2] = second]
    BY DEF AskTwice
  <2>2. second = Load(query')
    BY DEF AskTwice
  <2>3. requestId + 1 # requestId + 2 /\ requestId \in Int
    BY DEF HistoryInv
  <2>4. loads = [i \in 1..MaxLoads |-> loads[i]]
    BY DEF HistoryInv
  <2> HIDE DEF first, second
  <2>5. /\ loads' = [i \in 1..MaxLoads |-> loads'[i]]
        /\ loads'[requestId + 2] = second
        /\ loads'[requestId + 1] = first
        /\ \A i \in 1..MaxLoads \ {requestId + 1, requestId + 2} : loads'[i] = loads[i]
    BY <1>2, <2>1, <2>3, <2>4
  <2> QED
    BY <1>2, <2>2, <2>5 DEF first
<1>4. ASSUME NEW i \in 1..MaxLoads
      PROVE  /\ LoadShaped(loads'[i]) /\ loads'[i].asOf \in Int /\ loads'[i].asOf <= newest
             /\ loads'[i].at = "open" => i <= requestId'
  <2>1. CASE i = requestId'
    BY <1>2, <1>3, <2>1, LoadShape DEF HistoryInv
  <2>2. CASE i = requestId + 1
    BY <1>2, <1>3, <2>2, LoadShape DEF HistoryInv
  <2>3. CASE i \notin {requestId + 1, requestId'}
    BY <1>2, <1>3, <2>3 DEF HistoryInv
  <2> QED
    BY <2>1, <2>2, <2>3
<1>5. shown' = Loading
  BY DEF AskTwice
<1> QED
  BY <1>1, <1>2, <1>3, <1>4, <1>5, LoadShape DEF HistoryInv, LoadShaped, Loading

LEMMA NextHistory == HistoryInv /\ [HistoryNext]_historyVars => HistoryInv'
<1> SUFFICES ASSUME HistoryInv, [HistoryNext]_historyVars PROVE HistoryInv'
  OBVIOUS
<1> USE HistoryAssumption
<1>1. ASSUME NEW f \in Filter, NEW o \in SortOrders, NEW n \in Sizes,
             ChangeQuery([filter |-> f, order |-> o, size |-> n, page |-> query.page])
      PROVE  HistoryInv'
  <2> DEFINE q == [filter |-> f, order |-> o, size |-> n, page |-> query.page]
  <2>1. q \in Query
    BY DEF HistoryInv, Query
  <2>2. UNCHANGED <<newest, asOf>> /\ (Ask(q) \/ AskTwice(q))
    BY <1>1 DEF ChangeQuery, logVars
  <2> QED
    BY <2>1, <2>2, AskInv, AskTwiceInv
<1>2. CASE NextPage
  <2>1. [query EXCEPT !.page = @ + 1] \in Query
    BY DEF HistoryInv, Query
  <2> QED
    BY <1>2, <2>1, AskInv DEF NextPage, logVars
<1>3. CASE PreviousPage
  <2>1. [query EXCEPT !.page = @ - 1] \in Query
    BY <1>3 DEF HistoryInv, Query, PreviousPage
  <2> QED
    BY <1>3, <2>1, AskInv DEF PreviousPage, logVars
<1>4. CASE PollLog
  <2>1. query \in Query
    BY DEF HistoryInv
  <2> QED
    BY <1>4, <2>1, LoadInv DEF PollLog, logVars, walkVars
<1>5. ASSUME NEW i \in 1..MaxLoads, ReadRows(i)
      PROVE  HistoryInv'
  <2>1. /\ loads'[i] = [loads[i] EXCEPT !.rows = Page(loads[i].q), !.asOf = newest]
        /\ \A j \in 1..MaxLoads \ {i} : loads'[j] = loads[j]
        /\ loads' = [j \in 1..MaxLoads |-> loads'[j]]
    BY <1>5 DEF HistoryInv, ReadRows
  <2>2. /\ LoadShaped(loads'[i]) /\ loads'[i].asOf = newest
        /\ loads'[i].at = loads[i].at /\ loads'[i].q = loads[i].q
    BY <2>1 DEF HistoryInv, LoadShaped
  <2>3. UNCHANGED <<newest, query, requestId, shown, asOf>>
    BY <1>5 DEF ReadRows, logVars, walkVars
  <2>4. ASSUME NEW j \in 1..MaxLoads
        PROVE  /\ LoadShaped(loads'[j])
               /\ loads'[j].asOf \in Int /\ loads'[j].asOf <= newest'
               /\ loads'[j].at = "open" => j <= requestId'
    <3>1. CASE j = i
      <4>1. newest' \in Int /\ newest <= newest'
        BY <2>3 DEF HistoryInv
      <4>2. loads[i].at = "open" => i <= requestId'
        BY <2>3 DEF HistoryInv
      <4> QED
        BY <2>2, <2>3, <3>1, <4>1, <4>2
    <3>2. CASE j # i
      BY <2>1, <2>3, <3>2 DEF HistoryInv
    <3> QED
      BY <3>1, <3>2
  <2>5. loads'[requestId'].at = "open" =>
          /\ loads'[requestId'].q = query'
          /\ loads'[requestId'].asOf # -1 => asOf' <= loads'[requestId'].asOf
    <3>1. CASE requestId = i
      BY <2>1, <2>2, <2>3, <3>1 DEF HistoryInv
    <3>2. CASE requestId # i
      BY <2>1, <2>3, <3>2 DEF HistoryInv
    <3> QED
      BY <3>1, <3>2
  <2> QED
    BY <2>1, <2>3, <2>4, <2>5 DEF HistoryInv
<1>6. ASSUME NEW i \in 1..MaxLoads, Count(i)
      PROVE  HistoryInv'
  <2>1. /\ loads'[i] = [loads[i] EXCEPT !.total = Cardinality(Selected(loads[i].q))]
        /\ \A j \in 1..MaxLoads \ {i} : loads'[j] = loads[j]
        /\ loads' = [j \in 1..MaxLoads |-> loads'[j]]
    BY <1>6 DEF HistoryInv, Count
  <2>2. /\ LoadShaped(loads'[i]) /\ loads'[i].asOf = loads[i].asOf
        /\ loads'[i].at = loads[i].at /\ loads'[i].q = loads[i].q
    BY <2>1 DEF HistoryInv, LoadShaped
  <2> QED
    BY <1>6, <2>1, <2>2 DEF HistoryInv, Count, logVars, walkVars
<1>7. ASSUME NEW i \in 1..MaxLoads, ShowAnswer(i) \/ ShowFailure(i)
      PROVE  HistoryInv'
  <2>1. /\ loads'[i] = NoLoad
        /\ \A j \in 1..MaxLoads \ {i} : loads'[j] = loads[j]
        /\ loads' = [j \in 1..MaxLoads |-> loads'[j]]
        /\ UNCHANGED <<newest, query, requestId>>
    BY <1>7 DEF HistoryInv, ShowAnswer, ShowFailure, logVars
  <2>2. LoadShaped(NoLoad) /\ NoLoad.asOf = -1 /\ NoLoad.at = "none"
    BY DEF LoadShaped, NoLoad
  <2>3. ASSUME NEW j \in 1..MaxLoads
        PROVE  /\ LoadShaped(loads'[j])
               /\ loads'[j].asOf \in Int /\ loads'[j].asOf <= newest'
               /\ loads'[j].at = "open" => j <= requestId'
    <3>1. CASE j = i
      BY <2>1, <2>2, <3>1 DEF HistoryInv
    <3>2. CASE j # i
      BY <2>1, <3>2 DEF HistoryInv
    <3> QED
      BY <3>1, <3>2
  <2>4. CASE i = requestId
    <3>1. loads'[requestId'].at # "open"
      BY <2>1, <2>2, <2>4
    <3>2. asOf' \in Nat /\ asOf' <= newest'
      BY <1>7, <2>1, <2>4 DEF HistoryInv, ShowAnswer, ShowFailure, BothRead
    <3>3. shown'.at = "table" /\ shown'.q = query'
      <4>1. loads[i].q = query
        BY <1>7, <2>4 DEF HistoryInv, ShowAnswer, ShowFailure, BothRead
      <4>2. CASE ShowAnswer(i)
        BY <2>1, <2>4, <4>1, <4>2 DEF ShowAnswer
      <4>3. CASE ShowFailure(i) /\ shown.at = "table"
        BY <2>1, <2>4, <4>3 DEF ShowFailure, HistoryInv
      <4>4. CASE ShowFailure(i) /\ shown.at # "table"
        BY <2>1, <2>4, <4>1, <4>4 DEF ShowFailure, HistoryInv, Loading
      <4> QED
        BY <1>7, <4>2, <4>3, <4>4
    <3> QED
      BY <2>1, <2>3, <3>1, <3>2, <3>3 DEF HistoryInv, LoadShaped
  <2>5. CASE i # requestId
    <3>1. UNCHANGED <<shown, asOf>> /\ loads'[requestId'] = loads[requestId]
      BY <1>7, <2>1, <2>5 DEF HistoryInv, ShowAnswer, ShowFailure
    <3> QED
      BY <2>1, <2>3, <3>1 DEF HistoryInv, LoadShaped
  <2> QED
    BY <2>4, <2>5
<1>8. CASE Record \/ Slide
  BY <1>8 DEF HistoryInv, Record, Slide, askVars, walkVars, LoadShaped
<1>9. CASE UNCHANGED historyVars
  BY <1>9 DEF HistoryInv, historyVars, logVars, askVars, walkVars, LoadShaped
<1> QED
  BY <1>1, <1>2, <1>3, <1>4, <1>5, <1>6, <1>7, <1>8, <1>9 DEF HistoryNext, LoadStep

\* The table refines LatestAnswer: it shows an answer to the query selected now
\* or nothing, and never older rows than it has shown before.
THEOREM TableShowsLatest == HistorySpec => ShowsLatest
<1>1. HistoryInit => LA!Init
  BY HistoryAssumption DEF HistoryInit, LA!Init, Query, SortOrders, Loading
<1>2. HistoryInv /\ HistoryInv' /\ [HistoryNext]_historyVars
        => [LA!Tick \/ LA!Ask \/ LA!Show]_LA!vars
  <2> SUFFICES ASSUME HistoryInv, HistoryInv', [HistoryNext]_historyVars
               PROVE  LA!Tick \/ LA!Ask \/ LA!Show \/ UNCHANGED LA!vars
    OBVIOUS
  <2> USE DEF LA!vars
  <2>1. ASSUME NEW q, Ask(q) \/ AskTwice(q), UNCHANGED <<newest, asOf>>
        PROVE  LA!Ask
    BY <2>1 DEF Ask, AskTwice, LA!Ask, HistoryInv
  <2>2. CASE \/ NextPage \/ PreviousPage
             \/ \E f \in Filter, o \in SortOrders, n \in Sizes :
                  ChangeQuery([filter |-> f, order |-> o, size |-> n, page |-> query.page])
    BY <2>1, <2>2 DEF NextPage, PreviousPage, ChangeQuery, logVars
  <2>3. CASE PollLog
    BY <2>3 DEF PollLog, logVars
  <2>4. ASSUME NEW i \in 1..MaxLoads, ReadRows(i) \/ Count(i)
        PROVE  UNCHANGED LA!vars
    BY <2>4 DEF ReadRows, Count, logVars
  <2>5. ASSUME NEW i \in 1..MaxLoads, ShowAnswer(i)
        PROVE  LA!Show \/ UNCHANGED LA!vars
    BY <2>5 DEF ShowAnswer, BothRead, LA!Show, HistoryInv, logVars
  <2>6. ASSUME NEW i \in 1..MaxLoads, ShowFailure(i)
        PROVE  LA!Show \/ UNCHANGED LA!vars
    BY <2>6 DEF ShowFailure, LA!Show, HistoryInv, Loading, logVars
  <2>7. CASE Record
    BY <2>7 DEF Record, LA!Tick, HistoryInv, askVars
  <2>8. CASE Slide
    BY <2>8 DEF Slide, askVars
  <2>9. CASE UNCHANGED historyVars
    BY <2>9 DEF historyVars, logVars, askVars
  <2> QED
    BY <2>2, <2>3, <2>4, <2>5, <2>6, <2>7, <2>8, <2>9 DEF HistoryNext, LoadStep
<1> QED
  BY <1>1, <1>2, InitHistory, NextHistory, PTL DEF HistorySpec, ShowsLatest, LA!Spec
-----------------------------------------------------------------------------
(* No row is skipped. The rows above one, in the order of the table, only  *)
(* grow in number as the log does, so a row that was above a page stays    *)
(* above it: it was shown when it was on the pages before, or it is newer  *)
(* than the moment the reader left the first page.                         *)

\* The rows of a filter that are newer than r, in a log of n decisions.
NewerRows(f, r, n) == Cardinality({x \in Matches[f] : r < x /\ x <= n})

Reaches(rows, r) == \E x \in rows : x <= r

\* The rows are those of page q, newest first, of a log of n decisions: what is
\* missing of the page is older than the range and than all that is there.
PageRead(q, rows, n, old) ==
  /\ \A r \in rows : r \in Matches[q.filter] /\ r <= n
                     /\ NewerRows(q.filter, r, n) < (q.page + 1) * q.size
  /\ \A r \in Matches[q.filter] :
       /\ r <= n
       /\ q.page * q.size <= NewerRows(q.filter, r, n)
       /\ NewerRows(q.filter, r, n) < (q.page + 1) * q.size
       /\ r >= old \/ Reaches(rows, r)
       => r \in rows

OnScreen == shown.at = "table" /\ (shown.total > 0 \/ shown.rows # {})
LastRead == loads[requestId].at = "open" /\ loads[requestId].asOf # -1

\* What the reader has passed, he has seen: the rows above his page that were
\* there when he set out.
PassedSeen ==
  \A r \in Matches[query.filter] :
    /\ r <= start /\ NewerRows(query.filter, r, asOf) < query.page * query.size
    /\ \/ r >= oldest
       \/ Reaches(shown.rows, r)
       \/ LastRead /\ Reaches(loads[requestId].rows, r)
    => r \in seen

WalkInv ==
  /\ oldest \in Nat
  /\ start \in Nat /\ start <= asOf
  /\ query.order = "desc" =>
       /\ OnScreen => PageRead(query, shown.rows, asOf, oldest)
       /\ LastRead => PageRead(query, loads[requestId].rows, loads[requestId].asOf, oldest)
       /\ PassedSeen

LEMMA MatchesFinite ==
  ASSUME NEW f \in Filter
  PROVE  /\ Matches[f] \subseteq 1..MaxRows
         /\ \A S : S \subseteq Matches[f] => IsFiniteSet(S)
<1>1. Matches[f] \subseteq 1..MaxRows
  BY HistoryAssumption
<1>2. IsFiniteSet(1..MaxRows)
  BY HistoryAssumption, FS_Interval
<1> QED
  BY <1>1, <1>2, FS_Subset

LEMMA AboveGrows ==
  ASSUME NEW f \in Filter, NEW r \in Matches[f], NEW m \in Int, NEW n \in Int, m <= n
  PROVE  /\ NewerRows(f, r, m) \in Nat
         /\ NewerRows(f, r, m) <= NewerRows(f, r, n)
         /\ \A x \in Matches[f] : x <= r => NewerRows(f, r, n) <= NewerRows(f, x, n)
<1> DEFINE newer(x, k) == {y \in Matches[f] : x < y /\ y <= k}
<1>1. Matches[f] \subseteq Int
  BY MatchesFinite
<1>2. \A x, k : IsFiniteSet(newer(x, k))
  BY MatchesFinite
<1>3. newer(r, m) \subseteq newer(r, n)
  BY <1>1
<1>4. \A x \in Matches[f] : x <= r => newer(r, n) \subseteq newer(x, n)
  BY <1>1
<1> HIDE DEF newer
<1>5. Cardinality(newer(r, m)) \in Nat
  BY <1>2, FS_CardinalityType
<1>6. Cardinality(newer(r, m)) <= Cardinality(newer(r, n))
  BY <1>2, <1>3, FS_Subset
<1>7. \A x \in Matches[f] : x <= r => Cardinality(newer(r, n)) <= Cardinality(newer(x, n))
  BY <1>2, <1>4, FS_Subset
<1> QED
  BY <1>5, <1>6, <1>7 DEF NewerRows, newer

\* What the API reads is the page asked for.
LEMMA PageIsRead ==
  ASSUME NEW q \in Query, q.order = "desc", newest \in Nat, oldest \in Nat
  PROVE  /\ PageRead(q, Page(q), newest, oldest)
         /\ \A r \in Page(q) : r >= oldest
<1>1. Matches[q.filter] \subseteq Int
  BY MatchesFinite DEF Query
<1>2. ASSUME NEW r \in Selected(q)
      PROVE  Rank(q, r) = NewerRows(q.filter, r, newest)
  <2>1. {x \in Selected(q) : x > r} = {x \in Matches[q.filter] : r < x /\ x <= newest}
    BY <1>1, <1>2 DEF Selected
  <2>2. {x \in Selected(q) : IF q.order = "asc" THEN x < r ELSE x > r} = {x \in Selected(q) : x > r}
    OBVIOUS
  <2> QED
    BY <2>1, <2>2 DEF Rank, NewerRows
<1>3. \A r \in Page(q) :
        /\ r \in Selected(q)
        /\ NewerRows(q.filter, r, newest) < (q.page + 1) * q.size
  BY <1>2 DEF Page, Slice
<1>4. \A r \in Selected(q) :
        /\ q.page * q.size <= NewerRows(q.filter, r, newest)
        /\ NewerRows(q.filter, r, newest) < (q.page + 1) * q.size
        => r \in Page(q)
  BY <1>2 DEF Page, Slice
<1>5. \A r \in Matches[q.filter] :
        r <= newest /\ (r >= oldest \/ Reaches(Page(q), r)) => r \in Selected(q)
  BY <1>1, <1>3 DEF Selected, Reaches
<1>6. \A r \in Selected(q) : r \in Matches[q.filter] /\ oldest <= r /\ r <= newest
  BY DEF Selected
<1> HIDE DEF Page, Selected
<1>7. \A r \in Page(q) : r \in Matches[q.filter] /\ r <= newest /\ r >= oldest
  BY <1>1, <1>3, <1>6
<1> QED
  BY <1>3, <1>4, <1>5, <1>7 DEF PageRead

LEMMA PageStays ==
  ASSUME NEW q \in Query, NEW rows, NEW n \in Int, NEW old \in Nat, NEW later \in Nat,
         old <= later, PageRead(q, rows, n, old)
  PROVE  PageRead(q, rows, n, later)
<1>1. Matches[q.filter] \subseteq Int
  BY MatchesFinite DEF Query
<1> QED
  BY <1>1 DEF PageRead

\* A walk that starts anew.
LEMMA WalkAnew ==
  ASSUME HistoryInv, HistoryInv', oldest' \in Nat, start' = 0, shown' = Loading, ~LastRead'
  PROVE  WalkInv'
<1>1. ~OnScreen'
  BY DEF OnScreen, Loading
<1>2. \A r \in Matches[query'.filter] : ~(r <= 0)
  BY MatchesFinite DEF HistoryInv, Query
<1>3. PassedSeen'
  BY <1>2 DEF PassedSeen
<1>4. asOf' \in Nat
  BY DEF HistoryInv
<1> QED
  BY <1>1, <1>3, <1>4 DEF WalkInv

LEMMA InitWalk == HistoryInit => WalkInv
<1> SUFFICES ASSUME HistoryInit PROVE WalkInv
  OBVIOUS
<1>1. oldest = 1 /\ start = 0 /\ asOf = 0
  BY DEF HistoryInit
<1>2. ~OnScreen /\ ~LastRead
  BY HistoryAssumption, LoadShape DEF HistoryInit, OnScreen, LastRead, Loading
<1>3. query.filter \in Filter
  BY DEF HistoryInit
<1>4. PassedSeen
  BY <1>1, <1>3, MatchesFinite DEF PassedSeen
<1> QED
  BY <1>1, <1>2, <1>4 DEF WalkInv

\* A row above the next page is above this one, or on it.
LEMMA WalkOn ==
  ASSUME HistoryInv, HistoryInv', WalkInv, NextPage
  PROVE  WalkInv'
<1>1. /\ query' = [query EXCEPT !.page = @ + 1]
      /\ shown' = Loading /\ oldest' = oldest /\ asOf' = asOf
      /\ seen' = seen \cup shown.rows
      /\ start' = IF query.page = 0 THEN asOf ELSE start
      /\ shown.at = "table" /\ shown.total > 0
  BY DEF NextPage, Ask, logVars
<1>2. ~OnScreen' /\ ~LastRead'
  <2>1. loads'[requestId'] = Load(query')
    BY HistoryAssumption DEF NextPage, Ask, HistoryInv
  <2> QED
    BY <1>1, <2>1, LoadShape DEF OnScreen, LastRead, Loading
<1>3. start' \in Nat /\ start' <= asOf'
  BY <1>1 DEF WalkInv, HistoryInv
<1>4. /\ query'.filter = query.filter /\ query'.order = query.order
      /\ query'.size = query.size /\ query'.page = query.page + 1
      /\ query.page \in Nat /\ query.filter \in Filter /\ query.size \in Nat
  BY <1>1, HistoryAssumption DEF HistoryInv, Query
<1>5. ASSUME query.order = "desc", NEW r \in Matches[query.filter],
             r <= start', NewerRows(query.filter, r, asOf) < (query.page + 1) * query.size,
             r >= oldest
      PROVE  r \in seen \cup shown.rows
  <2> DEFINE above == NewerRows(query.filter, r, asOf)
             first == query.page * query.size
  <2>1. r \in Int /\ above \in Nat /\ asOf \in Nat
    BY <1>4, MatchesFinite, AboveGrows DEF HistoryInv
  <2>2. first \in Nat /\ (query.page = 0 => first = 0)
    BY <1>4
  <2>3. PageRead(query, shown.rows, asOf, oldest) /\ PassedSeen
    BY <1>1, <1>5 DEF WalkInv, OnScreen
  <2>4. r <= asOf
    BY <1>1, <1>5, <2>1 DEF WalkInv
  <2>5. CASE first <= above
    BY <1>5, <2>3, <2>4, <2>5 DEF PageRead
  <2>6. CASE above < first
    <3>1. r <= start
      BY <1>1, <1>5, <2>1, <2>2, <2>6
    <3> QED
      BY <1>5, <2>3, <2>6, <3>1 DEF PassedSeen
  <2> HIDE DEF above, first
  <2> QED
    BY <2>1, <2>2, <2>5, <2>6
<1>6. shown'.rows = {}
  BY <1>1 DEF Loading
<1>7. query'.order = "desc" => PassedSeen'
  BY <1>1, <1>2, <1>4, <1>5, <1>6 DEF PassedSeen, Reaches
<1>8. oldest' \in Nat
  BY <1>1 DEF WalkInv
<1> QED
  BY <1>2, <1>3, <1>7, <1>8 DEF WalkInv

\* The rows of the last request arrive in the API's answer.
LEMMA WalkReads ==
  ASSUME HistoryInv, HistoryInv', WalkInv, NEW i \in 1..MaxLoads, ReadRows(i)
  PROVE  WalkInv'
<1>1. UNCHANGED <<newest, oldest, query, requestId, shown, asOf, seen, start>>
  BY DEF ReadRows, logVars, walkVars
<1>2. CASE i # requestId
  <2>1. loads'[requestId'] = loads[requestId]
    BY <1>1, <1>2 DEF ReadRows, HistoryInv
  <2> QED
    BY <1>1, <2>1 DEF WalkInv, OnScreen, LastRead, PassedSeen
<1>3. CASE i = requestId
  <2>1. loads'[i] = [loads[i] EXCEPT !.rows = Page(loads[i].q), !.asOf = newest]
    BY DEF ReadRows, HistoryInv
  <2>2. loads[i].q = query /\ LoadShaped(loads[i])
    BY <1>3 DEF ReadRows, HistoryInv
  <2>3. loads'[requestId'].rows = Page(query) /\ loads'[requestId'].asOf = newest
    BY <1>1, <1>3, <2>1, <2>2 DEF LoadShaped
  <2>4. query.order = "desc" =>
          /\ PageRead(query, Page(query), newest, oldest)
          /\ \A r \in Page(query) : r >= oldest /\ r \in Int
    <3>1. Page(query) \subseteq Int
      BY MatchesFinite DEF Page, Slice, Selected, HistoryInv, Query
    <3> QED
      BY <3>1, PageIsRead DEF HistoryInv, WalkInv
  <2>5. query.filter \in Filter /\ oldest \in Nat
    BY DEF HistoryInv, Query, WalkInv
  <2> HIDE DEF Page
  <2>6. ASSUME query.order = "desc", NEW r \in Matches[query.filter], Reaches(Page(query), r)
        PROVE  r >= oldest
    BY <2>4, <2>5, <2>6, MatchesFinite DEF Reaches
  <2>7. query.order = "desc" => PassedSeen'
    BY <1>1, <2>3, <2>6 DEF WalkInv, PassedSeen
  <2> QED
    BY <1>1, <2>3, <2>4, <2>7 DEF WalkInv, OnScreen
<1> QED
  BY <1>2, <1>3

\* The answer to the last request is shown: it was read no earlier than the one before.
LEMMA WalkShown ==
  ASSUME HistoryInv, HistoryInv', WalkInv, NEW i \in 1..MaxLoads, ShowAnswer(i), i = requestId
  PROVE  WalkInv'
<1>1. UNCHANGED <<newest, oldest, query, requestId, seen, start>>
  BY DEF ShowAnswer, logVars, walkVars
<1>2. shown'.rows = loads[i].rows /\ asOf' = loads[i].asOf
  BY DEF ShowAnswer
<1>3. LastRead /\ asOf <= asOf' /\ asOf' \in Int /\ asOf \in Int
  BY <1>2 DEF ShowAnswer, BothRead, LastRead, HistoryInv
<1>4. ~LastRead'
  <2>1. loads'[i] = NoLoad
    BY DEF ShowAnswer, HistoryInv
  <2> QED
    BY <1>1, <2>1 DEF LastRead, NoLoad
<1>5. query.filter \in Filter /\ query.page \in Nat /\ query.size \in Nat
  BY HistoryAssumption DEF HistoryInv, Query
<1>6. ASSUME query.order = "desc", NEW r \in Matches[query.filter],
             r <= start, NewerRows(query.filter, r, asOf') < query.page * query.size,
             r >= oldest \/ Reaches(loads[i].rows, r)
      PROVE  r \in seen
  <2>1. /\ NewerRows(query.filter, r, asOf) \in Nat /\ NewerRows(query.filter, r, asOf') \in Nat
        /\ NewerRows(query.filter, r, asOf) <= NewerRows(query.filter, r, asOf')
    BY <1>3, <1>5, AboveGrows
  <2>2. query.page * query.size \in Nat
    BY <1>5
  <2>3. NewerRows(query.filter, r, asOf) < query.page * query.size
    BY <1>6, <2>1, <2>2
  <2> QED
    BY <1>3, <1>6, <2>3 DEF WalkInv, PassedSeen
<1>7. query.order = "desc" => PassedSeen'
  BY <1>1, <1>2, <1>4, <1>6 DEF PassedSeen
<1>8. query.order = "desc" => PageRead(query, shown'.rows, asOf', oldest)
  BY <1>2, <1>3 DEF WalkInv
<1>9. start <= asOf'
  BY <1>3 DEF WalkInv
<1> QED
  BY <1>1, <1>4, <1>7, <1>8, <1>9 DEF WalkInv

\* A step that leaves the rows on display as they are, or none, and of the last
\* request no more than there was.
LEMMA WalkKept ==
  ASSUME HistoryInv, HistoryInv', WalkInv,
         UNCHANGED <<query, asOf, seen, start>>,
         oldest' \in Nat, oldest <= oldest',
         shown' = shown \/ (shown'.rows = {} /\ shown'.total = 0),
         LastRead' => /\ LastRead
                      /\ loads'[requestId'].rows = loads[requestId].rows
                      /\ loads'[requestId'].asOf = loads[requestId].asOf
  PROVE  WalkInv'
<1>1. oldest \in Nat /\ query \in Query /\ query.filter \in Filter
  BY DEF WalkInv, HistoryInv, Query
<1>2. ASSUME query.order = "desc", OnScreen'
      PROVE  PageRead(query, shown'.rows, asOf, oldest')
  <2>1. shown' = shown /\ OnScreen
    BY <1>2 DEF OnScreen
  <2>2. PageRead(query, shown.rows, asOf, oldest)
    BY <1>2, <2>1 DEF WalkInv
  <2> QED
    BY <1>1, <2>1, <2>2, PageStays DEF HistoryInv
<1>3. ASSUME query.order = "desc", LastRead'
      PROVE  PageRead(query, loads'[requestId'].rows, loads'[requestId'].asOf, oldest')
  <2>1. PageRead(query, loads[requestId].rows, loads[requestId].asOf, oldest)
    BY <1>3 DEF WalkInv
  <2>2. loads[requestId].asOf \in Int
    BY DEF HistoryInv
  <2> QED
    BY <1>1, <1>3, <2>1, <2>2, PageStays
<1>4. ASSUME query.order = "desc" PROVE PassedSeen'
  <2>1. \A r \in Matches[query.filter] : r >= oldest' => r >= oldest
    BY <1>1, MatchesFinite
  <2>2. \A r : Reaches(shown'.rows, r) => Reaches(shown.rows, r)
    BY DEF Reaches
  <2>3. \A r : LastRead' /\ Reaches(loads'[requestId'].rows, r)
               => LastRead /\ Reaches(loads[requestId].rows, r)
    OBVIOUS
  <2>4. PassedSeen
    BY <1>4 DEF WalkInv
  <2> QED
    BY <2>1, <2>2, <2>3, <2>4 DEF PassedSeen
<1> QED
  BY <1>2, <1>3, <1>4 DEF WalkInv

LEMMA NextWalk ==
  HistoryInv /\ HistoryInv' /\ WalkInv /\ [HistoryNext]_historyVars => WalkInv'
<1> SUFFICES ASSUME HistoryInv, HistoryInv', WalkInv, [HistoryNext]_historyVars PROVE WalkInv'
  OBVIOUS
<1>a. oldest \in Nat
  BY DEF WalkInv
<1>1. ASSUME NEW q, Ask(q) \/ AskTwice(q), start' = 0, UNCHANGED oldest
      PROVE  WalkInv'
  <2>1. shown' = Loading
    BY <1>1 DEF Ask, AskTwice
  <2>2. ~LastRead'
    <3>1. requestId' \in 1..MaxLoads /\ requestId' \in DOMAIN loads /\ requestId \in Nat
      BY <1>1 DEF Ask, AskTwice, HistoryInv
    <3>2. \E p : loads'[requestId'] = Load(p)
      <4>1. CASE Ask(q)
        BY <3>1, <4>1 DEF Ask
      <4>2. CASE AskTwice(q)
        <5> DEFINE first == Load(q)
                   last  == Load([q EXCEPT !.page = 0])
        <5>1. /\ loads' = [loads EXCEPT ![requestId + 1] = first, ![requestId + 2] = last]
              /\ requestId' = requestId + 2
          BY <4>2 DEF AskTwice
        <5>2. requestId + 1 # requestId + 2
          BY <3>1
        <5> HIDE DEF first, last
        <5>3. loads'[requestId'] = last
          BY <3>1, <5>1, <5>2
        <5> QED
          BY <5>3 DEF last
      <4> QED
        BY <1>1, <4>1, <4>2
    <3> QED
      BY <3>2, LoadShape DEF LastRead
  <2> QED
    BY <1>1, <1>a, <2>1, <2>2, WalkAnew
<1>2. CASE \/ PreviousPage
           \/ \E f \in Filter, o \in SortOrders, n \in Sizes :
                ChangeQuery([filter |-> f, order |-> o, size |-> n, page |-> query.page])
  BY <1>1, <1>2 DEF PreviousPage, ChangeQuery, logVars
<1>3. CASE NextPage
  BY <1>3, WalkOn
<1>4. CASE PollLog
  <2>1. loads'[requestId'] = Load(query)
    BY <1>4, HistoryAssumption DEF PollLog, HistoryInv
  <2>2. ~LastRead'
    BY <2>1, LoadShape DEF LastRead
  <2> QED
    BY <1>4, <1>a, <2>2, WalkKept DEF PollLog, logVars, walkVars
<1>5. ASSUME NEW i \in 1..MaxLoads, ReadRows(i)
      PROVE  WalkInv'
  BY <1>5, WalkReads
<1>6. ASSUME NEW i \in 1..MaxLoads, Count(i)
      PROVE  WalkInv'
  <2>1. UNCHANGED <<logVars, query, requestId, shown, asOf, walkVars>>
    BY <1>6 DEF Count
  <2>2. /\ loads'[requestId].at = loads[requestId].at
        /\ loads'[requestId].rows = loads[requestId].rows
        /\ loads'[requestId].asOf = loads[requestId].asOf
    <3>1. CASE i = requestId
      BY <1>6, <3>1 DEF Count, HistoryInv, LoadShaped
    <3>2. CASE i # requestId
      BY <1>6, <3>2 DEF Count, HistoryInv
    <3> QED
      BY <3>1, <3>2
  <2> QED
    BY <1>a, <2>1, <2>2, WalkKept DEF LastRead, logVars, walkVars
<1>7. ASSUME NEW i \in 1..MaxLoads, ShowAnswer(i) \/ ShowFailure(i), i # requestId \/ ShowFailure(i)
      PROVE  WalkInv'
  <2>1. UNCHANGED <<logVars, query, requestId, asOf, walkVars>>
    BY <1>7 DEF ShowAnswer, ShowFailure
  <2>2. shown' = shown \/ (shown'.rows = {} /\ shown'.total = 0)
    <3>1. CASE shown' = shown
      BY <3>1
    <3>2. CASE shown' # shown
      <4>1. shown' = [shown EXCEPT !.at = "table", !.q = loads[i].q] /\ shown.at # "table"
        BY <1>7, <3>2 DEF ShowAnswer, ShowFailure
      <4>2. shown = Loading
        BY <4>1 DEF HistoryInv
      <4> QED
        BY <4>1, <4>2 DEF Loading
    <3> QED
      BY <3>1, <3>2
  <2>3. loads'[requestId] = NoLoad \/ loads'[requestId] = loads[requestId]
    BY <1>7 DEF ShowAnswer, ShowFailure, HistoryInv
  <2> QED
    BY <1>a, <2>1, <2>2, <2>3, WalkKept DEF LastRead, NoLoad, logVars, walkVars
<1>8. ASSUME NEW i \in 1..MaxLoads, ShowAnswer(i), i = requestId
      PROVE  WalkInv'
  BY <1>8, WalkShown
<1>9. CASE Record \/ Slide
  <2>1. oldest' \in Nat /\ oldest <= oldest'
    BY <1>9, <1>a DEF Record, Slide
  <2> QED
    BY <1>9, <2>1, WalkKept DEF Record, Slide, askVars, walkVars, LastRead
<1>10. CASE UNCHANGED historyVars
  BY <1>10, <1>a, WalkKept DEF historyVars, logVars, askVars, walkVars, LastRead
<1> QED
  BY <1>2, <1>3, <1>4, <1>5, <1>6, <1>7, <1>8, <1>9, <1>10 DEF HistoryNext, LoadStep

\* Down the log, newest first, the reader misses no decision that was there
\* when he left the first page: for any filters, page sizes, overlapping requests
\* and decisions recorded meanwhile.
THEOREM PagingSkipsNothing == HistorySpec => []NoRowSkipped
<1>1. HistoryInv /\ WalkInv => NoRowSkipped
  <2> SUFFICES ASSUME HistoryInv, WalkInv, query.order = "desc", shown.at = "table",
                      NEW r \in Matches[query.filter], NEW x \in shown.rows, x <= r, r <= start
               PROVE  r \in seen \cup shown.rows
    BY DEF NoRowSkipped
  <2> DEFINE above(y) == NewerRows(query.filter, y, asOf)
             first == query.page * query.size
             end == (query.page + 1) * query.size
  <2>1. PageRead(query, shown.rows, asOf, oldest) /\ PassedSeen
    BY DEF WalkInv, OnScreen
  <2>2. query.filter \in Filter /\ query.page \in Nat /\ query.size \in Nat /\ asOf \in Nat /\ start \in Nat
    BY HistoryAssumption DEF HistoryInv, WalkInv, Query
  <2>3. x \in Matches[query.filter] /\ above(x) < end
    BY <2>1 DEF PageRead
  <2>4. above(r) \in Nat /\ above(x) \in Nat /\ above(r) <= above(x) /\ r \in Int
    <3>1. asOf \in Int /\ asOf <= asOf
      BY <2>2
    <3>2. NewerRows(query.filter, r, asOf) \in Nat /\ NewerRows(query.filter, x, asOf) \in Nat
      BY <2>2, <2>3, <3>1, AboveGrows
    <3>3. \A y \in Matches[query.filter] :
            y <= r => NewerRows(query.filter, r, asOf) <= NewerRows(query.filter, y, asOf)
      BY <2>2, <3>1, AboveGrows
    <3> QED
      BY <2>2, <2>3, <3>2, <3>3, MatchesFinite
  <2>5. first \in Nat /\ end \in Nat
    BY <2>2
  <2>6. r <= asOf
    BY <2>2, <2>4 DEF WalkInv
  <2>7. Reaches(shown.rows, r)
    BY DEF Reaches
  <2>8. first <= above(r) /\ above(r) < end => r \in shown.rows
    BY <2>1, <2>6, <2>7 DEF PageRead
  <2>9. above(r) < first => r \in seen
    BY <2>1, <2>7 DEF PassedSeen
  <2> HIDE DEF above, first, end
  <2> QED
    BY <2>3, <2>4, <2>5, <2>8, <2>9
<1> QED
  BY <1>1, InitHistory, NextHistory, InitWalk, NextWalk, PTL DEF HistorySpec
-----------------------------------------------------------------------------
(* Types.                                                                  *)

LoadTyped(x) ==
  /\ x.at \in {"none", "open"}
  /\ x.asOf \in -1..newest /\ x.total \in -1..MaxRows
  /\ x.rows \subseteq 1..MaxRows
  /\ x.at = "open" => x.q \in Query

LogInv ==
  /\ newest \in 0..MaxRows /\ oldest \in 1..(MaxRows + 1)
  /\ failed \in BOOLEAN
  /\ \A i \in 1..MaxLoads : LoadTyped(loads[i])
  /\ shown.at \in {"loading", "table"} /\ shown.total \in 0..MaxRows
  /\ shown.rows \subseteq 1..MaxRows /\ seen \subseteq 1..MaxRows

LEMMA SelectedBounded ==
  ASSUME NEW q \in Query
  PROVE  Selected(q) \subseteq 1..MaxRows /\ Cardinality(Selected(q)) \in 0..MaxRows
<1>1. Selected(q) \subseteq Matches[q.filter] /\ Matches[q.filter] \subseteq 1..MaxRows
  BY HistoryAssumption DEF Selected, Query
<1>2. IsFiniteSet(1..MaxRows) /\ Cardinality(1..MaxRows) = MaxRows
  BY HistoryAssumption, FS_Interval
<1>3. Selected(q) \subseteq 1..MaxRows
  BY <1>1
<1>4. Cardinality(Selected(q)) \in Nat /\ Cardinality(Selected(q)) <= MaxRows
  BY <1>2, <1>3, FS_Subset, FS_CardinalityType
<1> QED  BY <1>3, <1>4, HistoryAssumption

LEMMA NewLoadTyped ==
  ASSUME newest \in Nat, MaxRows \in Nat
  PROVE  LoadTyped(NoLoad) /\ \A q \in Query : LoadTyped(Load(q))
BY DEF LoadTyped, NoLoad, Load

LEMMA PagesTyped ==
  ASSUME query \in Query
  PROVE  /\ [query EXCEPT !.page = @ + 1] \in Query
         /\ query.page > 0 => [query EXCEPT !.page = @ - 1] \in Query
BY DEF Query

LEMMA NextLog ==
  HistoryInv /\ HistoryInv' /\ LogInv /\ [HistoryNext]_historyVars => LogInv'
<1> SUFFICES ASSUME HistoryInv, HistoryInv', LogInv, [HistoryNext]_historyVars PROVE LogInv'
  OBVIOUS
<1> USE HistoryAssumption
<1>a. newest \in Nat /\ LoadTyped(NoLoad) /\ \A q \in Query : LoadTyped(Load(q))
  BY NewLoadTyped DEF LogInv
<1>b. Loading.at = "loading" /\ Loading.total \in 0..MaxRows /\ Loading.rows = {}
  BY DEF Loading
<1>1. ASSUME NEW q \in Query, Ask(q) \/ AskTwice(q), UNCHANGED <<newest, oldest, failed>>,
             seen' \subseteq 1..MaxRows
      PROVE  LogInv'
  <2>1. [q EXCEPT !.page = 0] \in Query
    BY DEF Query
  <2>2. ASSUME NEW i \in 1..MaxLoads PROVE LoadTyped(loads'[i])
    <3>1. CASE Ask(q)
      BY <1>a, <3>1 DEF Ask, HistoryInv, LogInv
    <3>2. CASE AskTwice(q)
      <4> DEFINE first  == Load(q)
                 second == Load([q EXCEPT !.page = 0])
      <4>1. loads' = [loads EXCEPT ![requestId + 1] = first, ![requestId + 2] = second]
        BY <3>2 DEF AskTwice
      <4>2. LoadTyped(first) /\ LoadTyped(second)
        BY <1>a, <2>1
      <4> HIDE DEF first, second
      <4>3. loads'[i] = first \/ loads'[i] = second \/ loads'[i] = loads[i]
        BY <4>1 DEF HistoryInv
      <4> QED  BY <4>2, <4>3 DEF LogInv
    <3> QED  BY <1>1, <3>1, <3>2
  <2>3. shown' = Loading
    BY <1>1 DEF Ask, AskTwice
  <2> QED  BY <1>1, <1>b, <2>2, <2>3 DEF LogInv, LoadTyped
<1>2. ASSUME NEW f \in Filter, NEW o \in SortOrders, NEW n \in Sizes,
             ChangeQuery([filter |-> f, order |-> o, size |-> n, page |-> query.page])
      PROVE  LogInv'
  <2>1. [filter |-> f, order |-> o, size |-> n, page |-> query.page] \in Query
    BY DEF HistoryInv, Query
  <2> QED  BY <1>1, <1>2, <2>1 DEF ChangeQuery, logVars
<1>3. CASE NextPage
  <2>1. [query EXCEPT !.page = @ + 1] \in Query
    BY PagesTyped DEF HistoryInv
  <2>2. seen' \subseteq 1..MaxRows
    BY <1>3 DEF NextPage, LogInv
  <2> QED  BY <1>1, <1>3, <2>1, <2>2 DEF NextPage, logVars
<1>4. CASE PreviousPage
  <2>1. [query EXCEPT !.page = @ - 1] \in Query
    BY <1>4, PagesTyped DEF HistoryInv, PreviousPage
  <2> QED  BY <1>1, <1>4, <2>1 DEF PreviousPage, logVars
<1>5. CASE PollLog
  BY <1>a, <1>5 DEF PollLog, logVars, walkVars, HistoryInv, LogInv, LoadTyped
\* One request's queries and its end.
<1>6. ASSUME NEW i \in 1..MaxLoads, NEW x, loads' = [loads EXCEPT ![i] = x], LoadTyped(x),
             UNCHANGED <<newest, oldest, seen>>, failed' \in BOOLEAN,
             shown'.at \in {"loading", "table"}, shown'.total \in 0..MaxRows,
             shown'.rows \subseteq 1..MaxRows
      PROVE  LogInv'
  <2>1. ASSUME NEW j \in 1..MaxLoads PROVE LoadTyped(loads'[j])
    BY <1>6 DEF HistoryInv, LogInv
  <2> QED  BY <1>6, <2>1 DEF LogInv, LoadTyped
<1>7. ASSUME NEW i \in 1..MaxLoads, ReadRows(i) \/ Count(i) PROVE LogInv'
  <2> DEFINE f == loads[i]
  <2>1. LoadShaped(f) /\ LoadTyped(f) /\ f.at = "open"
    BY <1>7 DEF HistoryInv, LogInv, ReadRows, Count
  <2>2. f.q \in Query
    BY <2>1 DEF LoadTyped
  <2>3. UNCHANGED <<newest, oldest, seen, shown, failed>>
    BY <1>7 DEF ReadRows, Count, logVars, walkVars
  <2>4. CASE ReadRows(i)
    <3> DEFINE x == [f EXCEPT !.rows = Page(f.q), !.asOf = newest]
    <3>1. loads' = [loads EXCEPT ![i] = x]
      BY <2>4 DEF ReadRows, HistoryInv
    <3>2. x.at = f.at /\ x.q = f.q /\ x.total = f.total /\ x.rows = Page(f.q) /\ x.asOf = newest
      BY <2>1 DEF LoadShaped
    <3>3. Page(f.q) \subseteq 1..MaxRows
      BY <2>2, SelectedBounded DEF Page, Slice
    <3> HIDE DEF x
    <3>4. LoadTyped(x)
      BY <1>a, <2>1, <3>2, <3>3 DEF LoadTyped
    <3> QED  BY <1>6, <2>3, <3>1, <3>4 DEF LogInv
  <2>5. CASE Count(i)
    <3> DEFINE n == Cardinality(Selected(f.q))
               x == [f EXCEPT !.total = n]
    <3>1. loads' = [loads EXCEPT ![i] = x]
      BY <2>5 DEF Count
    <3>2. n \in 0..MaxRows
      BY <2>2, SelectedBounded
    <3> HIDE DEF n
    <3>3. x.at = f.at /\ x.q = f.q /\ x.total = n /\ x.rows = f.rows /\ x.asOf = f.asOf
      BY <2>1 DEF LoadShaped
    <3> HIDE DEF x
    <3>4. LoadTyped(x)
      BY <2>1, <3>2, <3>3 DEF LoadTyped
    <3> QED  BY <1>6, <2>3, <3>1, <3>4 DEF LogInv
  <2> QED  BY <1>7, <2>4, <2>5
<1>8. ASSUME NEW i \in 1..MaxLoads, ShowAnswer(i) \/ ShowFailure(i) PROVE LogInv'
  <2>1. loads' = [loads EXCEPT ![i] = NoLoad] /\ UNCHANGED <<newest, oldest, seen>> /\ LoadTyped(loads[i])
    BY <1>8 DEF ShowAnswer, ShowFailure, logVars, walkVars, LogInv
  <2>2. failed' \in BOOLEAN
    BY <1>8 DEF ShowAnswer, ShowFailure, LogInv
  <2>3. /\ shown'.at \in {"loading", "table"} /\ shown'.total \in 0..MaxRows
        /\ shown'.rows \subseteq 1..MaxRows
    <3>1. CASE shown' = shown
      BY <3>1 DEF LogInv
    <3>2. CASE ShowAnswer(i) /\ shown' # shown
      <4>1. shown' = [at |-> "table", q |-> loads[i].q, rows |-> loads[i].rows, total |-> loads[i].total]
        BY <3>2 DEF ShowAnswer
      <4>2. loads[i].total \in 0..MaxRows
        BY <2>1, <3>2 DEF ShowAnswer, BothRead, LoadTyped
      <4> QED  BY <2>1, <4>1, <4>2 DEF LoadTyped
    <3>3. CASE ShowFailure(i) /\ shown' # shown
      <4>1. shown = Loading /\ shown' = [shown EXCEPT !.at = "table", !.q = loads[i].q]
        BY <3>3 DEF ShowFailure, HistoryInv
      <4>2. shown' = [at |-> "table", q |-> loads[i].q, rows |-> {}, total |-> 0]
        BY <4>1 DEF Loading
      <4> QED  BY <4>2
    <3> QED  BY <1>8, <3>1, <3>2, <3>3
  <2> QED  BY <1>6, <1>a, <2>1, <2>2, <2>3
<1>9. CASE Record \/ Slide
  <2>1. UNCHANGED <<loads, shown, failed, seen>> /\ newest' \in 0..MaxRows /\ newest <= newest'
        /\ oldest' \in 1..(MaxRows + 1)
    BY <1>9 DEF Record, Slide, askVars, walkVars, LogInv
  <2>2. \A i \in 1..MaxLoads : LoadTyped(loads[i])'
    BY <2>1 DEF LogInv, LoadTyped
  <2> QED  BY <2>1, <2>2 DEF LogInv
<1>10. CASE UNCHANGED historyVars
  BY <1>10 DEF historyVars, logVars, askVars, walkVars, LogInv, LoadTyped
<1> QED
  BY <1>2, <1>3, <1>4, <1>5, <1>7, <1>8, <1>9, <1>10 DEF HistoryNext, LoadStep

\* The variables of the decision log keep their types, for any log, filters,
\* page sizes and number of requests.
THEOREM HistoryTypes == HistorySpec => []HistoryTypeOK
<1>1. HistoryInit => LogInv
  <2> SUFFICES ASSUME HistoryInit PROVE LogInv
    OBVIOUS
  <2>1. newest \in 0..MaxRows /\ oldest \in 1..(MaxRows + 1) /\ newest \in Nat /\ query \in Query
    BY HistoryAssumption DEF HistoryInit, Query, SortOrders
  <2>2. \A i \in 1..MaxLoads : LoadTyped(loads[i])
    BY <2>1, HistoryAssumption, NewLoadTyped DEF HistoryInit
  <2>3. failed = FALSE /\ seen = {} /\ shown = Loading
    BY DEF HistoryInit
  <2>4. Loading.at = "loading" /\ Loading.total = 0 /\ Loading.rows = {} /\ 0 \in 0..MaxRows
    BY HistoryAssumption DEF Loading
  <2> QED  BY <2>1, <2>2, <2>3, <2>4 DEF LogInv
<1>2. HistoryInv /\ WalkInv /\ LogInv => HistoryTypeOK
  BY HistoryAssumption DEF HistoryInv, WalkInv, LogInv, HistoryTypeOK, LoadTyped
<1> QED
  BY <1>1, <1>2, InitHistory, NextHistory, InitWalk, NextWalk, NextLog, PTL DEF HistorySpec

-----------------------------------------------------------------------------
(* The cached listings.                                                    *)

\* A load has somebody waiting for it, and kept the value there was when it
\* began, which nothing but its own end replaces.
FlightInv ==
  \A l \in Listings :
    /\ flight[l].at = "none" => flight[l] = NoFlight
    /\ flight[l].at # "none" => waiting[l] # {} /\ flight[l].stale = value[l]

CacheInv == CacheTypeOK /\ FlightInv

\* What LastGood says of one listing, for a caller told v and for a load's end.
Told(l, C, v) ==
  answer'[l] = [c \in Caller |-> IF c \in C THEN v ELSE answer[l][c]]

Same(l) == value'[l] = value[l] /\ waiting'[l] = waiting[l] /\ answer'[l] = answer[l]

Promised(l) ==
  \/ \E c \in Caller :
       /\ c \notin waiting[l] /\ value[l] # Nothing
       /\ Told(l, {c}, value[l])
       /\ value'[l] = value[l] /\ waiting'[l] = waiting[l]
  \/ \E c \in Caller :
       /\ c \notin waiting[l]
       /\ waiting'[l] = waiting[l] \cup {c}
       /\ value'[l] = value[l] /\ answer'[l] = answer[l]
  \/ \E v \in SUBSET All :
       /\ Main \in v
       /\ waiting[l] # {} /\ waiting'[l] = {}
       /\ value'[l] = v /\ Told(l, waiting[l], v)
  \/ /\ waiting[l] # {} /\ waiting'[l] = {}
     /\ Told(l, waiting[l], IF value[l] = Nothing THEN Failed ELSE value[l])
     /\ value'[l] = value[l]
  \/ Same(l)

-----------------------------------------------------------------------------
LEMMA InitCache == CacheInit => CacheInv
  BY DEF CacheInit, CacheInv, CacheTypeOK, FlightInv, Flight, NoFlight, Nothing

LEMMA HitInv ==
  ASSUME CacheInv, NEW l \in Listings, NEW c \in Caller, Hit(l, c)
  PROVE  CacheInv'
<1>1. answer' \in [Listings -> [Caller -> (SUBSET All) \cup {Failed}]]
  BY DEF CacheInv, CacheTypeOK, Hit, Tell
<1> QED  BY <1>1 DEF CacheInv, CacheTypeOK, FlightInv, Hit

LEMMA MissInv ==
  ASSUME CacheInv, NEW l \in Listings, NEW c \in Caller, Miss(l, c)
  PROVE  CacheInv'
<1> DEFINE f == [at |-> "dexs", open |-> {}, got |-> {}, stale |-> value[l]]
<1>1. f \in Flight
  BY DEF CacheInv, CacheTypeOK, Flight
<1>2. CacheTypeOK'
  BY <1>1 DEF CacheInv, CacheTypeOK, Miss
<1>3. ASSUME NEW k \in Listings
      PROVE  /\ flight'[k].at = "none" => flight'[k] = NoFlight
             /\ flight'[k].at # "none" => waiting'[k] # {} /\ flight'[k].stale = value'[k]
  BY <1>3 DEF CacheInv, CacheTypeOK, FlightInv, Miss, NoFlight
<1> QED  BY <1>2, <1>3 DEF CacheInv, FlightInv

\* The load under way gets on.
LEMMA ProgressInv ==
  ASSUME CacheInv, NEW l \in Listings, flight[l].at # "none",
         NEW f \in Flight, f.at # "none", f.stale = flight[l].stale,
         flight' = [flight EXCEPT ![l] = f],
         UNCHANGED <<value, fresh, waiting, answer>>
  PROVE  CacheInv'
BY DEF CacheInv, CacheTypeOK, FlightInv

\* Its end, with a new value or without one.
LEMMA DoneInv ==
  ASSUME CacheInv, NEW l \in Listings, NEW v \in (SUBSET All) \cup {Failed}, Done(l, v),
         value' \in [Listings -> SUBSET All], fresh' \in [Listings -> BOOLEAN],
         \A k \in Listings : k # l => value'[k] = value[k]
  PROVE  CacheInv'
<1>1. answer' \in [Listings -> [Caller -> (SUBSET All) \cup {Failed}]]
  BY DEF CacheInv, CacheTypeOK, Done, Tell
<1>2. NoFlight \in Flight
  BY DEF NoFlight, Flight, Nothing
<1>3. CacheTypeOK'
  BY <1>1, <1>2 DEF CacheInv, CacheTypeOK, Done
<1>4. FlightInv'
  BY DEF CacheInv, CacheTypeOK, FlightInv, Done, NoFlight
<1> QED  BY <1>3, <1>4 DEF CacheInv

LEMMA StepInv ==
  ASSUME CacheInv, NEW l \in Listings, CacheStep(l)
  PROVE  CacheInv'
<1>1. CASE \E c \in Caller : Hit(l, c) \/ Miss(l, c)
  BY <1>1, HitInv, MissInv
<1>2. CASE Dexs(l)
  <2> DEFINE f == [flight[l] EXCEPT !.at = "fan", !.open = All]
  <2>1. flight[l] \in Flight
    BY DEF CacheInv, CacheTypeOK
  <2>2. f \in Flight /\ f.at = "fan" /\ f.stale = flight[l].stale
    BY <2>1 DEF Flight
  <2>3. flight' = [flight EXCEPT ![l] = f]
    BY <1>2 DEF Dexs, CacheInv, CacheTypeOK
  <2> HIDE DEF f
  <2> QED  BY <1>2, <2>2, <2>3, ProgressInv DEF Dexs
<1>3. ASSUME NEW d \in All, Reply(l, d)
      PROVE  CacheInv'
  <2> DEFINE f == [flight[l] EXCEPT !.open = @ \ {d}, !.got = @ \cup {d}]
  <2>1. flight[l] \in Flight /\ flight[l].at = "fan"
    BY <1>3 DEF CacheInv, CacheTypeOK, Reply
  <2>2. f \in Flight /\ f.at = "fan" /\ f.stale = flight[l].stale
    BY <2>1 DEF Flight
  <2>3. flight' = [flight EXCEPT ![l] = f]
    BY <1>3 DEF Reply, CacheInv, CacheTypeOK
  <2> HIDE DEF f
  <2> QED  BY <1>3, <2>1, <2>2, <2>3, ProgressInv DEF Reply
<1>4. ASSUME NEW d \in All, l = "stats", Drop(d)
      PROVE  CacheInv'
  <2> DEFINE f == [flight[l] EXCEPT !.open = @ \ {d}]
  <2>1. flight[l] \in Flight /\ flight[l].at = "fan"
    BY <1>4 DEF CacheInv, CacheTypeOK, Drop
  <2>2. f \in Flight /\ f.at = "fan" /\ f.stale = flight[l].stale
    BY <2>1 DEF Flight
  <2>3. flight' = [flight EXCEPT ![l] = f]
    BY <1>4 DEF Drop, CacheInv, CacheTypeOK
  <2> HIDE DEF f
  <2> QED  BY <1>4, <2>1, <2>2, <2>3, ProgressInv DEF Drop
<1>5. CASE LoadSucceeds(l)
  <2>1. flight[l].got \in SUBSET All
    BY DEF CacheInv, CacheTypeOK, Flight
  <2> QED  BY <1>5, <2>1, DoneInv DEF LoadSucceeds, CacheInv, CacheTypeOK
<1>6. CASE LoadFails(l)
  <2>1. flight[l].stale \in SUBSET All
    BY DEF CacheInv, CacheTypeOK, Flight
  <2>2. CASE flight[l].stale = Nothing
    BY <1>6, <2>2, DoneInv DEF LoadFails, CacheInv, CacheTypeOK
  <2>3. CASE flight[l].stale # Nothing
    BY <1>6, <2>1, <2>3, DoneInv DEF LoadFails, CacheInv, CacheTypeOK
  <2> QED  BY <2>2, <2>3
<1>7. CASE GoStale(l)
  BY <1>7 DEF GoStale, CacheInv, CacheTypeOK, FlightInv
<1> QED  BY <1>1, <1>2, <1>3, <1>4, <1>5, <1>6, <1>7 DEF CacheStep, Upstream

LEMMA NextCache == CacheInv /\ [CacheNext]_cacheVars => CacheInv'
<1>1. CacheInv /\ CacheNext => CacheInv'
  BY StepInv DEF CacheNext
<1>2. CacheInv /\ UNCHANGED cacheVars => CacheInv'
  BY DEF cacheVars, CacheInv, CacheTypeOK, FlightInv
<1> QED  BY <1>1, <1>2

LEMMA CacheAlways == CacheSpec => []CacheInv
  BY InitCache, NextCache, PTL DEF CacheSpec

\* The variables of the caches (cache.ts, client.ts) keep their types, for any
\* callers and DEXes.
THEOREM CacheTypes == CacheSpec => []CacheTypeOK
<1>1. CacheInv => CacheTypeOK
  BY DEF CacheInv
<1> QED  BY <1>1, CacheAlways, PTL

-----------------------------------------------------------------------------
(* The refinement.                                                         *)

\* A step for another listing, or one that nobody is told of.
LEMMA Stutters ==
  ASSUME CacheInv, NEW l \in Listings, NEW k \in Listings, CacheStep(l),
         k # l \/ UNCHANGED <<value, waiting, answer>>
  PROVE  Same(k)
<1>1. CASE k # l
  BY <1>1 DEF CacheInv, CacheTypeOK, CacheStep, Upstream, Hit, Miss, Dexs, Reply, Drop,
              LoadSucceeds, LoadFails, GoStale, Done, Tell, Same
<1>2. CASE UNCHANGED <<value, waiting, answer>>
  BY <1>2 DEF Same
<1> QED  BY <1>1, <1>2

LEMMA DonePromised ==
  ASSUME CacheInv, NEW l \in Listings, NEW v, Done(l, v)
  PROVE  waiting'[l] = {} /\ Told(l, waiting[l], v)
BY DEF CacheInv, CacheTypeOK, Done, Tell, Told

LEMMA StepPromised ==
  ASSUME CacheInv, NEW l \in Listings, NEW k \in Listings, CacheStep(l)
  PROVE  Promised(k)
<1>1. CASE k # l
  BY <1>1, Stutters DEF Promised
<1>2. ASSUME k = l, NEW c \in Caller, Hit(l, c)
      PROVE  Promised(k)
  <2>1. Told(l, {c}, value[l])
    BY <1>2 DEF Hit, Tell, Told, CacheInv, CacheTypeOK
  <2> QED  BY <1>2, <2>1 DEF Hit, Promised
<1>3. ASSUME k = l, NEW c \in Caller, Miss(l, c)
      PROVE  Promised(k)
  BY <1>3 DEF Miss, Promised, CacheInv, CacheTypeOK
<1>4. ASSUME k = l, LoadSucceeds(l)
      PROVE  Promised(k)
  <2>1. flight[l].got \in SUBSET All /\ waiting[l] # {}
    BY <1>4 DEF LoadSucceeds, Settled, CacheInv, CacheTypeOK, FlightInv, Flight
  <2>2. waiting'[l] = {} /\ Told(l, waiting[l], flight[l].got)
    BY <1>4, DonePromised DEF LoadSucceeds
  <2>3. value'[l] = flight[l].got
    BY <1>4 DEF LoadSucceeds, CacheInv, CacheTypeOK
  <2> QED  BY <1>4, <2>1, <2>2, <2>3 DEF LoadSucceeds, Promised
<1>5. ASSUME k = l, LoadFails(l)
      PROVE  Promised(k)
  <2>1. flight[l].at # "none"
    BY <1>5 DEF LoadFails, Rejected, Settled
  <2>2. waiting[l] # {} /\ flight[l].stale = value[l]
    BY <2>1 DEF CacheInv, FlightInv
  <2>3. Done(l, IF value[l] = Nothing THEN Failed ELSE value[l])
    BY <1>5, <2>2 DEF LoadFails
  <2>4. waiting'[l] = {} /\ Told(l, waiting[l], IF value[l] = Nothing THEN Failed ELSE value[l])
    BY <2>3, DonePromised
  <2> QED  BY <1>5, <2>2, <2>4 DEF LoadFails, Promised
<1>6. CASE Dexs(l) \/ (\E d \in All : Reply(l, d) \/ (l = "stats" /\ Drop(d))) \/ GoStale(l)
  <2>1. UNCHANGED <<value, waiting, answer>>
    BY <1>6 DEF Dexs, Reply, Drop, GoStale
  <2> QED  BY <2>1, Stutters DEF Promised
<1> QED  BY <1>1, <1>2, <1>3, <1>4, <1>5, <1>6 DEF CacheStep, Upstream

LEMMA NextPromised ==
  ASSUME CacheInv, [CacheNext]_cacheVars, NEW k \in Listings
  PROVE  Promised(k)
<1>1. CASE CacheNext
  BY <1>1, StepPromised DEF CacheNext
<1>2. CASE UNCHANGED cacheVars
  BY <1>2 DEF cacheVars, Promised, Same
<1> QED  BY <1>1, <1>2

LEMMA PerpsStep == CacheInv /\ [CacheNext]_cacheVars => [Perps!Next]_Perps!vars
<1> SUFFICES ASSUME CacheInv, [CacheNext]_cacheVars
             PROVE  [Perps!Next]_Perps!vars
  OBVIOUS
<1>1. Promised("perps")
  BY NextPromised DEF Listings
<1> QED
  BY <1>1 DEF Promised, Told, Same, Perps!Next, Perps!vars, Perps!Serve, Perps!Wait,
              Perps!Refresh, Perps!Fail, Perps!Tell

LEMMA StatsStep == CacheInv /\ [CacheNext]_cacheVars => [Stats!Next]_Stats!vars
<1> SUFFICES ASSUME CacheInv, [CacheNext]_cacheVars
             PROVE  [Stats!Next]_Stats!vars
  OBVIOUS
<1>1. Promised("stats")
  BY NextPromised DEF Listings
<1> QED
  BY <1>1 DEF Promised, Told, Same, Stats!Next, Stats!vars, Stats!Serve, Stats!Wait,
              Stats!Refresh, Stats!Fail, Stats!Tell

LEMMA InitPromised == CacheInit => Perps!Init /\ Stats!Init
  BY DEF CacheInit, Perps!Init, Stats!Init, Listings

\* Both listings (cache.ts:25-56 over client.ts) serve a fresh value, share one
\* request and fall back to the last good value, for any callers and DEXes: the
\* cache implements LastGood twice. That every caller is answered in the end is
\* ServesLastGood's and the model checker's.
THEOREM CacheImplementsLastGood == CacheSpec => Perps!Spec /\ Stats!Spec
  BY InitPromised, CacheAlways, PerpsStep, StatsStep, PTL DEF CacheSpec, Perps!Spec, Stats!Spec
=============================================================================
