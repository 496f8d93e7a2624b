# A TLA+ model of Jeeva

Jeeva trades perpetual futures ("PERPs") on Hyperliquid on the advice of a
language model. It is a Rust engine (`src/engine`), an Express API (`src/api`),
a Next.js dashboard (`src/frontend`), a MongoDB for configuration and a Postgres
for everything that is traded. This directory holds TLA+ modules of the parts in
which something can go wrong that a test would hardly reach, the TLC
configurations that check them on small instances, and the theorems about them
that TLAPS proves for every value of the constants.

    cd tla
    tlc -workers 2 -config OrderAttempt.cfg MCOrderAttempt.tla   # a run
    tlapm OrderAttempt_proofs.tla                                # the proofs

`PROJECT.json` lists every run, which source lines each definition translates,
the hazards the properties are for, and for every property a faulty variant of
a definition that it catches.

## 1. The system

`engine/src/main.rs` starts eleven loops that run concurrently and share state
in memory and in the two databases. The API's handlers run concurrently with
each other and with all of them. There is no lock between the processes: they
meet in single SQL statements, transactions, a unique index and polled copies.

| Component | State | Operations | Talks to |
|---|---|---|---|
| Live execution (`decision/live_execution.rs`) | `live_order_attempts`, `live_positions`, `live_execution_holds`, `trade_history`; in memory the ambiguous submissions | `open`, `close`, `reconcile`, hold | the exchange over HTTP; called by the decision tasks and the reconcile loop |
| Execution coordinator (`decision/execution.rs`) | a claim per PERP | `try_lock` | taken by both loops, for live wallets only |
| Mock execution (`decision/execution.rs`) | `mock_positions`, the wallet's balance, `trade_history` | `open`, `close`, `apply_funding` | the same callers, without a claim |
| Decision supervisor (`decision/supervisor.rs`, `model.rs`, `health.rs`, `scheduler.rs`) | a task per session, a failure count per PERP | `run_decision_cycle`, auto-flatten, start and abort of tasks | execution, the session store, the decision maker |
| Reconcile loop (`reconcile.rs`) | none of its own, a snapshot per pass | hard closes, stop-losses, `reconcile` per wallet | execution, the session store |
| Trading sessions (`api/src/trading-sessions`) | `trading_sessions` | create, attach, detach, soft and hard close | eligibility, PERP configuration |
| Session poller, store (`engine/src/session`) | the engine's copy of the open sessions | `refresh`, `mark_closed` | Postgres |
| Engine mode (`api/src/engineMode`, `engine/src/mode.rs`) | one Mongo document and the engine's copy | switch, load, watch | closes live sessions on a switch to mock |
| PERP configuration (`api/src/perps`, `engine/src/config`) | one document per PERP and the engine's copy | patch, load, watch | closes the market's sessions when sampling goes off |
| Sampling guard (`session/sampling_guard.rs`) | when a violation was first seen | a pass every two seconds | both stores, `trading_sessions` |
| Wallet eligibility (`api/src/wallets`) | `wallets` | the check before create and attach | the mode, the exchange's balance |
| Wallets (`api/src/wallets`) | `wallets`, `live_execution_holds` | list, create, delete, acknowledge a hold | `trading_sessions`, the exchange's balances |
| Wallet registry (`engine/src/wallets.rs`) | adapters per wallet | refresh | Postgres |
| Backtests (`engine/src/backtest`, `api/src/backtests`) | `backtest_runs`, a simulated position | request, claim, replay, end flatten | the decision cycle, with its own adapter |
| Funding (`engine/src/funding`) | `funding_payments` | an hourly sweep | mock execution |
| Hyperliquid cache (`api/src/hyperliquid`) | two cached listings, a shared request each | `listPerps`, `listPerpStats` | Hyperliquid, one request per DEX |
| Authentication (`api/src/auth`) | a session token in a cookie | login, `requireAuth` | every handler |
| Read APIs (`api/src/decisions`, `trades`, `positions`, ...) | none of their own | queries | the dashboard |
| Dashboard pages (`frontend/src/app/dashboard`) | what they show, a dialog, a busy button | polls, forms, buttons | the API |
| Decision log (`components/DecisionHistoryPanel.tsx`) | a query, its answer, a request number | filter, sort, page, poll | the decisions API |
| Overview (`dashboard/page.tsx`, `lib/overview.ts`) | nine lists | derivations | nine reads |
| Price chart (`components/PriceVolumeChart.tsx`) | a period, a selected window, a drag | drag, clear, period | the samples a page polls |
| Market data, decision makers, history context, signing, retention | samples, prompts | timers, HTTP | the decision cycle |

What is hard in it, and what makes each part correct:

* **Live execution** sends orders over a network that may lose the request or
  the answer, and can be stopped between any two awaits. It keeps one *Order
  Attempt* per wallet and PERP: written before it is sent, re-sent with the
  same signature (which the exchange executes once), and discarded only when
  its outcome is proved. Correct means: no order is forgotten, no second one is
  signed behind it, closing never grows a position, a close is booked once, and
  drift between the engine's virtual position and the exchange is repaired.
* **Mock execution** relies on Postgres only, but nothing keeps a session's
  task and the reconcile loop apart. Correct means: the account of positions
  and trades balances, sessions end when asked and only when asked.
* **The control plane** is requests that read, wait and write while others do
  the same, and an engine that sees their results through copies of different
  ages. Correct means: a wallet drives one session, the engine catches up, no
  market is traded without data, and a requested close completes.
* **Backtests** are sequential; what is hard is what a query that fails, or one
  that took effect and did not answer, leaves in four tables, and that no such
  failure keeps the runs behind it waiting. Correct means: positions, trades
  and funding balance, a run ends flat, and every pending run is claimed.
* **The API** handles each request as a sequence of awaited queries, between
  which others write, and most of its handlers let a failing query reject.
  Correct means: no interleaving leaves a row that names a wallet that is gone,
  every request is answered, and no request ends the server.
* **The dashboard** polls without waiting for earlier answers, so answers arrive
  late, out of order or not at all, while buttons and forms write. Correct
  means: it ends up showing what there is, never shows an answer to another
  question than the selected one, skips no row, and gets its buttons back.
* **Overview and chart** derive figures from lists that were read at different
  moments and may be missing. Correct means: the tiles, tables and charts agree
  with each other and with the rows they stand for.

## 2. The modules

| Module | Models | Extends |
|---|---|---|
| `Exchange` | Hyperliquid as the engine uses it (external): one account and PERP, orders by client id, netting, at-most-once execution | |
| `OrderAttempt` | the attempt row, its copy in memory and every helper that touches them | `Exchange` |
| `OrderAttempt_proofs` | theorems of `OrderAttempt` | `OrderAttempt`, `TLAPS` |
| `MCOrderAttempt` | `OrderAttempt` over two networks | `OrderAttempt`, an instance of it |
| `MCOrderAttempt_proofs` | theorem of the late network | `MCOrderAttempt`, an instance of `OrderAttempt_proofs`, `TLAPS` |
| `LiveExecution` | one live wallet and PERP: sessions, tasks, reconcile loop, `open`, `close`, drift | `OrderAttempt` |
| `LiveExecution_proofs` | theorems of `LiveExecution` | `LiveExecution`, `OrderAttempt_proofs` |
| `MCLiveExecution` | drift policies and decision targets for the runs | `LiveExecution` |
| `MockTrading` | sessions of one PERP on mock wallets: tasks, reconcile loop, mock execution | |
| `Backtests` | the queue of backtest runs and the loop that replays them: decision cycles, funding sweeps, end flatten | |
| `MCSimulated` | the two simulated executions, each on its own | `MockTrading`, `Backtests` |
| `Simulated_proofs` | theorems of `MockTrading`, `Backtests` and the two together | `MCSimulated`, `TLAPS` |
| `Sessions` | the API's session requests against the engine: both documents and their watchers, poller, sampling guard | |
| `Sessions_proofs` | theorems of `Sessions` | `Sessions`, `TLAPS` |
| `MCSessions` | wallets for the runs | `Sessions` |
| `Api` | the API against its clients: every write as the queries of its handler, the reads, failures, the death of the process | |
| `Console` | the dashboard's pages over the API | `Api` |
| `Console_proofs` | theorems of `Console`, the `Api` under it and `MCConsole` | `MCConsole`, `Panels_proofs` |
| `DecisionHistory` | the decision log's panel and its query | an instance of `LatestAnswer` |
| `LatestAnswer` | abstract: what a view of a growing log promises | |
| `HyperliquidCache` | the two cached listings and their fan-out | instances of `LastGood` |
| `LastGood` | abstract: what a cached listing promises | |
| `Panels_proofs` | theorems of `DecisionHistory` and `HyperliquidCache` | `DecisionHistory`, `HyperliquidCache`, `FiniteSetTheorems`, `TLAPS` |
| `Overview` | the Overview page's derivations | |
| `PriceVolumeChart` | bars, markers, periods, the drag that zooms | |
| `Views_proofs` | theorems of `Overview` and `PriceVolumeChart`, lemmas about sums and counts | `Overview`, `PriceVolumeChart`, `FiniteSetTheorems`, `WellFoundedInduction`, `TLAPS` |
| `MCConsole` | what an operator has on the screen, one scope at a time | `Console`, `DecisionHistory`, `HyperliquidCache`, `Overview`, `PriceVolumeChart` |

### Exchange and OrderAttempt

`row` is the row of `live_order_attempts`, `mem` the entry of
`ambiguous_submissions()`; `book` and `pos` belong to the exchange, `reply` and
`late` to the network. A helper call is `call`: its procedure, its program
counter and its locals. Every action is the code between two awaits, so an
action boundary is where a crash, an abort, or a message can fall:

| Code | Actions |
|---|---|
| `place_order` | `Load`, `Sign`, `Persist`, `Remember`, then the send |
| `send_signed_order` | `Send`, `ReplyOk`, `ReplyRejected`, `TransportError` |
| `retry_ambiguous_submission` | `Reload`, then the send |
| `clear_confirmed_pending_order`, `ensure_pending_order_resolved` | `Lookup`, `Status`, the clear |
| `clear_ambiguous_submission` | `ClearMem`, `ClearRow` |
| `has_ambiguous_submission` | `Ask` |
| engine stops, task aborted | `Crash`, `Abort` |
| network, exchange | `Deliver`, `DeliverLate`, `Settle`, `OutsideStep` |

An order's terms are its side, size, reduce-only flag and the price its limit
was padded from: these are what `place_order` compares a leftover attempt with.
Prices, nonces and signatures are left out; a nonce makes two orders different,
which is the client order id here. `unknown` is a history variable: the ids that
were sent and whose outcome the engine has no proof of. `CallerStep` lets any
caller enter any helper in any order, with one guard taken from `open` (a
`clear` follows only a "no" of `has_ambiguous_submission`): the promises of this
layer do not depend on who calls it. That LiveExecution is such a caller is a
refinement: `OrderLayer` is `AttemptSpec` as a property of the composed system,
checked by `live_execution` and proved in `LiveExecution_proofs`.

`MCOrderAttempt` holds the layer twice: over a network that may drop a request
but delivers none after its call has ended, and (`Late`) over one that may, to
an exchange that may answer a duplicate with an error. They share nothing and
only one of them moves in a behaviour.

### LiveExecution

`op` is the operation that holds the PERP's claim (`execution_coordinator`):
what it was started for, the await it is in and its locals. Each step of
`open`, `close`, `apply_drift_action` and `resubmit_to_match` that calls a
helper enters it (`Await`) and resumes when it has returned (`Returned`).
`session` is the database, `store` the engine's copy, `virt` the rows of
`live_positions`, `hold` the PERP's hold, `pass` what a reconcile pass has read
before it claimed anything. A stop-loss on a live wallet is included as a close
that does not end the session, for any position; a decision is any target.

The claim of the account's leverage and margin mode, the refresh of the asset
table and the withdrawable balance before an open are left out: they only add
ways for `open` to fail, which `OperationFails` already allows at every await.
Sizes are units of a session's order size; a partial fill is any smaller one.

### MockTrading

`op[a]` is what actor `a` is doing, an actor being a session's task or the
reconcile loop: `decide`, `open`, `close` (before it reads the position),
`commit` (before its transaction) or `mark`. A transaction is one action. What
`run_decision_cycle` read before it waited for the decision maker is in the job
(`cur`), and so may be stale when it acts. `failures` is the count of the PERP,
shared by its sessions. A cycle without market data changes nothing and is a
stutter. The clamp of a size to the balance and the arithmetic of prices are
left out; an `open` may fail at any time for lack of balance.

### Sessions

A request (`req`) is the sequence of its awaited queries. `doc` is the two
documents, `copy` the engine's copies, `link` each watcher's connection and
`pending` whether the change stream still holds an event. `store` and `seen`
belong to the engine. Of trading itself only the end of a closing session is
here (`Finish`), under `resolve_execution`'s condition. A request that dies at
any await leaves what it has written.

### Backtests

One loop replays all runs, so its state is a program counter (`at`) and the
locals of `run_backtest`: the simulated clock, when the next sweep is due and
the failure count. Each action is the next query that changes something. A
write may succeed, fail, or take effect and report a failure; the failure of a
cycle that changed nothing (a decision maker, a read) is free, the others are
bounded. `opened` and `paid` are history variables. A run with an unknown
decision maker is refused by the API, so that branch of the loop is left out.

### Api and Console

`Api` is the control plane again, seen from the other side: where `Sessions` has
the engine's copies and watchers, `Api` has wallets that are created and deleted,
the foreign key of `trading_sessions`, holds, backtest requests, reads, failing
queries, lost connections and a token that expires. `call[c]` is the write a
client waits for and `at` the query its handler comes to next; each query is an
action (`Eligible`, `Balance`, `ReadConfig`, `WriteConfig`, `Insert`, ...).
`Put` is a write of a session row, where the unique index refuses with 409 and
the foreign key throws. A query that throws in a handler that is not wrapped by
`asyncHandler` is `Crash`: `up` becomes false, and nothing sets it again. Of the
engine only what changes rows a page shows is here (`Engine`, `Replay`).

`Console` puts one page of the dashboard on top. `view[r]` is what it shows of
resource `r`, `<<>>` until something arrived; `read[r]` are the requests under
way, in slots, since an interval does not wait for the answer before. `Deliver`
and `DeliverFailure` are the two halves of each page's `then` and `catch`, with
what the page falls back to; the records `MarketPage`, ... say which reads a
page polls, which it makes once, and which put an error on display. The buttons
and forms are the actions from `SamplingClick` to `ModeClick`, the answers to
them those from `PatchAnswered` to `ModeAnswered`; `stuck` says that a handler
was left by an exception, `dialog` what is open. The page has one write under
way; another client and the engine change the same rows.

### The decision log, the caches, the overview, the chart

`DecisionHistory`: a decision is its number in the log. `query` is what is
selected, `loads` are the requests by number, whose rows and whose count are
read at two moments, and the `requestId` ref lets only the last one through.
Changing a filter on a later page asks twice, because the effect that asks runs
before the one that resets the page (`AskTwice`). `Slide` is the rolling range
of a chart selection. It implements `LatestAnswer`: with the log's length as the
clock, the table shows nothing or an answer to the current question, never one
older than a previous one.

`HyperliquidCache`: `flight` is the shared request with the DEXes still open and
those that have answered, `value` the cached listing as the set of DEXes it
holds. `listPerps` needs all of them (`Promise.all`), `listPerpStats` only the
default one (`allSettled`). Each listing implements `LastGood`.

`Overview` keeps the lists of the page, each filled or emptied by its own action,
as nine independent requests do, and the functions of `lib/overview.ts` as
operators. Nothing depends on the order of a table's rows, which is left out;
events of one time stand in the feed as in the lists they came from (a stable
sort), and the performance chart is the code's one pass over its rows with a
cursor that carries the last price seen (`Walk`). `PriceVolumeChart` has the samples of a poll, the period, the window
zoomed into and the drag; bars, markers and offered periods are operators.

## 3. The runs

"Fault" bounds how many failures the environment injects: a lost request or
reply, a failed query, an acknowledgement lost after the write, a crash, an
abort. All failures of a kind are alike, so the bound is about combinations.

| Run | Question | Result |
|---|---|---|
| `order_attempt` | Is an order ever forgotten, a second one signed behind it, or one executed that the row does not name? Two ids, resting orders, two faults. And what remains if requests may outlive their call and the exchange refuses duplicates (`AnyNetwork`)? | holds |
| `live_execution` | Do the sessions, tasks and the reconcile loop use the attempt as it allows, book a close once, close without growing, open nothing while the PERP is held? The default policy, except that unknown positions halt; both directions, two faults. | holds |
| `live_repair` | Does drift end, does a hard close complete? Default policy, one fault, fair. | holds |
| `live_resubmit` | Does drift end under a policy that re-submits and halts, while others trade by hand? | holds |
| `live_pyramid` | Can an open stack on a position? | violated: finding 1 |
| `live_orphan` | Is a position without a session flattened in the end? | violated: finding 2 |
| `simulated` | Mock wallets: does the account of positions and trades balance, who ends a session, do closes complete, does the threshold flatten? Backtests: do the tables balance whatever fails, is funding paced, does a run end flat, is every pending run claimed? | holds |
| `mock_race` | Is a mock position booked once? | violated: finding 3 |
| `sessions` | Wallets, copies, sampling and closes under racing requests. | holds |
| `mode_switch` | Does a switch to mock end the sessions on live wallets? | violated: finding 4 |
| `console` | Does every row keep its wallet, does a page end up showing what there is, does every button come back? Does the log answer what is selected and skip no row, does a cache serve its last good value, do the overview's figures agree, is the chart faithful? | holds |
| `server_killed` | Can a request end the server? | violated: finding 5 |

What is checked, by property:

* Orders: `NoForgottenOrder` (an order not proved settled is in the row),
  `NothingLeftToWaitFor` (what the engine stopped waiting for cannot execute),
  `NoSecondOrder`, `WriteAhead` (only the order in the row executes),
  `MemBacked` (memory knows nothing the row does not), `OneAttempt`.
* Live: `OrderLayer`, `TradeBookedOnce`, `ClosedHasNoPosition`,
  `CloseNeverGrows`, `HeldNeverOpens`, `DriftRepaired`, `HardCloseCompletes`.
* Mock: `NothingVanishes` (a position that is gone was credited and recorded),
  `ClosedOnRequest`, `ClosesComplete`, `AutoFlattens`. Backtests: `Accounted`,
  `FundingAccount`, `FundingPaced`, `FlatWhenDue`, `QueueMoves`.
* Control plane: `WalletExclusive`, `CatchesUp`, `NoBlindTrading`,
  `HardCloseCompletes`, `WalletKept`.
* Screen: `ScreenSettles`, `ButtonComesBack`, `ShowsLatest`, `NoRowSkipped`,
  `ServesLastGood`, `OverviewAgrees`, `ChartFaithful`.

Bounds, and why they are enough:

* `MaxOrders` is a pool of client order ids, re-issued when nothing refers to
  one: two let an order be outstanding while another is signed, which is what
  the order properties are about; one suffices where the property is about
  positions, and the run is then unbounded in the number of orders. The worse
  network of `order_attempt` has one fault and positions up to 1: what it adds
  is an order that executes late, for which one fault and one unit are enough.
* `MaxSize = 2` with `Size = 1` lets an order cover twice a session's size (a
  repair of a doubled position); partial fills are then sizes 0 and 1 of 2.
* `MaxFaults`: two failures reach every case the code has a branch for (a
  failure, and one during its recovery). The liveness runs take one: after the
  last failure the system must recover by itself, which is what is asked.
* One session on a live wallet: the claim makes operations on a PERP sequential
  and the unique index gives a wallet one session, so a second session would
  only follow the first.
* `simulated`, mock wallets: `Threshold = 2` for 5: the count matters only as
  below and at the threshold. Two positions per session show that the second one
  is a fresh start. The count is the PERP's: with one session nobody else resets
  it; the safety properties are proved for any number. Backtests: two runs,
  since what a failed run leaves behind matters to the next one. Four steps of 2
  with a sweep every 3 units: the frequency does not divide the hour, and there
  is a step after the sweep. The threshold is reached, passed and left again
  within a run.
* `sessions`: three requests with two in flight at once: the third one prepares
  the state the two race on. Two sessions and one live wallet are what
  exclusiveness needs.
* `console`: a scope (`ScopeDef`) names the page that is open, which of its
  reads are followed, what another client asks meanwhile, the rows there are,
  and the writes, faults and overlapping reads. A page's reads do not look at
  each other's answers except where a scope follows both, so each is followed
  with those it depends on: sampling with the sessions the confirmation looks
  at, the wallets with the holds read after them, the backtest with its position
  and trades. Two reads of a resource at once are what overtaking needs; one
  fault is enough for every fallback, since the property is about what remains
  after the last one. The scope without a page runs three writes of two clients
  over two sessions and two wallets: two race, a third prepares or follows.
* The decision log: three rows, two of them there at first, pages of one row and
  four requests with two under way; in a second scope the range slides and
  requests fail. The caches: two callers and one DEX beside the default one.
  The overview's `Moment`s lie on both sides of the boundaries at which the
  granularity changes (six hours, two days) and of a bucket, and beyond the 14
  days that fit; two decisions or payments, two sessions with different leverage
  on two markets, three samples. The chart: three samples, one of which slides
  away; volumes that grow or fall.

TLC explores all states; no symmetry is used, because of the liveness checks.
Deadlock is not checked in the runs that say so: with all requests sent and all
faults used, a system without sessions may stop, and so may the worse network of
`order_attempt` once every id of the pool is still referred to by a late request.
Unrelated parts that share a run (`MCConsole`, `MCSimulated`, `MCOrderAttempt`)
are chosen between in the initial state, so their state spaces add up and do not
multiply.

## 4. Fairness and its justification

* Weak fairness on the steps of tasks, loops, handlers and watchers: tokio polls
  every ready task, node every ready promise, and the clients time out, so
  every await ends.
* `LiveExecution` takes strong fairness on a delivered request that is filled
  (an immediate-or-cancel order repeated for ever is not refused for ever) and
  on the reconcile loop's claims that find the PERP unclaimed.
* `ReconcileGetsIn` is an assumption inside the property, not fairness: the
  loop skips a claimed PERP (`reconcile.rs:417`) and asks again five seconds
  later. Nothing in the code stops a cycle from being under way each time; the
  property says what holds when it is not so for ever.
* `MockTrading`: a tick and a pass find market data again and again. Hard
  closes and soft closes wait without it; this is what the code does, and the
  reason it is an assumption.
* `Backtests`: weak fairness of the loop alone; requests need not arrive.
  `QueueMoves` is about the claim: after a restart, a lost claim or a failed
  `mark_status` a run stays `running` for ever, and those behind it still move.
* `Console`: intervals fire (`setInterval`), the API serves what a page polls or,
  when it is down, the browser notices (a refused connection); every write is
  handled query by query, and the browser runs the answer's continuation.
  Neither the operator, nor another client, nor the engine need ever act, and
  no failure need occur. `ScreenSettles` assumes in itself that the server
  lives, the operator stays signed in and stops changing the range.
* `HyperliquidCache`: a request to Hyperliquid answers or fails
  (`CacheFairness`); callers need not come.
* `Sessions`: the hard close of a session the engine may trade succeeds in the
  end. Neither the arrival of requests nor a soft close is fair. `Gap = FALSE`
  says that no write falls between the load of a document and the opening of
  its change stream (`mode.rs:126-129`). With `Gap = TRUE` the copy stays stale
  until the next write of the document, and `CatchesUp` and `NoBlindTrading`
  fail: the window is small and real.

## 5. The proofs

`OrderAttempt_proofs` proves, for every pool of ids, size, position limit and
number of failures:

* `TypeCorrect` (`TypeOK`) and `MemoryIsBacked` (`MemBacked`): no assumption.
* `NoOrderForgotten` (`NoForgottenOrder`): if the exchange does not refuse a
  duplicate of an executed action as an error (`DupReplies = {"empty"}`).
  Where it does, `send_signed_order` discards the attempt on the refusal
  (`live_execution.rs:1021`), and the run that allows it shows why the
  assumption is needed.
* `NothingLeft`, `NoSecondOrderIsSigned`, `WriteAheadHolds`: if moreover a
  request does not reach the exchange after its HTTP call has ended
  (`Delayed = FALSE`). A status query that does not know a delayed order proves
  nothing about it (`live_execution.rs:841`).

`MemBacked` alone is not inductive: whether memory may be written depends on
where the call is. `CallInv` says for each label what the row is (a signed but
unsaved order finds none, a carried one is the row, the row is deleted only
after memory is empty). `KnownInv` adds that the labels of a discard are reached
only with a proof of the outcome, and `QuietInv` that everything that can still
execute is unproved; each is inductive relative to the previous one.

`MCOrderAttempt_proofs` carries `OneAttemptHolds` over to the network that
delivers late and may refuse a duplicate: `OneAttemptOnAny` (`AnyNetwork`). That
network is an instance of `OrderAttempt_proofs`, whose assumptions are proved of
it; one of them becomes a hypothesis of the theorem, that nobody trades by hand a
larger position than the bound that network is given.

`Simulated_proofs` proves of mock trading, for any set of sessions, threshold and
bounds, `TypeCorrect`, `NothingVanishesHolds` and `OnlyRequestedCloses`. The invariant
(`Inv`) says of every job that it is about a session, that an open has a
direction, and that one that will mark its session closed works for a close that
was requested (`Sound`); the polled copy and the pass's list may be stale, but a
request is never taken back, so what they say of a close stays true (`CopyInv`).
`NothingVanishes` needs the direction: a row without one would count as opened
and be gone.

Of the backtests it proves, for any runs, decision frequency, funding interval,
range, threshold and number of failures, `Types`, `PositionsAccounted`,
`FundingRecordedIsPaid`, `FundingIsPaced` and `EndsFlat`. The account of
positions needs to know that an open has a direction and a close a position
(`Ready`). The pace of the funding rests on where the clock and the next sweep
stand at each await (`Paced`) and, for the start of a run, on the queue
(`Waiting`): a run in the line is there once, is pending and has paid nothing.
`EndsFlat` (`FlatWhenDue`) moreover follows which run the loop has claimed.
A behaviour of the two looked at together is a behaviour of each
(`EachOnItsOwn`), so their theorems hold of it, and `SimulatedTypes`
(`SimulatedTypeOK`) is both type invariants.

`LiveExecution_proofs` proves, for any sessions, order size, drift policy,
exchange, network and number of failures:

* `LiveTypes` (`LiveTypeOK`).
* `LayerImplemented` (`LiveSpec => OrderLayer`): the composed system implements
  the order layer. A step maps to a `CallerStep`, a helper's own step or a
  stutter. That needs three facts about the operation that holds the claim:
  between two helper calls there is no call (`Owner`), a close and a flatten
  have a position whose size an order can have (`Working`), and so has what a
  pass found on the exchange (`Listed`).
* `LiveForgetsNoOrder` and `LiveSignsNoSecondOrder`: the order layer's promises,
  for the engine as a whole, from its theorems and the refinement, under the
  conditions stated there.
* `ClosedIsFlat` (`ClosedHasNoPosition`), for a policy that does not adopt a
  mismatched position; the default one does not. Under one that does, a pass may
  find a mismatch, lose its turn to the cycle that closes the session, and then
  adopt for the closed session. The argument: the store and the pass may be
  old, but a close once asked for is never taken back (`CopyInv`), only an
  operation that works for such a close marks the session closed and it does so
  with no position left, and only a cycle, which has found its session open,
  opens one (`ClosingInv`); both hold the claim, so they exclude each other.
* `BookedOnce` (`TradeBookedOnce`), `ClosesNeverGrow` (`CloseNeverGrows`) and
  `HeldOpensNothing` (`HeldNeverOpens`), under two conditions. `Immediate`: an
  order is over when the exchange has answered for it (nothing rests or arrives
  late, a duplicate is not refused). With resting orders an acknowledged order
  settles at a moment nobody waits for. `Cautious`: the policy neither re-submits
  nor adopts mismatches. A re-submitted order is not reduce-only, and what a
  crash leaves of it is sent again by whoever comes next, a close too: with two
  faults TLC then finds a held PERP that grows. `BookedOnce` moreover wants an
  account in which nobody trades by hand (`OutsidePos \subseteq {0}`): a hand trade
  between a fill and the deletion of the virtual position is closed once more.

  They rest on what an answer says of the order it is about and on what is left of
  earlier ones. `FillInv` (`OrderAttempt_proofs`): nothing rests, an answer that
  reports an execution or none is about an order that is over, and a helper that
  ends well has settled the row's order. `WorkInv`: what a claimed PERP promises
  its operation. One that opens found no virtual position and no hold, one that
  closes has a virtual position, only an opening order is not reduce-only, and
  nothing is written of a position before its order is settled. `SessInv`: one
  session trades at a time, and one that does not exist has no position.
  `OpensInv`: while the row's order could open a position, nobody has one, so what
  a close finds and sends again is reduce-only. `BookedInv`: a close that has been
  booked still has its virtual position and nothing on the exchange.

`Sessions_proofs` proves, for any sessions, wallets, requests and number of
failures, `TypeCorrect` and `WalletsExclusive` (`WalletExclusive`): however
requests overlap, the unique index alone keeps a wallet from driving two sessions
that are not closed, since closing a session is never undone.

`Console_proofs` proves, for any pages, clients, sessions, wallets and number of
failures, `WalletsNamedExist` (`WalletKept`): no session names a wallet that is
gone. A wallet is deleted only when no row refers to it, and a row is given only
a wallet there is (the foreign key). The invariant (`KeptInv`) also needs that a
row which is not there yet has no wallet (`RowsInv`), and that an attach or detach
under way is about a session that exists, each at a query its kind of request
comes to (`CallsInv`): a late attach must not fill in a row before it is created.

It also proves `ConsoleTypes` (`ConsoleTypeOK`) and, with the theorems of
`Panels_proofs`, `ScreenTypes` (`ScreenTypeOK`): what a page shows of a resource
is one answer to one read of it. The invariant (`ScreenInv`) types what the pages
need and the type invariant does not say: the body of every read under way is one
its resource can have (`ReadsTyped`), every view is what its resource shows
(`ViewTyped`), and every call is at a query of its handler with the fields its
kind of request has (`WritesTyped`). A behaviour of the screen is one of the
console, the caches and the log (`ScreenParts`).

`Panels_proofs` proves of the decision log, for any filters, sort orders, page
sizes, bounds and overlaps, `TableShowsLatest` (`ShowsLatest`, the refinement of
`LatestAnswer`). The invariant: the request with the highest number is of the
current query, and no answer on its way is newer than the log nor, if it is
the last request's, older than what was shown before. And `PagingSkipsNothing`
(`NoRowSkipped`): a page holds the decisions with so many others above them
(`PageRead`), that number only grows while decisions arrive and leave at the
other end (`AboveGrows`), so one that was above the reader's page when he left
the first has been on a page he saw (`PassedSeen`). `HistoryTypes` is its type
invariant.

Of the read cache it proves, for any callers and DEXes, `CacheTypes` and
`CacheImplementsLastGood`: both listings implement `LastGood!Spec`, the safety
part. The invariant: a load under way has somebody waiting for it, and the value
its failure falls back to is the one there still is.

`Views_proofs` proves, for any lists, samples, trades, periods, limits and number
of buckets, `OverviewIsOneBook` (`OverviewAgrees`) and `ChartShowsWhatIs`
(`ChartFaithful`). The invariants (`OverviewInv`, `ChartInv`) only type the lists
and say that samples are in order. The properties are about sums, counts and one
recursive pass over lists of any length, hence induction over data. The library's
theorems for it take an operator as a parameter; the same is had from
`WFMin`, which gives every property that fails a least number (`LeastNumber`) or
a smallest subset of a finite set (`SmallestSubset`) at which it does. From these:
the community modules' sum of a function does not depend on the order it is
taken in (`FoldSplits`), so it splits over disjoint sets (`SumOfBoth`) and drops
what is zero (`SumOfRest`), which is `TilesAgree`; growths add up to the total
growth (`Telescope`), which is why zooming loses no volume; counts of disjoint
places add up to the count of all (`CountsAddUp`), which with the arithmetic of
the buckets (`BucketsCover`) is `FlowComplete`; the pass exists (`WalkIs`) and
after each row its cursor is behind the prices known at the row's time
(`RowPasses`), which is `PriceCarried`; an event that is in the feed has fewer
above it than one that is not (`RankOrders`), which is `FeedNewest`.

Proved from: `ASSUME`s on the constants that say no more than what they are.
TLC evaluates them in every run. Every invariant and every action property of the
runs is a theorem. Only model-checked is the liveness (`LastGood`'s included),
which with ENABLED is beyond the prover.

## 6. What the runs found

1. `live_pyramid`: `open` retries a leftover attempt and then places its own
   order without looking at the position (`live_execution.rs:1125`).
2. `live_orphan`: the branch for unknown positions does not resolve a leftover
   attempt, which refuses its flatten for ever (`live_execution.rs:1396`).
3. `mock_race`: two closes of one mock position both credit it
   (`execution.rs:470-501`); the coordinator's comment calls this sequential.
4. `mode_switch`: a switch to mock requests the hard close of live sessions and
   makes the engine refuse their wallets (`engineMode/routes.ts:65`).
5. `server_killed`: a wallet that only a closed session refers to is offered for
   deletion, the foreign key refuses, and the rejected handler ends the process,
   although "No single request [...] may be allowed to kill the server"
   (`app.ts:117-120`). Only the handlers of `perps` are wrapped.

Seen while reading or modelling, and not stated as a run:

* The README promises an auto-flatten after five failures of "any step (market
  data, decision maker, or execution)". Failures of the market data are logged
  and not counted (`supervisor.rs:204`).
* `close` answers Ok when there is no virtual position, whatever the exchange
  holds (`live_execution.rs:1196`); a hard close then ends the session and what
  is left belongs to the unknown-position branch.
* Reconcile reads the list of unknown positions before it claims each PERP
  (`live_execution.rs:1379`) and acts on what it read.
* A re-submit that must turn a position flattens it first; the order that should
  follow meets that flatten's own marker and is made by the next pass.
* Under a policy that re-submits, the order a repair leaves behind after a crash
  is not reduce-only, and a hard close that finds it sends it once more
  (`live_execution.rs:1196`, `retry_ambiguous_submission`), held PERP or not;
  `CloseNeverGrows` and `HeldNeverOpens` are about the other policies.
* A session created on a live wallet while the mode is switched to mock can miss
  the list of those to close. It idles until the mode is live again.
* Backtest funding is "on an hourly simulated cadence" (`backtest/runner.rs:87`):
  the next sweep is due an hour after the step that made the last one, so with
  a frequency that does not divide the hour it comes later each time, and with
  one longer than an hour a step pays for one hour only. `FundingPaced` is the
  half that holds: never more often.
* The loop "runs each to completion" (`backtest/runner.rs:254`), but nothing
  takes up a run that a restart, a lost claim or a failed `mark_status` left
  `running`.
* The end flatten is there "so the run's final balance reflects fully realized
  P&L" (`backtest/runner.rs:160-161`); when it fails the run is `completed` all the
  same, with its position open.
* A task aborted after `decide` read "no position" may race a close by the
  reconcile loop; a mock position opened then survives its session's end.

On the dashboard and in the API:

* Turning sampling off asks for confirmation only if the page happens to show
  open sessions (`markets/[symbol]/page.tsx:328`): before they were read, after
  their read failed or when one was created since, it does not ask
  (`DisableSamplingConfirm.tsx:7` describes the question).
* A button whose `fetch` rejects stays busy until the page is left
  (`sessions/[sessionId]/page.tsx:200`); `ButtonComesBack` excludes that case.
* `createTradingSession` attaches the wallet, and the form attaches it again;
  what the second answers is ignored (`markets/[symbol]/page.tsx:1146`). Creating
  is not idempotent: after a lost answer the operator may create twice
  (`trading-sessions/routes.ts:63`), and a create that is refused late leaves
  sampling switched on (`routes.ts:123`).
* "No wallet" is overruled by the effect that selects the first wallet
  (`markets/[symbol]/page.tsx:1044`).
* The settings of a session are read, merged and written back
  (`trading-sessions/repository.ts:268`); two editors may lose one's change.
* The list of markets is patched optimistically and is not corrected after a
  refusal (`markets/page.tsx:128`).
* The positions page shows one position per market, while there may be one per
  session (`decisions/page.tsx:317`), and does not drop the answer to an earlier
  filter (`decisions/page.tsx:215`).
* With ascending order the rows a rolling range leaves behind shift the pages
  (`DecisionHistoryPanel.tsx:178`); `NoRowSkipped` is about the newest first.
* The overview's price histories are read once (`dashboard/page.tsx:263`).
* A failed read of a backtest is shown as "not found" (`backtests` page, line 78).
* A stats listing that lacks a DEX is cached like a complete one
  (`hyperliquid/client.ts:189`).
* A drag survives a chart that is unmounted for lack of samples
  (`PriceVolumeChart.tsx:319`).
* The grace of the sampling guard is also what a slow change stream must fit in
  (`sampling_guard.rs:17`); a soft close waits for market data
  (`supervisor.rs:225`).

## 7. Not modelled, and why

* **Wallet registry of the engine** (`wallets.rs`): every five seconds it re-reads
  a table and keeps an adapter per wallet. An adapter that is rebuilt reloads its
  leftover attempts, which is what the crash in `OrderAttempt` already does; the
  models otherwise take a wallet as known.
* **Market data sampling and retention**: inserts and deletes on timers. Whether
  data is there is a choice of the environment in the models that trade.
* **Decision makers, prompt context, history**: HTTP calls and text. A decision is
  any direction, or a failure.
* **Signing and request encoding**: pure, and checked against the exchange's own
  vectors by the repository's tests.
* **The engine's own funding timer** over mock wallets: the sweep is in
  `Backtests`. Around it is one loop that runs it at every start, so a restart
  within the hour charges twice, and no document promises otherwise.
* **Logging in, wizards' validation, editing a session's settings, rendering**: no
  step of theirs depends on another's. Reads of trades, positions, funding and
  health are the same single query as those of `Api` and change nothing.
* **Migrations, build and deployment**: only the constraints and the restart policy
  appear, in the modules that rely on them.
* **Live execution**: the claim of leverage and margin mode, the refresh of the
  asset table and the withdrawable balance, as said above. Two wallets with
  sessions that move between them would take `LiveExecution` twice over
  `Sessions`; one wallet under two failures is already most of what TLC finishes.

What is left to do, the most valuable first: positions in `Sessions` (or an
abstract `LiveExecution` there), for the hazards of a wallet detached under a
position; the engine's
funding timer next to `MockTrading`.
