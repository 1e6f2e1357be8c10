# QuantInSight (ArQuant) in TLA+

QuantInSight trades Korean and US stocks for several users with a swarm of LLM
agents. One Python process serves the dashboard (FastAPI) and runs, for each
user, an asyncio trading loop; the broker is KIS, reached over REST. What the
models answer is unpredictable, so everything that protects the money is in the
deterministic code around them. This directory specifies that code, checks it
with TLC and proves part of it with TLAPS.

The hard part is that *the program is never told what happened*: not that an
order was executed (it re-reads its holdings), not that a task it cancelled has
ended, not that a token died or that the account moved while it was being read.
Most modules are about a place where the code draws a conclusion all the same.

## 1. Inventory

| Component | State | Operations | Interacts with |
|---|---|---|---|
| Trading loop (`main_swarm.py`, `start_continuous`) | `_stop_event`, `_last_session`, hour anchor, verdicts on holidays | rounds every few minutes; a cycle at the hour or an opening; alerts at a close | broker, dashboards, cycle |
| Analysis cycle (`_run_analysis_cycle`, `_cyc_stage_*`) | a `cyc` record: holdings, candidates, drafts, verdicts | collect, macro, select, quant, sleeves, finalize, build, risk, execute, report | agents, broker, gates |
| Gates and sizing (`agents/guardrails.py`, `tools/affordable_prefilter.py`, `_build_orders` and the clamps of `main_swarm.py`) | none, but the running budget of a check | quantities, caps, budget | cycle |
| Asset sleeves (`infra/asset_sleeves.py`) | none (pure) | allocation, budgets, the order of execution | cycle |
| Order execution (`_cyc_stage_execute`, `_poll_fills_until_confirmed`) | locals of each task: baseline holdings, rounds | place, confirm, poll, book | broker, ledger |
| Ledger (`infra/trade_ledger.py`) | `ledger.json` | `apply_fill`, `seed`, `reset`, `ensure_value`, `mark_to_market` | polls, equity poller, reseed request |
| Market intelligence (`infra/market_intel.py`, `tools/news_monitor.py`, the macro cache) | one result per kind and hour; a process-wide cache; each loop's pool of news | publish, peek, wait, crawl | the cycles of all users |
| Broker client (`infra/kis_broker.py`) | token in memory and on disk; snapshots of the account in memory and on disk | requests with one repair and some repeats; sells that replace standing ones; account reads | KIS, everyone |
| Operations policy (`infra/ops_*.py`, `weekly_*.py`, `policy_approval_inbox.py`, `profile_overrides.py`) | `overrides.json`, `policy_pending.json`, `weekly_deferred.json` | worker processes propose; the owner approves; Saturdays review | runtime parameters |
| Standing directives (`infra/standing_directives.py`) | a list per user, the tombstones of all | add, judge, remove, seed at boot | accounts, prompts |
| Accounts (`infra/auth_store.py`, `server/app.py`) | SQLite rows, login sessions, the Fernet key | register, log in, change, recover, delete, boot | requests |
| User sessions (`server/app.py`, `infra/user_context.py`) | registry of contexts, `ctx.task`, `.running` markers | start, stop, credentials, delete, resume at boot | loop, accounts |
| Runtime parameters (`runtime.py`, `infra/admin_config.py`) | overrides, profile | lookups | everyone |
| Dashboards and the Android app | WebSocket connections | send, relay notifications | loop |
| Crawlers, indicators, agents, history tables, backtest | caches, logs | network, LLM and database calls | cycle |

What is hard about them, and what would make them right:

* **Execution.** Several tasks look at one account with baselines of different
  age, while the exchange fills, the day ends, the owner trades and the process
  may die. Right: what is booked was executed, once, for that quantity; every
  accepted order is decided.
* **Lifecycle.** Requests, the boot and tasks that may not hear a cancellation
  all move the same context. Right: the loop the server knows uses the keys
  saved last and is resumed exactly if it was not stopped; a stop winds
  everything down.
* **Ledger.** Seeds are long, entries short, and both write the whole file.
  Right: the ledger is the account after what its seed read and every fill since.
* **Trigger.** An hour anchor and an opening edge, set and consumed on different
  paths around long awaits. Right: one cycle an hour, one at an opening, no hour
  forgotten, and a close is alerted, once.
* **Cycle.** Ten awaited stages share locals while the clock and the account move
  on, and a read of the account may be cut, stale or empty. Right: the stages agree
  with each other about what may be spent and who sells what.
* **Gates.** Drafts and checks compute limits separately. Right: they agree, and
  the drafts of a cycle together respect the budget.
* **Shared intelligence.** One producer, waiters with a time-out, two caches that
  feed each other. Right: nobody uses another hour's answer, nobody waits twice.
* **Broker calls.** Coroutines share a rate-limited token that KIS may drop. Right:
  a dead token heals, an order is never sent twice.
* **Account reads.** Failed and empty answers look alike. Right: what is held does
  not vanish, what is sold does not linger, the curve does not fall by a glitch.
* **Operations policy.** Processes write whole files with no lock, and a write that
  fails is swallowed. Right: nobody decides what is not his, and a deferred
  proposal reaches its review.
* **Accounts.** Requests wait for the broker between reading and writing a row;
  deaths and swallowed failures fall between two writes. Right: sessions, rights and keys belong
  together.

`PROJECT.json` lists the hazards at their lines.

## 2. Modules

| Module | What it is | Composed from |
|---|---|---|
| `FillBooking` | what execution promises: executed once, entered once, the same number, in this order | |
| `OrderFlow` | execution stage, fill polls and the account | implements `FillBooking` |
| `TradeLedger` | the ledger under seeds, reseeds, the poller, entries and crashes | |
| `SessionLifecycle` | one user's context, loop, leftover tasks, marker and requests | |
| `CycleTrigger` | when the loops run a cycle | extends `MarketSessions` |
| `MarketSessions` | the names of the sessions and their kinds | |
| `Lists` | what a list comprehension leaves | |
| `AssetSleeves` | the arithmetic of the sleeves | extends `MarketSessions`, `Lists` |
| `OrderGates` | sizing, clamps, and the risk officer's checks | extends `AssetSleeves` |
| `AnalysisCycle` | the stages of a cycle | extends `OrderGates` |
| `MarketIntel` | the shared news and macro reports | |
| `BrokerCalls` | tokens, repairs, repeats, sells | |
| `AccountReads` | snapshots, their caches, the curve | |
| `OpsPolicy` | workers, files, approvals, the weekly review | |
| `StandingDirectives` | directives and tombstones | |
| `Accounts` | rows, sessions, key, requests, boot | extends `StandingDirectives` |
| `OrderFlowProofs`, `TradeLedgerProofs`, `TradingLoopProofs`, `UserSessionsProofs`, `OpsPolicyProofs`, `AccountsProofs`, `BrokerClientProofs` | the theorems | the modules they are about |
| `SumsAndLists` | lemmas about finite sums, recursion and lists | extends `Lists` |
| `MC*` | constants for TLC | |

Type invariants: `TypeOK` is a theorem of `OrderFlow`, `SessionLifecycle`,
`OpsPolicy`, `TradeLedger`, `MarketIntel`, `CycleTrigger`, `BrokerCalls`,
`AccountReads` and `AnalysisCycle`; the types of `Accounts` are part of the
invariants proved of it. None is an invariant of a run but `OrderFlow`'s, as a
check on the theorem's reading.

### OrderFlow

`task[o]` is where order `o` is and what the task that carries it remembers: the
baseline (`before_qty`) and the rounds of its poll. Places are the awaits of the
code, since that is where the event loop switches:

| Places | Code |
|---|---|
| `queued`, `accepted` | `_cyc_stage_execute`, before and after `place_order` |
| `confirming` | the two seconds before the first re-read of a KR order |
| `polling`, `asleep`, `sawMove`, `sawNone` | `_poll_fills_until_confirmed`: loop head, the five minutes, the verdict |
| `booked` ... `lost` | how it ended, as far as the program knows |

The account (`held`, `live`, `filled`, `sent`) belongs to the exchange; `ledger`
is the quantity part of `ledger.json`. `Submit` has the outcomes the code
cannot tell apart: refused, and accepted with the answer lost. `Reads` loses rows
of tickers that are not private. Both together make the program's conclusions
fallible; the module says where they are not.

A ticker is **private** if the owner does not trade it by hand and its row is
never lost, and **quiet** if besides its orders come one at a time and fill
whole. Outside quiet tickers the promises fail, and `order_overlap` shows the
plainest case. The code does not enforce quietness: it is the assumption under
which its books are right, and the reason the properties name it.

Left out: prices and money (in `TradeLedger`), the counters and messages, buy
theses, the limits of a cycle (in `AnalysisCycle`). A poll's orders share its
reads and rounds; in the model each runs the loop by itself, which allows every
interleaving the shared loop has. The branch of the execution stage that hands
an order to `_entry_watch_task` is dead: `guardrails.py` (about line 183) builds
the approved order without `entry_watch_pct`, so no order carries one.

### SessionLifecycle

`ctxUp`, `ctxAccount`, `ctxSwarm`, `ctxTask` are `REGISTRY`'s entry and its
`creds`, `_swarm`, `task`; `swarm[g]` an orchestrator's `_stop_event` and the
keys of its broker; `task[t]` an asyncio task. A handler has no await between its
first and last access to this state, so each is one step; the awaits before that
(validation of keys) leave it as it is. Tasks of a swarm refer to it even after
the context dropped it, which is the point.

A task hears a cancellation at its await, unless the await is a dashboard's
socket: `_broadcast` (`main_swarm.py:1062-1063`) and `WS.send_to_uid`
(`server/app.py:257`) catch everything. That await is the place `emit`, and
`Cancelled` what a stop makes of it.

`UpdateCredentials` stops only a loop that runs. A loop that died leaves its
marker, and its swarm's flag unset, behind; so `MarkerIsOfAStart` and
`KnownLoopIsCurrent` are worded as they are.

### TradeLedger

A read of the account is a set of executed fills; the seed's two reads (holdings
first, dollars later) are `shares` and `usdRead`. `seed` may miss prices
(`priced`) and the dollars (`usdKnown`). Entries are single steps: `load`,
change and `save` have no await between them; a `save` that fails is swallowed and
leaves the old file, the new one or none (`EntryUnsaved`, `SeederFails`).

What the file ought to be is kept beside it, as history: what the seed of the
present file read (`seed`), the fills entered in it since (`late`), and those that
were entered but are in neither (`missed`: skipped for want of a ledger while a seed
was under way, saved over by it, or not written). `BookIsTheAccount` compares the
file with the account itself: after the seed's reads and every fill ever entered,
each once. It excepts the tickers with a fill that met a seed half-way (`Apart`):
one is entered twice when the snapshot already showed it, and lost when it did not
(section 5). Average costs, the currency's
rate, the T+2 rule of the pending dollars and the price sources of mock accounts
are abstracted: a seed gets the true money or, for dollars, none. Money is in
thousandths, so the 0.3% fee is whole.

### CycleTrigger

The clock is the minute of the day; `session` is `SCHEDULE`'s first window. A
loop is `off`, `asleep` (`NEWS_CHECK_INTERVAL`), in the pause after a `failed`
round, in its `crawl`, at the `gate` (the awaits of `_verify_market_open` and of the
balance that precede a cycle) or in its `cycle`. `anchor` is the hour and session it
remembers and the minute `_last_cycle_at`. A round reads the session and sends a
close's alert before the crawl, reads the hour after it, and asks the broker last,
so that the three may be of different sides of a boundary; `loop[u].session` is what
it read. `BlockedAtOnce` has the gates without an await, among them the five minutes
since the last cycle, the last skip or the start. What the broker answers (`Sights`),
an exception at the crawl or a gate (`RoundFails`), a stop and a `.force_first_cycle`
marker are choices. The verdict on a holiday is the process's, so one loop's answer
reaches the other. The dashboard admits an interval of any length (`admin_config.py`),
and so does the model.

### MarketIntel

A cycle's calls of `_shared_or_compute` go one after the other (`Wants`). The
administrator computes and publishes under the hour it asked in; others wait
(`Received`) until `WaitTimesOut`, which sets `absent`, and compute themselves.
The macro report has a birth date that follows it from the store to the process's
cache and back into other cycles. The clock is in parts of an hour, and the
producer's wait shorter than a part; a waiter may see the hour turn.

### AssetSleeves, OrderGates, AnalysisCycle

Pure functions are operators in the code's arithmetic (percentages, whole shares,
integer division), and the cycle calls them where the code does. One action per
stage, because the stages' only other actor is the world: the clock (`Clock`)
moves between any two of them, and every read of the account is a choice of its
own (`Snapshots`): the account as it is, the pages a read got before it was cut,
the list or the sums of an account before, or nothing, and the US part or none.
What an agent answers is any answer its
parser lets through: picks, directives, vetoes, weights, tilts. Quotes may be
missing per ticker, the extended market may refuse a code.

`cyc` holds the stage's locals; one that no later stage reads is set back. The
execution list is worked off one order at a time (`HoldBack`, `NxtRefuses`,
`Sent`, `Fills`), with the sellable clamp and the routing by the session of the
moment. What follows an accepted order is `OrderFlow`'s.

Prices are constant during a cycle, fees and exchange rates left out; the
configuration is the default one with `LIVE_TRADING` on and `CHEAP_FALLBACK`
off. The ratios are any numbers: the dashboard admits a cycle's share and a cash
buffer which together exceed the cash (`config.py:381-386`), and there the buffer is
the one limit that may turn a sized draft down (`AsSized`). Volatility weights of `position_sizing.py` are a
choice of tilts.

### BrokerCalls

A coroutine's call is where it is (`issue`, `granted`, `ask`, `told`), its token,
whether its first answer was heard (which spends the one repair), and its repeats.
KIS serves when it likes: it honours a token or not, limits, refuses, or answers
and the answer is lost. A sell is `kr_sell`: look up standing sells
(`kr_pending_orders`), cancel them, order. `TokenArrives` overwrites memory and
disk with whatever token came, as `token` does after its await. What the code
asks of the time is how near each token is to its expiry, so that is the clock.

### AccountReads

A reader starts with the snapshot it finds, KIS answers, the answer is merged:
three moments, between which other readers do the same. Lists are sets of stocks;
a failed read may have come through its first page, an empty one may be a glitch
that the total belies. The equity poller goes on to the US list, its value and
the point on the curve, unless the last is not a minute old. A rate of exchange
under 500 drops the US part, now and in the cache (`Dropped`). `clean`, `known` and `usKnown` are history: a good read
of nothing, of something, of a US value, with no other read under way.

### OpsPolicy

Each worker and the server is a process; a file's read and its write are two
steps, so updates get lost and a read may be torn (`mixed` says whose). A write that fails is swallowed everywhere: the queue and the
marker are then as they were (`Saved`, `CycleMarked`), files written in place may be
left empty (`Written`), and `unmarked` counts the reviews started without their
marker. A value is
the worker that proposed it, which is what licences are about; clamps and
coercion keep it. The LLM proposes any set of parameters (`Proposals`). The
scheduler's `trigger_if_due` is four steps, since the worker process runs beside
it and the server may die between them. Policy and structural parameters are
`OPS_PROTECTED_KEYS` and `STRATEGY_WEEKLY_TIER_KEYS`.

### Accounts, StandingDirectives

A request is one step up to its next await: `register`, `credentials` and the
two deletions have one, the broker's validation or the stop of a loop. Of the
credentials the two validated parts are kept. A row carries, as history, the
pair the broker accepted last for it. The key comes from the environment (`given`),
the file, or is made where the users' count says there are none; a count that fails
says so too (`blind`), and `astray` remembers that this, or an environment with
another key, has happened. `cut` says where a death of the server
ends a request that writes twice. Boot (`AuthBootstrap`) sweeps the rights,
migrates rows of older versions, seeds from the environment and seeds the
administrator's directive; a store without its key is left as it is. Deadlines
of sessions are `LookupExpired`, since nothing else looks at them.

The directives are a sequence per user and the marks of removals, written in
place, list first. Either write may fail unnoticed (`Written`): the file is then the
new one, the old one or torn. `withdrawn` has the removals that were answered and
are in both files; `RemovedStaysRemoved` says what these are good for.

## 3. Runs

| Run | Question | Instance |
|---|---|---|
| `order_flow` | do the books of a quiet ticker follow the exchange and implement `FillBooking`; is every accepted order decided, every fill in a poll's sleep booked? | a quiet KR ticker of which 2 are held and 1 is sold, a US buy of 2 whose reads may fail, perhaps in parts; 2 poll rounds; a day of three sessions that repeats |
| `order_overlap` | are only executed orders counted? **No** | two buys of one private ticker |
| `lifecycle` | is the known loop current, the marker true, and does a stopped swarm wind down? | 2 key sets, 2 swarms, 3 tasks |
| `ledger` | is the ledger the account after its seed and its entries; does it come back? | a KR ticker: a buy whose price the caller cannot tell and a sale of all there is; a US buy; the poller and one reseed; writes that fail |
| `trigger` | one cycle an hour, none forgotten, no close passed over? | two users from 15:24 to 16:08 in steps of 4 minutes, over the close in Seoul and the opening of the after-market, which only one may trade; sleeps and cycles of 8 minutes; a trading day, a day no bar is seen of, or a weekend; 2 mishaps |
| `close_alert` | is a close alerted once? **No** | the same |
| `cycle` | do the stages agree on budget and sales? | one cycle; a cheap and a dear KR stock, a KR bond fund (the sleeve), a US stock; two of the cheap and of the fund held, or two of the US; every read whole, cut, stale or failed; it may begin in the regular session, the after-market or the US session, and meet the next ones |
| `market_intel` | is an answer of this hour, a macro report recent, a wait not repeated? | administrator and member over two hours in two parts each, one article, one opening |
| `broker_calls` | one order per sell, a dead token healed? | one reader, one seller, three tokens, one standing sell, one repeat |
| `account_reads` | does what is held stay, what is sold go, the curve keep the US part? | the poller and a fill check, one stock, one trade |
| `ops_policy` | who decided an override, and what gets lost? | a parameter of each kind, two workers, a weekday and its Saturday, one death of the server, writes that fail |
| `accounts` | do sessions, keys, rights and directives stay right? | two alike clients, two names (the administrator's and the environment's), three requests, two deaths, two keys, writes that fail |

**Bounds.** Two poll rounds (36 in the code) reach the first, the last and the
exhausted round. Three sessions are an open, a review and a closed phase for KR
and both phases for the US. Three tasks are a loop, what a former start left and
a task it spawned; two swarms are the context's and a dropped one; when all
tasks are in use a start waits in the model, which bounds, not forbids, a
behaviour. The sale in `Ledger.cfg`
takes what was held and what is bought, so it exceeds what a ledger lists that was
seeded in between, and the floor and the rollback are reached. The trigger's window
holds an end without a successor, a session that is no market, an opening, and an
hour in mid-session; a step of 4 minutes is under the five of the guard, and two of
them over it; a sleep or a cycle of 8 may lie across each boundary. Two mishaps are
a stop and a failed round in either order. In `cycle`, prices, cash (100) and
ratios are such that a share of the dear stock costs more than its budget and
less than the cash, the cycle's budget fits one dear share and a cheap one, not
more, and a sleeve may be under its target, over it, or have none.
Three tokens are one that dies, its reissue, and a second caller's. Two workers
are enough for a lost update and for an approval that meets a newer proposal.
With two stocks, of which one is on the first page and the other worth little,
`account_reads` has 16 million states and holds as well; its configuration keeps
to the smaller instance. Three requests are a registration, a change
and a deletion that overlap it. The theorems have none of these bounds.

**Deadlock** is checked where the system never stops (`order_flow`, `lifecycle`,
`ledger`). In the other runs the clock, the requests, the cycles, the tokens or
the workers are bounded, so a behaviour may reach its end.

**Fairness.** The event loop runs whatever can run, so steps whose timer or
answer comes by itself are weakly fair: the cycle's task, confirmations and
polls in `OrderFlow`; tasks' looks at the flag and ends of awaits in
`SessionLifecycle`. A round may pass any number of awaits, each bounded by a
time-out and finitely many, so its end is strongly fair. The poller's read is
answered again and again, not always, which makes its seed strongly fair. The
world, requests, crashes and failures have no fairness. The other modules state
safety only: what must happen there depends on KIS, a model or the owner.

**A violation** is a disagreement of the code with its own words.
`order_overlap`: one fill confirms two orders (`tests/test_poll_fills.py:69`: an
unfilled order must not be counted). `close_alert`: the alert is sent at the head
of a round, and the session is remembered at its end (3448); when the crawl (3368)
or a gate throws in between, the next round alerts the close again, though
`main_swarm.py:2138` says nothing is sent twice.

## 4. Proofs

Every safety property that a passing run checks, and every action property, is
also a theorem: it holds for every value of the constants that satisfies the
modules' `ASSUME`, for any number of orders, tickers, users, tasks, swarms,
tokens, reads, workers and cycles. Few of these properties are inductive; what
follows says what had to be added, since that is why the code is right.

**Execution** (`OrderFlowProofs`).

* `TypeCorrect`: a baseline is a natural number although a holding is read from
  the account.
* `QuietBookingsCorrect`: that a booking is a fill depends on what was true when
  the order was drafted. `QuietInv` adds the missing history: as long as an
  undecided order of a quiet ticker exists, no other may move its holding, so the
  holding is the baseline plus or minus what the order itself filled; hence a move
  in its direction is its fill.
* `Refinement` maps each step to `Execute`, `Enter` or a stutter of `FillBooking`.
* `QuietBooksExact`: the entries of a quiet ticker sum up to the fills. `apply_fill`
  cuts a position off at zero, so the sum is right only if the floor is never
  reached: `BookInv` adds that the position covers every sale that may still be
  booked. It needs finitely many orders (`FiniteOrders`).

**Ledger** (`TradeLedgerProofs`).

* `LedgerIsTheAccount`: the file and the exchange meet in two places only, the
  seed's reads, so the invariant (`LedgerIInv`) goes by the fills the file has taken
  in since: every position is the account after the seed's fills and those
  (`Explained`), no fill the account could not cover is behind it, and what is listed
  has a last price, so that no sale is turned down for want of one. That these are
  all the fills ever entered follows in the end: one that is neither shown nor taken
  in is in `missed`, also while a seed is under way (`unseen`). It needs the sums of
  `SumsAndLists`, since the two sets of fills are disjoint only for the tickers that
  `Apart` names.
* `EntriesKeepWorth`: for all positions, prices and fees.

**The trading loop** (`TradingLoopProofs`).

* `HoursRunOnce`, `HoursGetServed`, `ClosesGetAlerted` from `TriggerInv`, which is
  local to a user: what a loop remembers is not of the future, and the hour of its
  last cycle is the one it remembers or a forced start's (`HourKept`); a sleep fits
  between the round that began it and now (`SleepFits`); and a round that has read a
  session after the close of a market it has seen trade has alerted that close
  (`CloseKept`), for the round reads once, alerts by what it read, and remembers
  that. No interval, crawl or cycle is bounded for it.

**The cycle** (`TradingLoopProofs`).

* `BudgetHolds` is about what is sent. The gate's own sum (`BudgetInv`) is only its
  first part: the rest is that filters, clamps, the limit on trades, the order of
  execution and the sellable clamp only take away, so that what is sent and what is
  still queued cost no more than what the gate has counted.
* `RefusedOnce`: a code the extended market refused is blocked from then on, over
  all cycles (`LearnedInv`).
* `SizedDraftPasses` is about the operators alone: a quantity the sizing grants
  breaks no limit of the gate that the sizing knows, for all prices, ratios, cash and
  earlier spending (`AsSized`). The cash buffer it does not know: a draft keeps it
  where a cycle's share of the cash leaves it (`CycleRatio * Buffer <= 10000`, as by
  default), and where the dashboard's values do not (`config.py:381-386`), the gate
  may reject a draft that the sizing has cut to the budget.
* `CycleInv` carries what the draft stage knows through the gate to the end of the
  execution, and the cycle's properties follow from it. `SizingAgrees`: the sizing has
  counted, order by order, what it spent on the earlier ones; filters and clamps
  only take away, so there is a pace (`Paced`) at which the gate, which has spent
  no more at any order, finds each within its limits (`Gated`). `OneTrackOnlySells`:
  the stocks' sales and the sleeves' are each of distinct tickers, and of disjoint
  ones while a stock is held (`Apart`, `Selling`). `PlannedGetsTried`: nothing final is lost between
  the approved list, the execution list and what was dealt with, and sales lead
  (`Executing`). `SkippedBuysNone`: a cycle that may not buy has no candidates at
  any stage, and so no targets (`Blanks`, `SkipKept`). The order lists come out of
  recursive functions (`Among`, `Purchases`); the lemmas say what these return, for
  every list.

**User sessions and what they share** (`UserSessionsProofs`).

* `KnownLoopCurrent` speaks of a loop that runs; the invariant must speak of one
  that has not begun too (`NewIsKnown`: it is the context's, so it cannot begin in
  a context that was dropped or re-keyed), and of the context's keys and swarm
  (`ContextIsOfRow`). `MarkerCorrect` is part of the same invariant.
* `NewsOfTheHour`, `MacroRecent`, `AbsenceOfThisCycle` from `IntelInv`: a call under
  way asks for an hour no earlier than its cycle's, and one that waits is over
  before the hour after it is; a published report was made in the hour it is
  published under, or later, and the cached one was no older than an hour when it
  was cached. A report that is received after a wait across the hour may be
  exactly an hour old, so the bound needs a cache that lives at all
  (`MacroTTL >= 1`; 30 minutes in the code).

**Broker client** (`BrokerClientProofs`).

* `SellOrdersOnce`, `DeadTokensAreHealed` from `CallsInv`: what a call's place says
  of its token and answer; a call that has spent its repair on the token alone has
  one KIS honours, or honoured when the call got it (`RepairSpent`).
  `LoneSellIsNotBlocked` adds what a lone seller knows of the standing sells.
* `GhostsStayGone`, `HoldingsSurvive`, `CurveCountsUs` from `ReadsInv`: what the
  caches hold fits what undisturbed reads have shown, and what a read under way
  may still bring back does too.

**Operations policy** (`OpsPolicyProofs`).

* `OverridesAreLicensed`: `Licensed` speaks of the file of overrides, but its values
  come out of memories, the inbox and the deferred items, so `LicenceInv` says of
  each of these that what it holds has its licence. A licence is a worker's
  trigger and what it was told; that these never change for a value that exists
  needs `UnbornKnowNothing`: a start gives a trigger only to a worker no file
  refers to yet. What the inbox holds was filed by an informed worker on a Saturday,
  and the owner's approval makes it a licence. `ProposalsAreOwn` follows.
* `DeferredReachesReview`: a deferred item is given to a worker, or it is in the
  queue and in the memory of whoever is about to write the queue (`DeferralInv`).
* `OneReviewAWeek` counts: until this week's marker is written or about to be, every
  reviewer of the week is one whose marker was not, by a death or a write that
  failed; afterwards there is one more at most (`WeekInv`).

**Accounts** (`AccountsProofs`).

* Four properties from `AccountInv`. `KeysAgree` behind `RowsReadable`: the process,
  the file and every row have the key made last, since one is made only while
  there is no row - or on a failed count, after which (`astray`) nothing is promised. `RequestsAgree` behind `KeysWereValidated`: the pair asked of the
  broker in a change that no other crossed is what the row would become if it
  were accepted now. `IdsAreFresh` behind `AdminIsSole`: a new row takes nobody's
  id, so it inherits no rights.
* `RemovedStays` (`DirectivesInv`): lists have no doubles, so that one removal removes; what
  was withdrawn is marked and not being judged, for no failed write takes back a mark
  without tearing the file.

**Sums and lists** (`SumsAndLists`). The library's induction theorems take an
operator, which the provers cannot instantiate. Induction is a least
counterexample instead: a nonempty set of subsets of a finite set has a minimal
member. From it follow what a sum over a set does when a member is added, taken
away or changed, and that a function recursive over `0..n` exists, hence what
`Among` leaves of a list.

Some definitions have the form the proofs ask for: filters are `Among`, and the
targets of a draft are gone through by a recursive function, since nothing can be
proved of `SelectSeq` and of folds over sequences; alternatives that are tried one
after the other are an `IF`, since a `CASE` whose arms overlap picks any of them.

Only model-checked: the liveness properties (`AcceptedIsDecided`,
`SleepingFillIsBooked`, `StoppedSwarmWindsDown`, `LedgerComesBack`), since proofs
under fairness are out of the prover's reach.

## 5. Behaviours worth knowing

What the models showed that is no contradiction to the code's own words, or has no
line to be held against; the properties are worded so as to allow it.

*Loop.* A stop that meets a loop inside a dashboard's socket is swallowed
(`main_swarm.py:1062`, `server/app.py:257`); the next start clears the flag and
two loops trade. Such a loop may order for a user who was deleted meanwhile. A
close within a long cycle is not alerted, since the session is read afresh at its
end (3438-3448). Any skip at a gate takes the hour for served, the five-minute guard
(3397) after a start late in the hour before included.

*Cycle.* Sleeve orders are not filtered by session, and the session is checked at
the draft, not at the send. A stock that is missing from a cut, carried or stale
list is bought again, though "Skip names already held" (2181). Execution clamps sales and sleeve purchases to
`MAX_ORDER_QTY` (about 4748 and 4759), though the docstring of the earlier
clamp says sales are not limited. When only sleeves are held, both tracks may
sell one holding (2196), which `OneTrackSells` excludes. The one-share exception
drafts orders the gate then rejects, and reads `MIN_CASH_BUFFER` of the process,
not of the user (1381). Purchases of stocks and sleeves together may exceed the
cash; with no cash reading the sleeves' budget and the gate are uncapped. A
sleeve's code that is named as a candidate is sized as a stock and then measured
by the sleeve's limit, which `SizingAgreesWithGate` excludes. Names
seeded from the news bypass the list of codes the extended market refused
(3851-3860). A failed read of the holdings closes their history
(`cycle_store.py:213`). A sale of a "0주" directive sells one share.

*Ledger.* A fill in the seed's snapshot that is confirmed afterwards is entered
again (`trade_ledger.py:133`). One that executes after the seed's read and is
confirmed before its save is lost, skipped or written over (381), though
`trade_ledger.py:126-127` takes the snapshot to show every fill it skips. A failed
write of an entry is swallowed (80-86).

*Broker.* Only the first answer of a request is looked at for an expired token:
one that was rate-limited first is not healed, nor is the lookup of standing
sells, which swallows the refusal. A reissue is refused while another caller's
fresh token is at hand, and an older grant that arrives late overwrites a newer
one. `_raw_balance` and the orders do not pace themselves. The price for the
extended market falls back to the regular one's.

*Account reads.* A read cut after its first page overwrites the last good list on
disk; a list that failed and a value of zero together make the US part look
sold; the list carried forward in memory has no age limit; an answer asked
earlier may be merged over a later one. A live account's odd rate of exchange would
drop the US part from the curve, as is meant for mock ones (1225-1227).

*Operations.* Two processes that merge at once lose one's update; a torn
`overrides.json` reads as empty and the next merge keeps that. An approval names a
parameter, not a proposal, and may apply a newer one than the owner saw. A
proposal deferred between the review's listing and its clearing is lost, and so
are all when the weekly worker fails after the clearing: the queue is emptied right
after the spawn, where `weekly_defer_queue.py:69` has it emptied by the worker when
it is done. A review whose marker cannot be written (`weekly_review.py:44-50`) is
started again every hour of the Saturday. Percentages are clamped
before they become ratios. An override shadows the owner's later edit. A worker
recreates the profile of a user who was deleted.

*Accounts.* Two registrations of one name that overlap at the broker's validation
both succeed, the second over the first (`app.py:365-389`). Two partial changes
of keys that overlap store a pair the broker never saw (`app.py:504-527`). The
user seeded from the environment is an administrator until the next boot
(`auth_store.py:61`). Changing a password leaves the sessions alive. A removed
directive is seeded again if the server died between the list and the mark, or a
write of either failed: `remove_directive` answers success all the same (138), which
is not the permanence of 130-131 and 255-256. It may also come back from a judgement
that was in flight. A key is made over existing rows when the count of the users
fails (`auth_store.py:95-96`), against the "never" of 80-81, and the environment may
bring another key (104); `RowsReadable` ends there. The keys of the environment's
user are never validated.

## 6. Not modelled, and why

* **Entry watch**: unreachable, see `OrderFlow`.
* **Amounts inside the account's reads, fees, exchange rates, prices that move
  within a cycle**: they change numbers on both sides of the comparisons the
  properties make.
* **Failed writes of the broker client's caches and token, of the `.running` marker
  and of the list of refused NXT codes**: assumed to succeed. Those of the ledger,
  the policy files, the weekly marker and the directives may fail.
* **Pacing of calls, purchases and overseas orders in `BrokerCalls`**: the pacing
  delays, and the other requests go through the same `_authed_json`.
* **Crawlers, indicators, screens, parsers**: functions of network input and
  floating point; their results are choices of the cycle.
* **Agents**: prompts and model calls; their answers are choices.
* **History, feedback, metrics, notifications, theses**: written, and read by
  prompts and pages only; what a cycle does depends on none but the open rows of
  the holdings.
* **Rate limits, audit log, recovery's digests**: counters and lookups without
  interleaving, which unit tests reach.
* **Rendering, the Android shell, the backtest**: no state a decision of the
  server depends on.
* **Code nobody calls**: `ops_guards.py`, the enqueue of `coresight_inbox.py`,
  `clear_directives`, `purge_expired_sessions`, `clear_overrides`.

## 7. How it grew, and what would come next

Execution and its ledger came first, since money is lost there; then who runs
(lifecycle, trigger), what a cycle decides (gates, sleeves, stages), what it
decides from (broker, account, shared intelligence), and what may change it
(operations, accounts, directives). The proofs followed the same order; sums and
recursion, which seemed out of reach, came last and brought the books and the
order lists with them. Next would be a composition of `CycleTrigger` with
`AnalysisCycle` over a whole day, and the broker's purchases and overseas paths.
