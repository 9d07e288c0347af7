# option-decode: a TLA+ verification project

option-decode is an options-trading application: a Fastify API (`apps/api`), a
BullMQ worker (`apps/worker`) and a web client (`apps/web`) over one MySQL
database and one Redis. It places real orders with the broker Dhan
(`packages/db/src/live-repository.ts`, `packages/dhan`), keeps two ledgers of
pretended trades (paper and simulated), captures option chains, and computes
indicators from them.

The API and the worker are two processes. They share no memory and take no
locks: what they agree on is what the database's rows, a few unique indexes, a
few Redis keys and the broker's own lists say. Every path is a sequence of
separate database statements and broker calls, so every gap between two of them
is a place where the other process, the broker, a person or a restart may act.
That is what the models are about: **an action is one statement or one call with
what follows it up to the next `await`**, and everything else may happen between
two actions.

## The system's parts

| Part (source) | State | Operations | What is hard | Modules |
|---|---|---|---|---|
| Live placement (`live-repository.ts` 1112-1380) | `LiveOrder` rows, the handler's locals | placing the legs, waiting for fills, probing a lost reply, cancelling | lost and late replies, restarts, a basket that fails half-way | `LiveOrders`, `LivePlacement` |
| Live reconciliation (1713-1992, `live-reconcile.ts`) | `LiveOrder`, `LivePosition` | one account's sweep, the choice of accounts | reads and writes far apart, aborts | `LivePlacement`, `LiveExit` |
| Live exits (1474-1635, 2017-2449) | positions' stop and reason, `LiveExitEvent`, CLOSE orders | square-off, stops, the exit engine | check-then-act guards, stale rows | `LiveExit`, `ExitRules` |
| Preview, gates, margin (692-1072, 2890) | in-memory previews, the margin baseline | preview, confirm, order rate | one-use tokens with a clock, cached margin | `LiveDesk` |
| Resize and panic (1392-1468, 1653-1699) | none of their own | `modifyLiveOrder`, `panicCloseLiveAccount` | work from lists read at the start | `LiveControls` |
| Broker credentials (80-430) | credential, accounts, cached clients of each process | consent, save, revoke, age, look up | two caches, one credential | `BrokerLink` |
| Broker client (`packages/dhan/src/index.ts`) | audit log, quote and scrip-master caches | one HTTP call | a timeout is not a refusal | `BrokerLink` |
| Live feed (`live-feed.ts`, `live-tick-cache.ts`) | sockets, subscriptions, the tick cache | connect, resync, watchdog, ticks to Redis and rows | events that never come or come late | `LiveFeed`, `LiveScreen` |
| Live summary and panel (2461-2833, `live-order-panel.tsx`) | funds, delta and tick caches; the panel's state | polls, the ticket form, the rows' buttons | replies out of order | `LiveScreen`, `LivePanel` |
| Worker jobs (`worker.ts`, `heavy-job-lock.ts`) | BullMQ queues, a promise chain | fan-out, pacing, capture, retries | large jobs must not overlap, restarts | `CaptureJobs`, `FifoGate` |
| Wave screening (`wave-screener.ts`, `elliott-wave.ts`) | universe, series, alerts | sync, scan, count, alert | schedulers outlive processes; arithmetic at thresholds | `WaveScan` |
| Push alerts (`push-repository.ts`) | subscriptions, cooldown keys | send once per cooldown | several browsers, gone endpoints | `PushAlerts` |
| Market store (`market-repository.ts`) | snapshots, ticks, scores | save, read, retention | batches without a transaction | `MarketStore` |
| Market overview (`server.ts`) | hot caches | cached read, live load, write-through, the ticker | loads that overtake invalidations | `MarketCache` |
| Paper trading (`paper-repository.ts`) | `PaperOrder`, `PaperPosition`, `PaperTrade` | place, edit, cancel, refresh, close, settle, caps, margins | two refreshers on stale reads | `PaperLedger`, `PaperBook`, `PaperTickets` |
| Simulator (`sim-repository.ts`) | `SimAccount`, `SimTrade`, events, MTM rows | place, close, mark, sweep, settle, reset, show | five actors may end a trade | `SimAccounts`, `SimBook`, `SimViews` |
| Accounts (`auth-repository.ts`, `server.ts`) | users, one-time tokens, rate counters | register, verify, sign in, reset | lost mails, INCR and EXPIRE apart | `Accounts` |
| Live page (`live-dashboard.tsx`) | what is shown, the stream | loads, watchdog, fallback polling, the paper ticket's chain | silence without an event | `Dashboard` |
| Replay Lab (`live-dashboard.tsx`, `replay-lab.tsx`) | selection, timeline, cursor, playback | pick, load, scrub, play, follow the page's underlying | every reply is applied unseen | `ReplayLab` |

How they interact: the page and the panel call the API; the API previews
(`LiveDesk`) and places (`LivePlacement`) through a client it looked up and
calls (`BrokerLink`). The worker reconciles, then runs stops and engine
(`LiveExit`), which judges groups of orders by their rules (`ExitRules`). The
feed writes ticks that `LiveScreen` merges with the rows. Captures
(`CaptureJobs`, behind the gate) write the store (`MarketStore`) that the API
reads through its caches (`MarketCache` extends `MarketStore`) and that paper
book, simulator and screener price themselves from.

`PROJECT.json` lists the same parts with their status, maps every definition to
the lines it models, and lists under "hazards" what each part is exposed to, at
its line.

## Modules

Three modules say what a component promises and nothing of how; the detailed
module is shown to implement it by `INSTANCE ... WITH` and a refinement mapping.

| Abstract | Promise | Implemented by | Mapping |
|---|---|---|---|
| `PaperLedger` | an order is filled at most once, never once cancelled; what it opened is booked in one trade that stays as written | `PaperBook` (`KeepsLedger`, checked and proved) | `life` from the order's and its position's status, `booked` the trades |
| `SimAccounts` | cash changes only with the one end of one of the account's trades, by its result | `SimBook` (`KeepsAccounts`, checked and proved) | `held` is the trade's account, "not yet" or "ended" |
| `FifoGate` | one job inside at a time, in the order they came | `CaptureJobs`: its promise chain (`IsGate`, proved) and the job bodies over it (`OneHeavyJob`, checked and proved) | `arrived` counts the calls, `waiting` and `inside` the phases of their promises |

### Live orders

**`LiveOrders`**, **`LivePlacement`**. An order is its row, its `correlationId`
and its order-book entry; the three are in bijection. `wire` says where the
placement request is (`out`, `landed` - possibly after the caller has given up -
`refused` by a 4xx, `dropped`); `book` and `bookFilled` are the broker's truth;
`status`, `brokerId`, `filledQty` the row's. Dhan's vocabulary is collapsed to
the classes `mapBrokerStatus` tells apart. `pc`, `cur`, `todo` are the handler's
place in the loop at 1200; `hedgeIds`, `confirmed` its locals. `PersistLeg`,
`SendLeg`, `ReplyOk`, `Reply4xx`, `ReplyLost`, `Probe` are the statements of one
iteration, `StartWait`, `Poll`, `WaitTimeout`, `HedgesConfirmed` are
`waitForOrderFills`, `Sweep...` is the order half of `reconcileLiveAccount` with
its reads and writes apart, `Cancel...` is `cancelLiveOrder`, which writes back
a status read earlier. That a 4xx means "no order was created" is an assumption
the code states (1290-1297) and the models share; `BrokerLink` checks the
client's side of it (`RefusalIsTrue`). A hedge the broker accepted without an
order id is not waited for, in the code (1282) as in `HedgeBeforeShort`.

**`LiveExit`**. One structure. `net` is the broker's net quantity, `pos` the
newest row of each contract, `event` the exit events; `sq[p]` is
`squareOffForAccount` run by process `p` (read, stamp, insert, send, reply),
`rec[p]` the reconciliation, `Job...`, `Stops...`, `Engine...`, `Leg...` the
worker's job. Of the reconciliation the order rows are one step (`LivePlacement`
takes them apart) and the position rows are visited one by one, in any order:
`RecSeen`, `RecFlat` (closes the row), `RecStamp` (the statement after it, which
says EXTERNAL), `RecUnlisted`, `RecClosed`. `RecAbort` throws at any of them.
`torn` remembers the contracts whose row was closed by a sweep that did not get
to stamp it, `abandoned` the rules whose event was created by an engine that did
not get to its legs. A disturbance is one of `Kinds`: a restart, a client that
cannot be built, an unreachable broker, a sweep that aborts, a close made
elsewhere, a request.

**`ExitRules`** evaluates the rules of `exit-rules.ts` over a structure's marks
and days, with the events that mask them: `Sweep` is one pass of the engine over
one group. `legs` were traded, `heldLegs` are those still open, `resting` those
a limit of an earlier profit target works on; any leg may be closed by hand or
filled alone, and the rest is judged as a structure of its own, by the credit of
what is left, as the code does. A second part is which groups of orders the
engine judges at all when a contract is traded again.

### Live desk

**`LiveDesk`**: `desk[r].pc` is where request `r` is (`funds`, `legs`, `basket`,
`book`, `quote` of a preview, one broker call each, the legs one after the
other; `spend`, `rate`, `insert` of a confirm), `previews` the map of tokens,
`baseline` the cached book margin, `spent` counts the orders a token led to.
Each margin call may reply zero, the endpoint's "measured failure mode" (787).
`Resolves` leaves out legs that come with a contract and a price of their own,
which the code takes as they are (646-648, 653). **`LiveControls`**: `modifier`
and `panic` are the two handlers, `atBroker`/`brokerSize` the broker,
`orderRow`/`rowSize` the rows; `inTheDark` and `crossed` remember which orders
lost a reply or had requests that overlapped. **`BrokerLink`**: `saver` and
`caller` are requests that save or use a credential; `clientCache[p]` is each
process's map; `stamp` is `updatedAt`. Of one call, `atDhan` is what Dhan did
with it, `call.told` what the caller was told, `dhanLog` the audit rows; then
the two caches in front of a commodity's future. **`LiveScreen`**: the row, the
tick key, `fundsHeld` and `deltaHeld` (the API's caches) and what each panel was
shown.

### Books

**`PaperBook`**: premiums are levels in the position's favour. A refresher
`p` runs a branch `br[p][o]` per order (`Promise.all` in the code): price, fill,
tick, streak, write, recheck, close. The API's requests each end in the same
refresh; `eod` settles. The stop is the trailing one (`trailingStop`, the
default, 270); a fixed stop stays where it is put, and edits of the target are
left out. **`PaperTickets`**: tickets of several legs: the two
count queries, the insert after them, the margin the API estimates and the one
the worker records for the legs its own pass filled. **`SimBook`**: the API's
requests (`req`), the end-of-day job (`simEod`) and the engine with its
margin-call sweep (`engine`) over `account`, `simTrade` and `events`.
**`SimViews`**: the summary and admin rows put together from several reads, the
stress grid, the daily rows and flags. A captured snapshot has a price for each
leg, so a spread has a cost, and prices move while trades are open.

### Worker, store and API

**`LiveFeed`**: every socket ever opened keeps its handlers; `feedWs` is the
current one; the watchdog closes whatever socket is current, also one that is
still connecting; whether and when a close or error event comes is the
environment's. **`CaptureJobs`**: `pred[n]` is the promise call `n` of the gate
was chained on; a dispatcher fans one job per underlying into a Redis queue that
outlives the process; the job bodies hold the gate. **`PushAlerts`**: one alert,
several browsers of one user, one cooldown key. **`MarketStore`**: snapshot rows
with two kinds of detail rows under foreign keys, written by the worker and by
the API; a chain without legs is stored with its score and no ticks (`empty`);
`prune` is the retention job in batches. **`MarketCache`** adds the API's
caches, their loads and the worker's invalidation message, and the ticker's
quote put together from four sources, cached stale-while-revalidate. (That a
past expiry is read as none given, `server.ts:1907`, is modelled where it shows,
in `Dashboard`.) **`WaveScan`**: the screener's jobs; zigzag, wave labels,
invalidation, RSI, volume and the signal as pure operators over every short
series. **`Accounts`**: one account, its owner's mailbox and requests, the Redis
counters. **`Dashboard`**: the page's handlers; each response is a step, and may
be of another expiry than the one asked for (`Answers`). **`LivePanel`**: the
panel's and its ticket's. **`ReplayLab`**: `replay` is what is selected, `reel`
the timeline with its cursor and picture, `asks` the requests in flight, whose
replies come in any order and are applied to whatever is selected by then. The
mirrors in refs move with their state and are not kept apart; the reset by a new
`initialOverview` prop (a navigation of the whole page) is left out.

## Runs

The parts without a run of their own are checked in three *scene* runs
(`MCWorker`, `MCDesk`, `MCPlatform`): the initial state picks a scene and from
then on only that part moves, the others keep their initial values. A behaviour
of the run is thus a behaviour of one part, the state space is the sum of the
parts' (not the product), and a property of several parts is the conjunction of
theirs. Composition that matters is inside the modules: `LivePlacement` with the
sweep and the cancel, `LiveExit` with both processes, `CaptureJobs` over its
gate, `MarketCache` over `MarketStore`, `PaperBook` with all its
actors.

| Run | Bounds | Properties and what they show |
|---|---|---|
| `placement` | one hedge, one short, quantity 2, one cancel, one restart | `TypeOK`; `NoOrphanOrder`: no terminal row over an order that may live; `HedgeBeforeShort`; `OneLegInDoubt` |
| `placement_live` | as above, quantity 1, fair | `RowFollowsBroker`: a row comes to say how its order ended |
| `exit` | spread, two orders, one of restart, dead client, sweep aborted at any statement, close elsewhere | `NoDoubleClose`; `ExitIsSound` = `TypeOK`, `WingAfterShort`, `ReasonRecorded` (a closed row says why, unless the sweep that closed it was cut off before its stamp) |
| `exit_flip` | spread, two orders, one of restart, dead client, unreachable broker, a stop set; replies never already TRADED | `NoFlip`, `AutoClosedMeansSent`, `StopsSeeBroker` |
| `exit_live` | one short, one order, two disturbances of seven kinds (an abort and a close elsewhere together among them), fair | `FlatIsSeen`: a flat position comes to be closed here with a reason, unless a sweep was cut off from stamping it |
| `paper` | one order, levels 0..3, worker and API, one edit, one restart, 1.4 million states | `KeepsLedger` (refinement), `StopActs`, `SettledEventually` |
| `sim` | two accounts, two trades, three markets, one restart | `KeepsAccounts` (refinement), `EventsAreTrue`, `ExpiredEnds`, `LiquidatesInNeed` |
| `worker` | feed: 3 sockets, 3 faults; capture: 3 calls of the gate, 1 restart; push: 2 browsers; store: 3 snapshots of two writers, one of an empty chain, 1 restart, retention periods the wrong way round; scan: 2 symbols; waves: every series of the lengths bounded in the module | `CaptureIsSound`, `FeedKeepsItsWord`, `OneHeavyJob`, `GateServesAll`, `OncePerCooldownOfEach`, `AlertsGetThrough`, `StoreKeepsItsWord`, `WavesAreSound` |
| `desk` | two requests of each kind, one contract, two tabs that resize it, three sweeps, clocks of 2 to 9 units | `LinkIsSound`, `OncePerToken`, `RepliesAreTrue`, `OneGroupPerContract`, `CachesAreRecent`, `PnlIsBrokers`, `StopGoesAtMarket` |
| `platform` | two requests, two markets, one to three faults a part, answers of another expiry among them; views: two structures, one a spread, whose spot and prices move twice; replay: two underlyings, three expiries, up to two days of two captures, four acts or failures | `ResponseIsSound`, `SessionProven`, `NobodyIsLeft`, `ViewsAreTrue`, `TicketsAreSound`, `PageIsHonest`, `ChangeIsOfOneDay` |
| `exit_wing` | as `exit_flip`, no disturbance | violated: `WingGuarded` |
| `desk_expiry` | as `desk` | violated: `ExpiryDayIsCaught` |

The combined properties, part by part:

| Property | Parts |
|---|---|
| `CaptureIsSound` | `SubscribedWhenOpen` (all that was asked for is on the current socket), `NoStaleCycle` (a captured chain's spot is at most an interval old), `NeverRejected` (retention is not refused by a foreign key, unless it hit its cap or met the row of an empty chain), `KeptDaysReplay` (a replay day inside the detail period has its ticks) |
| `FeedKeepsItsWord` | `FeedRecovers` under `FeedFair`, `StaysClosed` |
| `OncePerCooldownOfEach` | `OncePerCooldown` (pushes), `OneAlertPerCooldown` (wave alerts) |
| `AlertsGetThrough` | `AlertReachesUser`, `StandingSignalAlerts`, each under its own fairness |
| `StoreKeepsItsWord` | `OldRowsGo` under `StoreFair`, `AnchorHolds` |
| `WavesAreSound` | `ZigZagTrue`, `SignalsAreSound`, `SwitchHolds` |
| `LinkIsSound` | `ClientIsCurrent`, `ConsentSpentOnce` |
| `RepliesAreTrue` | `PanicOwnsUp`, `RefusalIsTrue`, `AuditMatches`, `ResizeAgrees` |
| `CachesAreRecent` | `SettledBookPricedTrue`, `FrontMonthIsRecent`, `ScreenIsRecent` |
| `ResponseIsSound` | `PairedPressure`, `BoundedStaleness` |
| `ViewsAreTrue` | `SummaryBalances`, `StressForetells` (when the spot has moved by one of the grid's shifts the account blocks what the cell said), `RowsKeepApart` |
| `TicketsAreSound` | `CapYieldsToRacesOnly`, `OneMarginPerTicket` |
| `PageIsHonest` | `TicketSettles` (the settled ticket shows what came for the expiry it has), `SelectionArrives` (what was selected last comes to be shown), `DayCountsOnce`, `NewestIsConfirmed`, `ButtonsComeBack`, `ReplayAgrees` |
| `NobodyIsLeft` | `OwnerGetsIn`, `PageKeepsLoading`, `PanelCatchesUp`, `PlaybackEnds`, each under its own fairness |

Why the bounds are enough: every case the code tells apart is reached - a
structure with both kinds of legs, a second close after a first one failed, a
partial fill, a stale read overtaken by a write, a cache entry fresh and
expired, a token used, reused and expired, a batch cut off by a restart - and a
disturbance may fall on every point of every handler. Two requests are enough
for every race in the code, which is always between one that read and one that
wrote in between. Times to live are one or two units, so that "just inside" and
"just outside" both happen. Every property has a mutant of a mapped definition -
a dropped guard, a key that leaves something out, a reset forgotten - that
violates it under the same bounds.

Deadlock is not checked: a ticket is done, a position closed or a bound used up,
and the part really stops.

Every bound is a constant named as one in its module (`MaxCrashes`, `MaxFaults`,
`MaxCalls`, `MaxTime`, ...). When the pool of `LiveExit`'s orders is used up, an
exit path passes a contract it would have closed (`Room`).

## Findings

Two runs state what a comment of the repository promises and find the code doing
otherwise; "findings" in `PROJECT.json` quotes the comments.

* `exit_wing`: `WingGuarded`. The engine gates a wing on the broker ids of the
  short closes it placed in this pass. A short whose close was rejected, failed,
  or was in flight already has no id there, so the wing is sold with the short
  still open, which the comment at 2359 says must not happen.
* `desk_expiry`: `ExpiryDayIsCaught`. `evaluateExit` returns the first rule that
  applies, and the engine passes a group by when that rule's event exists,
  whatever came of it. A structure whose profit target or hard stop was recorded
  but not carried out is passed over on its expiry day as well, which the
  comment at `exit-rules.ts:244` excludes.

The properties of the passing runs excuse what the code does not keep, or are
checked without the disturbance under which they do not hold. Those are facts
about the code too:

* `NoDoubleClose` fails beside a manual Exit, which may insert its order between
  the worker's count (2111, 2377) and its insert (1567) and has no guard of its
  own.
* `NoFlip` fails when a placement reply already says TRADED: the row is terminal
  at once and the duplicate guard looks at non-terminal rows while the position
  row is still open (2377). `NoFlip` and `StopsSeeBroker` fail after a sweep that
  wrote the orders and failed before the positions, and for a contract closed
  elsewhere between the sweep and the exits.
* `AutoClosedMeansSent` excuses an engine that was cut off between its event
  (2312) and the legs, by a restart or by a client that cannot be built (2345):
  the event is created as AUTO_CLOSED and corrected only afterwards (2429). Then
  "The event records what actually happened, not what was intended" (2425) is
  not so, and the event masks its rule in every later pass.
* `ReasonRecorded`, `ExitIsSound` and `FlatIsSeen` excuse the row a sweep closed
  (1785) and was cut off from stamping (1804), by a restart or by any statement
  that threw (caught at 1983): no later sweep lists the row, so that its reason
  stays null, against "Stamped rather than left null so an empty reason never has
  to be interpreted by a reader" (1802).
* `SettledBookPricedTrue` excuses a ticket priced by its legs alone of which one
  came back as zero: the zero of the book (787) and of the basket (895) are
  guarded and a leg's (857-858) is not, nor is a missing field (`packages/dhan`
  `index.ts:619`). The sum is then too low, where the comment at 901 says the
  fallback "OVERSTATES a hedged position".
* `StopGoesAtMarket` is about what a pass does with the legs that are left. A
  structure one of whose legs was closed is judged as a whole one, because
  `filled` lists the orders of OPEN positions only (2220-2223, 2246-2250); the
  comment at 2243 says such a group is skipped. And a leg whose profit-target
  limit still rests is passed by (2377), so it does not go at market: the pass
  then says FAILED, and never AUTO_CLOSED.
* `LiquidatesInNeed` excuses a sweep during which somebody else ended a listed
  trade: the code keeps counting its margin and may liquidate an account that
  fits (`sim-repository.ts` 1654).
* `AnchorHolds` lets a save that was under way, of an earlier or the same
  moment, replace the row a day's changes are measured from, within the time a
  save takes: the API writes what it loads live (`server.ts` 1893, 1921, 1936)
  while the worker captures, and neither waits for the other. The comment at
  `market-repository.ts:256` says the reference never moves during the day.
* `NeverRejected` and `OldRowsGo` excuse the row of a chain that had strikes and
  no legs. It has a score and no ticks, the first loop lists rows with ticks only
  (`market-repository.ts:1097`), and so from the day it expires the second loop
  is refused by the score's foreign key every night, where the comment at 1089
  says "the next run simply picks up where this one stopped".
* `KeptDaysReplay` is stated of the detail period: between 90 days (the ticks'
  default) and 180 (the rows') the replay calendar offers days without ticks.
* `OwnerGetsIn` excuses a rate counter that lost its expiry between INCR and
  EXPIRE, which shuts the owner out for good.
* `CapYieldsToRacesOnly` excuses legs inserted or filled between a ticket's
  first count and its own insert; an edit of a pending order is not checked
  against the caps at all.
* `TicketSettles` says that the ticket shows what came for its expiry, which may
  be the chain of another one: the API reads a past expiry as none given
  (`server.ts:1907`) and answers a failed call to Dhan with the demo chain
  (1941), both with status 200, and the ticket keeps what comes
  (`live-dashboard.tsx:788-792`), while the comment at 777 speaks of "the expiry
  the user actually intends to trade".
* `SelectionArrives` excuses a selection whose place in the queue a reload took:
  `pendingLoadRef` is overwritten by whatever comes (810), a selection that is
  still being fetched is skipped for it (830), and the reload fetches what is
  shown (822). The page then settles on the old market with no error, which the
  comment at 593 says the queue ended.
* `ReplayAgrees` is stated of requests that did not overlap: a reply that comes
  after a picker, a scrub or a playback tick is applied as it is, so that a slow
  timeline of the underlying selected before may arrive last and stay on the
  screen (`refreshReplayTimeline` 1037), the symptom the comment at
  `live-dashboard.tsx:1071` is about. It also ends
  with a reload that failed: coming back to the tab picks the newest day before
  its timeline has come, and a scrub then clears the error over the older one.
* `ResizeAgrees` excuses an order whose requests overlapped and one that lost a
  reply: of two resizes whose replies cross, the row keeps the size it heard of
  last, which need not be the one the broker kept (`modifyLiveOrder` 1418-1448).
* `ChangeIsOfOneDay` begins with the day's first capture: before it a live price
  beside a failed OHLC call is compared with an older close.
* `BoundedStaleness` is about the expiry a response shows. When none is asked
  for, which one is the nearest moves at midnight and with the first row of a
  nearer contract, and a cached entry goes on showing the old one for its life.
* `ZigZagTrue` does not say that a pivot is the extreme of everything up to the
  next one, because it need not be: once a reversal has confirmed a pivot, the
  price may go a little beyond it again before it turns far enough for the next
  (`elliott-wave.ts` 47-110). It says that nothing goes beyond before the
  reversal, and the run's prices are too few for the other case; the theorem is
  about any prices.

Smaller things met on the way, which no document of the repository contradicts:
a stale mark may overwrite a newer one (`cacheLiveTick` reads and writes Redis
in two calls); a limit price seeded from one market's strike survives a change
of market (`live-order-panel.tsx` 749-776, 860-863); panic's list of orders
leaves out LOCAL_PENDING and UNKNOWN rows (1660), and exits and panic are
refused when trading is switched off (417); a resting profit-target limit makes
a later hard stop skip the short and sell the wing; `DELTA_2X` never applies to
a live structure, which is handed no deltas; the order-rate cap counts first and
inserts later (2892); `invalidateLiveFundsCache` (2546) is never called; the two
scrip master caches stack to twice their six hours; a 200 reply with an empty
body reads as an empty book; alerts and coverage of a group are revived by a
contract traded again (2661-2697).

## Fairness

Each liveness property is stated under the weakest fairness its module needs. In
the scene runs it is written `scene = x /\ XFair => P`: the fairness is assumed
of that scene only.

* `LivePlacement`: weak fairness of the handler, the sweep and an outstanding
  cancel. A Node handler that runs goes on, every broker call ends because
  `requestDhan` aborts it after its timeout, and the scheduler
  (`live-reconcile.ts` 171-176) starts the job every 20 seconds with concurrency
  1. `LiveExit` assumes the same of the job and of a running request. Nothing is
  assumed of the broker: it may never fill, never answer well, or drop every
  request. Markets are taken to be open.
* `PaperBook`: a capture is due every thirty seconds while the contract lives,
  the settlement comes every weekday, refreshes and accepted requests go on.
  Nobody has to ask for anything. `SimBook`: both cron jobs come round and end.
* `LiveFeed`: the event loop does what it owes (timers, events that are due) and
  the worker's resync interval keeps firing. No fairness of the sockets'
  events: that is the point. The watchdog's tick closes whatever socket is
  current, so one left from an older socket may close its replacement while that
  is connecting; the strong fairness of `OnOpen` says that this does not happen
  to every handshake there ever is, the tick being every ten seconds and a
  handshake far shorter.
* `CaptureJobs`: every step of a job ends, since the calls it makes have
  timeouts. `PushAlerts`: a snapshot is stored every interval and every send
  settles. `MarketStore`: the retention job is scheduled again and again and its
  statements end. `WaveScan`: scheduler and worker go on, time passes.
* `Accounts`: handlers run, windows and tokens that nobody can use run out, and
  the owner who cannot get in keeps asking and following links (strong fairness:
  the rate limit disables the request again and again).
* `Dashboard`: requests end, timers fire, a stream that is asked for opens. A
  snapshot-ready event comes only when the worker has published a capture
  (`server.ts` 2246-2256), so out of session an open stream reloads nothing: that
  the page keeps loading is stated under the hypothesis that captures keep coming
  (`CapturesKeepComing`), that it gets its stream or its polling back is not.
  `LivePanel`: the browser fires its interval and brings replies, the API answers
  (`PanelCatchesUp` is about a tab that stays visible). `ReplayLab`: the
  playback's timer fires, and the user does not scrub back for ever (the acts are
  bounded); no reply need ever come.

## Proofs

TLC checks small instances; TLAPS proves these for every value of the constants.
`PROJECT.json` lists the theorems; each `*_proofs` module has one lemma per kind
of step and ends in the theorem.

| Theorem | Statement | Inductive invariant and why it is needed |
|---|---|---|
| `TypeCorrect`, `HedgeFirst`, `NoOrphans`, `AtMostOneInDoubt` (`LivePlacement_proofs`) | `Spec => []` of `TypeOK`, `HedgeBeforeShort`, `NoOrphanOrder`, `OneLegInDoubt` | `IInv`: `NetworkOK` (how row, request and book entry go together), `BasketOK` (what the handler's place says of every leg), `HedgeOK` (`hedgeIds` are accepted, those not pending have traded), `CopiesOK` (a final status in the sweep's or the cancel's copy is still the broker's, since final statuses never change: why a stale overwrite cannot write an order off) |
| `BookKeepsLedger` (`PaperBook_proofs`) | `Spec => KeepsLedger` | `BookInv`: rows and branches have their types, a branch about to close holds a reason, and `Coherent`: a position exists only where the order is no longer pending, a trade only where the position is closed. Without the last, a close could write a second trade; without the first, a cancel could overtake a fill |
| `EventsTrue`, `SimKeepsAccounts` (`SimBook_proofs`) | `SimSpec => []EventsAreTrue`, `KeepsAccounts` | `SimInv`: a trade entered belongs to an account that exists, the ticket under way holds a trade nobody else enters, and an event still to be written is about a trade that has ended for good (the engine's `record` step comes after its `close`) |
| `SweepTakesInNeed` | `SimSpec => LiquidatesInNeed` (an action property) | `NeedInv`: what the sweep lists was entered, and nothing of an account is liquidated before its turn (`ListedTrue`); in its turn the running figure `left` is the margin of the account's trades still open, if nobody else ended one (`LeftTrue`). The finding above is why the "if" is needed |
| `TokenSpentOnce`, `SettledBookIsPricedTrue` (`MCDesk_proofs`) | `DeskSpec => []OncePerToken`, `[]SettledBookPricedTrue` | `DeskInv`: `TokensHeld` (a minted token has led to nothing and nobody is placing it; at most one request places a spent one) and `FiguresTrue` (what a preview has read so far, and what is cached, is the book's margin if the book has not moved since; the sum of the legs read so far is theirs unless a zero was among them) |
| `ExitTyped`, `ShortsFirst` (`LiveExit_proofs`) | `Spec => []` of the live exits' `TypeOK`, `WingAfterShort` | `BaseInv`: `TypeOK`, `NetworkOK` (how a close's request, book entry and row go together), `CallsOK` (where each square-off is), `JobOK` (what the job's stage says of its own calls), `WingsLast` (once the engine is at its wings every short close it placed has filled) |
| `ExitSound` | `Spec => []ExitIsSound`, whatever the disturbances | `Reasoned`: a closed row has a reason, or is the one a sweep is about to stamp, or one a sweep was cut off from (`torn`) |
| `ClosesOnce` | no manual Exit among the disturbances: `Spec => []NoDoubleClose` | `OneCloseInv`: a close that may live has a row that is not terminal (`CopiesOK`, `RowsOK`, for the sweeps' stale copies), and the contract the worker is about to insert for has none (`Alone`, `OneRow`), since it alone inserts |
| `LinkSound`, `ControlsOwnUp`, `CallIsTold`, `ScreenIsTrue` (`MCDesk_proofs`) | the parts alone: `LinkIsSound`; `PanicOwnsUp`, `ResizeAgrees`; `RefusalIsTrue`, `AuditMatches`, `FrontMonthIsRecent`; `PnlIsBrokers`, `ScreenIsRecent` | `LinkInv` (a client is of the stamp its row had when it was read, and no row goes back; a consent is held by at most one save); `ControlInv` (`PanicSees`: what panic has not dealt with is on its list; `SizesAgree`: the sizes agree outside the requests in flight); `DhanInv` (`CallFollows`: what the caller was told fits what Dhan did; `FrontsTrue`: how old a kept future may be); `ScreenInv` (`Valued`: a row's value belongs to its quantity; `HeldSound`, `PanelSound`: how old what is held or shown may be) |
| `StopsGoAtMarket` | `RulesSpec => StopGoesAtMarket` (an action property) | types only; the step is arithmetic over sums: a stop's cost to close is at least three times the credit, so the profit target cannot come before it (the lemmas of `Sums`), whichever legs are left |
| `DeskRepliesAreTrue`, `DeskCachesAreRecent`, `DeskIsSound` | the same of the whole desk: `MCDeskSpec => []` of the six invariants its run checks, and `StopGoesAtMarket` | `MCDeskInv`: the invariants of the parts; `OnePartMoves`: a step of the desk is a step of one part and leaves the others alone |
| `SessionsAreProven` (`MCPlatform_proofs`) | `AccountSpec => []SessionProven` | `LoginSawProof`: a login past its first read has seen a verified address, which nothing takes back |
| `ResponsesAreSound` | `CacheSpec => []ResponseIsSound` | `MarketInv`: how old the newest row was when a load read it (`LoadsSound`), hence what a cache entry may be behind by while it lives (`EntriesSound`) and what a request that waits for either will be given (`ReadersSound`); a cached pressure is the one of its rows (`ZonesTrue`). A message that is lost or late only matters for how long an entry lives, so the bound is one load and one lifetime |
| `ChangesAreOfOneDay` | `TickerSpec => []ChangeIsOfOneDay` | `TickerInv`: what the exchange has closed (`BourseSound`), what each build has read so far and of which day (`FetchesSound`), what is cached (`QuoteSound`); a build begun in a session before its first capture does not count as settled |
| `TicketsSound` | `PaperTicketSpec => []TicketsAreSound` | `TicketsInv`: a request's count is of orders that were there when it counted, and those it could not see are remembered (`CountsTrue`), so the cap is passed by them alone (`CapHeld`); the legs of a ticket share one margin (`MarginsTrue`) |
| `ViewsAddUp` | `ViewSpec => []ViewsAreTrue` | `MoneyInv`: cash is the opening balance and the results of the trades that ended, each listed once (`EndedTrue`), and a view not disturbed between its reads shows that (`ViewTrue`); `GridInv`: the grid's cells are the margins at the shifted spot of the trades it was made of; `RowsInv`: end-of-day rows are at midnights and every other row is a sample of its own (`MarkedTrue`) |
| `PageIsAsAsked` | `PlatformSpec => []PageIsHonest` | `PageInv`: the fetch not cancelled is of the chain chosen last (`TicketFetchTrue`), what waits or is fetched with nothing waiting is the market chosen last (`SelectionTrue`), the last close of a contract carries its count (`DealsTrue`, `ReadsTrue`), a preview on its way is the one asked for last, alone on the wire (`WireTrue`), a disabled row has a request out (`RowsTrue`), a Replay request asked alone is of what is selected (`AsksTrue`, `ReelTrue`) |
| `PlatformIsSound` | all the platform's invariants at once, in the composition | `PlatformInv`: the seven invariants above |
| `LockIsOrdered`, `LockImplementsGate` (`MCWorker_proofs`) | `LockSpec => []ChainOrder`, `LockSpec => IsGate` | `ChainOrder`: a call is chained on an earlier one and every call between the two has ended, so the chain is a queue even across restarts |
| `WorkerKeepsGate` | `WorkerSpec => OneHeavyJob` | `CaptureIsLock`: a step of the job bodies, their failures and restarts is a step of the chain or leaves it alone |
| `FeedIsSound` | `FeedSpec => []SubscribedWhenOpen /\ StaysClosed` | `FeedInv`: what was asked for has been sent on the current socket once it is open, and no reconnect is pending after `close` |
| `AnchorsHold` | details kept for a day or more: `StoreSpec => AnchorHolds` | `StoreInv` (`SavesRecent`: a save under way is no older than a save takes, so that afterwards nothing of the past is still to be written; `RunSound`: what retention has listed is out of its period, so not of the day) |
| `WorkerCapturesSoundly` | `WorkerSpec => []CaptureIsSound` | `CaptureInv` (`FreshWork`: a capture at work began within an interval of the cycle it was queued in), `StoreInv` (`DetailsKept`: rows inside the detail period have theirs; `RunSound`: what retention has listed is out of its period, and its details go first) |
| `WorkerWavesAreSound` | `WorkerSpec => []WavesAreSound` | `ScanInv` for the switch. The pivots come of a fold over the series: `ZigOk` (`SettledOk`: settled pivots alternate and are far enough apart; `TipOk`: nothing beyond the tip since it was set; `HighLow`: before the first, high and low are the extremes so far) holds in every state of one pass, by the least place at which it would fail |
| `WorkerAlertsOnce` | `WorkerSpec => OncePerCooldownOfEach` | `KeysHold`: one send to a user at a time, its key held for what is left of the cooldown; and the key's remainder and the time since the last delivery make up a cooldown less a send, so that a key that runs out or is released never does so early; `ScanInv`: a row about to be inserted is of a symbol whose last alert is older than the cooldown |

The refinement proofs show that initial states map to initial states and that
every step maps to a step of the abstract module or a stutter, given the
invariant; the temporal step is `PTL`.

The proofs use the constants' named assumptions and nothing else:
`HedgesAssumption`, `NoLegAssumption`, `BoundsAssumption`, `QtyAssumption` and
`AcksAssumption` of placement and exits; `StructureAssumption` (the exits'
structure has shorts and wings apart) and `KindsAssumption`; `PaperAssumption`;
`SimAssumption` (accounts and trades are positive numbers, so that "none" is
neither); `LinkBounds`, `ControlBounds`, `DhanAssumption`, `ScreenAssumption`,
`CaptureBounds`, `FeedBounds`, `PushBounds` (a send takes less than a cooldown),
`ScanAssumption`, `WaveAssumption`, `CacheConstants`, `TickerConstants`,
`ReplayConstants`, `LimitIsPositive` (kinds and bounds of numbers);
`MarketsAreNamed` (no underlying is called "none" or "reload"); `StoreConstants`
(besides: a save takes no longer than details are kept); `TicketConstants`,
`RuleConstants` and `ViewAssumption` (besides: a ticket or a structure has
finitely many legs, and two tickets none in common); `DeskTimes` and
`TicketMargins` (the true margins of the legs, one by one, are at least what
they add as one structure; of what the calculator replies nothing is assumed but
that it is the true figure or zero). The proofs cover what the runs cannot:
tickets with more legs than two, structures with any number of shorts and wings,
any number of orders, trades, tabs, tokens, restarts.

Two theorems have a hypothesis of their own. `ClosesOnce` leaves the manual Exit
out of `Kinds`, the disturbances of `LiveExit`, as its run does, and "Findings"
says how the code breaks `NoDoubleClose` beside one; `AnchorsHold` has details
kept for a day or more (ninety days in the code). `ExitTyped`, `ShortsFirst` and
`ExitSound` hold for any disturbances, in any number.

Sums and passes over a series are recursive functions, and the library's
induction theorems take an operator, which no installed prover instantiates. The
proofs go by the least counterexample instead: the set of sizes or places at
which a fact fails is a set of numbers, so it has a least element unless it is
empty (`Sums!Least`, from `WFMin`), and a fold is unfolded one step there.
`Sums` proves what the others need of the library's `MapThenSumSet`: that it is
an integer, depends on the values only and grows by what one more element is
worth.

Only model-checked:

* `NoFlip`, `StopsSeeBroker` and `AutoClosedMeansSent` of the exits. They hold
  beside some disturbances and not beside others ("Findings"), and a theorem
  under the run's own restriction would say little more than the run.
* Liveness under fairness, which is out of the prover's reach: `RowFollowsBroker`,
  `FlatIsSeen`, `StopActs`, `SettledEventually`, `ExpiredEnds`, `GateServesAll`,
  `AlertsGetThrough`, `NobodyIsLeft`, and the liveness halves of
  `FeedKeepsItsWord` and `StoreKeepsItsWord` (`FeedRecovers`, `OldRowsGo`); the
  other halves are `FeedIsSound` and `AnchorsHold`.

Every other invariant and action property a passing run checks is stated by a
theorem.

## Not modelled

* Pay-offs, Greeks, Black-Scholes, charges and most indicators
  (`packages/trading`, `packages/analytics`): formulas over real numbers. TLC has
  integers, and unit tests reach them. Where a decision hangs on such a number it
  is a number the model chooses.
* Layouts and wording: the feed's binary packets, field-by-field parsing of
  Dhan's replies, ciphers and password hashes, error texts, notification texts,
  charts and tables.
* Routes that validate and forward, tab permissions, the stream's fan-out to many
  clients, analytics queries over history: no state of their own that an
  interleaving could spoil.
* `recordOrderEvent`'s append-only log, which never fails its caller.
* The cron times of the jobs and the market calendar: a job that is due may come
  at any time.
* Operations scripts (`ops/scripts`, `scripts`): run by hand around the system.
* More than one structure over one contract in `LiveExit`, and more than one
  user: no request writes the rows of another user's account.

## What is left

A run of `LiveExit` with two structures over one contract; theorems for
`NoFlip`, `StopsSeeBroker` and `AutoClosedMeansSent` that say what is left when
any disturbance comes; a paper position with a fixed stop; and models of what
"Not modelled" names first, where a decision hangs on such a number.
