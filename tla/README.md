# Laterite in TLA+

Laterite invests a user's stablecoins, a little at a time, into the tokenized
asset they chose. A user subscribes to a plan of Laterite's vault on the
external *Subscriptions* program, enrolls with the *Laterite program* and signs
the rules that say how much may be pulled. From then on a sweep runner (the
*crank*) and an *attestor* may act, within what the program allows. These
modules state what the system promises, check it with TLC on small instances,
and prove part of it with TLAPS for every value of the constants.

## The system

| component | state it keeps | operations | what makes it correct |
|---|---|---|---|
| amount engine (`programs/laterite/src/amount.rs`) | none: functions of the user account, the clock, the calendar and the balance | income share, change, week, weekly cap, engine due, pull, record | the weekly cap, whatever the order of calls; one engine buy per period; nothing pending pulled twice |
| user accounts (`state.rs`, `instructions/enroll.rs`, `instructions/user.rs`) | `UserConfig`: status, rules, enrolled_at, week and what it spent, last engine run, pending, attestable_from, last sweep day per token | enroll, reactivate, exit, pause, resume, update_settings, change_tier, change_payment_tokens, lower_pending | a return gives no second trial, week or sweep; a plan that is left cannot be pulled; a user can always leave; the count of users is right |
| sweep (`instructions/sweep.rs`) | writes `UserConfig`, pulls through Subscriptions, swaps | sweep | one per token and UTC day; never more than the caps or the plan's period allow |
| attestations (`instructions/attest.rs`) | `AttestationRecord` per transfer | attest, close_attestation | a transfer counts once, and only for what the user had signed when it happened |
| subscriptions (`subscription.rs`, external program) | per plan: period start, amount pulled in it, expiry | subscribe, cancel, resume, close, pull | the two programs count periods separately and must never disagree about a pull |
| administration (`instructions/admin.rs`, `accept_admin.rs`, `initialize.rs`, `create_plan.rs`) | `Config`: kill switch, beta caps, user count, calendar, admin and pending admin | update_config, set_paused, set_market_calendar, propose/accept admin, create_plan | caps bind from the moment they are set; the kill switch stops money but not a user's exit |
| market sessions, prices (`market.rs`, `price.rs`) | the calendar; none | session bitmaps, New York's offset; quote, minimum output | sessions where the NYSE has them; the price bound never rounds against the user |
| sweep runner (`services/operator/src/crank`) | `sweep_attempts` table, deferrals and venues in memory | one run: candidates, build, send, classify the outcome, record, defer | the day's final word per user and token; no user starved; retries bounded |
| watcher (`services/operator/src/watcher`) | `watch_cursors`; users, watched and due accounts in memory | scan transfers, attest, close records | no transfer skipped for good while it could be attested |
| indexer (`services/operator/src/indexer`) | events, cursor | scan program transactions and store them | each event stored once |
| notices and bot (`services/operator/src/telegram`) | links, claims of notices | link, claim, send, revoke | a notice is sent at most once and not lost by a known failure |
| alarms, health (`services/operator/src/alarms`, `health.ts`) | `alarms` table | raise, clear, announce | each change announced |
| leader (`services/operator/src/leader.ts`) | advisory lock | acquire, lose | one active operator |
| sponsorships, faucet (`apps/app/lib`) | `sponsored_sends`, grants | prepare, claim, settle | rolling limits; the asset account paid at most once |
| clients (`clients/typescript/src`) | none | derive addresses, build transactions, mirror the amount engine | the mirror agrees with the program until the transaction lands |

How they interact: the crank reads accounts, computes with the client's mirror
of the amount engine what the program will pull, builds a route for exactly that
amount and sends `sweep`; the watcher reads transfers and sends `attest` with
the attestor's signature; anyone may submit either. The program calls
Subscriptions to pull and to cancel. The indexer reads what the program emitted
and feeds the app, the notices and the alarms. All operator processes share one
Postgres database; only one of them leads.

What is hard here: the user's weeks, the UTC days, the plan's periods and the
market's sessions are four clocks out of phase with each other; users pause,
leave, return, switch tiers and tokens and touch their subscriptions outside the
program at any point between two of those boundaries; attestations arrive up to
a week after the transfers they are about, in any order and any number of times;
off chain, sends may land although they looked failed, processes stop between a
landing and its record, and rows are decided from state read earlier. Each of
these is listed with its line under `hazards` in `PROJECT.json`.

## The modules

| module | what it is |
|---|---|
| `Amount` | the amount engine, one operator per function of `amount.rs` |
| `Subscription` | one subscription: what `subscription.rs` reads and asks, and what the external program does |
| `Laterite` | the program: the accounts as variables, one action per instruction, users acting through Subscriptions directly, and the clock |
| `LateriteProperties` | the type invariant, the safety invariants and the action properties |
| `MCLaterite` | values for TLC |
| `Market` | the sessions of the NYSE: the calendar the admin loads and what it says of an instant, in seconds |
| `Price` | the quote of a feed and the minimum output of a swap, in the widths they are computed in |
| `SweepClient` | what the client computes before it builds a sweep: the amounts, and until when they stand |
| `Budget` | an abstract specification: a wallet's weekly allowance, spent in at most one buy per token and day |
| `MCProgram` | values for TLC, and `Laterite` as an implementation of `Budget` |
| `LateriteProofs` | type correctness, proved |
| `LateriteSafety` | what holds of the caps, days, weeks and seats, proved |
| `LateritePromises` | what holds of plans, pending amounts and past transfers, and that a sweep withholds nothing that is due, proved |
| `ProgramProofs` | the refinement of `Budget`, what a client's forecast is worth, the minimum of a swap and the sessions of the NYSE, proved |
| `Crank` | the sweep runner: a run and its sweeps step by step, the table `sweep_attempts`, the deferrals in memory, transactions that land late, crashes, and the clock |
| `CrankProperties` | its type invariant, what it promises of the table, what the comments say of it, and its fairness |
| `MCCrank` | values for TLC |
| `CrankProofs` | the safety of the table and its types, proved |
| `Watcher` | the watcher: ticks and the scans of each account step by step, attestations whose outcome it never sees, crashes, and the cluster and users around it |
| `WatcherProperties` | its type invariant, what its cursor promises, what the comments say of it, and its fairness |
| `MCWatcher` | values for TLC |
| `WatcherProofs` | the safety of the cursor, proved |
| `Leader` | the operator's processes, the lock and how each ends; the next four run in them |
| `Indexer` | the indexer: polls, batches stored with the cursor, and what a record's row says of its closing |
| `Notices` | the notices to a chat: ticks, claims, sends and their three outcomes, the chat's link |
| `Bot` | the bot's updates: long polls, their offset, links and unlinks |
| `Alarms` | one alarm: calls of `set` step by step, from several loops at once |
| `MCOperator` | values for TLC: the watcher and these four |
| `OperatorProofs` | the safety of these four and of the lock, proved |
| `Sponsorships` | the sponsor route: messages prepared, claimed, sent and settled, and their transactions |
| `Faucet` | the devnet faucet's grants |
| `MCSponsorships` | values for TLC |
| `SponsorshipsProofs` | the safety of both, proved |

How they compose: `Laterite` is built on `Amount` and `Subscription`;
`SweepClient` is a second computation over the same state, compared with it in
every state; `Budget` is what `Laterite` implements. `Indexer`, `Notices` and `Bot`
extend `Leader`, so that each runs in two processes of which one has lost the lock
without knowing. An `MC` module that holds several loops or routes lets a
behaviour be of one of them (`part`, `loop`, `route`): they share no state but
the processes or the clock, so nothing is lost, and no instance is multiplied by
another.

### How the model corresponds to the code

* An instruction is atomic: a transaction that fails leaves no trace. So every
  error path is an action that is not enabled, and an action writes everything
  the handler writes, calls into Subscriptions included.
* `user[u]` is the `UserConfig` of wallet `u`, with the fields of `EnrollParams`
  grouped in `rules`; status `Absent` stands for an account that does not exist.
  Name, goal and chosen asset do not affect any property here and are left out.
* `subscription[u][k][tier]` is the subscription to the plan of token `k` and
  that tier. A plan's amount is the tier's cap (`create_plan.rs`), so it is
  `TIERS[tier]`.
* `record[i]` is the `expires_at` of the transfer's `AttestationRecord`, 0 while
  there is none. `transfer` holds the transfers that really happen, at their
  block time; they are chosen once, in `Init`, and can be attested as soon as
  the clock has reached them. The attestor is honest, which is what the ed25519
  check establishes: what it signs is a real transfer with its real time.
* A market calendar is the set of instants the code's bitmaps say are in a
  session; how `market.rs` computes it is left to the module `Market`, which has
  seconds, days since 1970 and bitmaps (as the sets of the bits set). Its property
  compares the sessions with the NYSE's, said in another way: the clocks of New
  York change on civil dates at two in the morning, local time, by the rule in force
  since 2007. The civil dates are those of 1970 to 2099.
* In a sweep, the price check, the swap and the transfers either fail the whole
  instruction or not; `balance` is any balance the token account can have.
* The clock is `now`, in instants; `DAY_SECONDS`, `WEEK_SECONDS` and
  `PLAN_PERIOD` say how many instants a day, a week and a plan's period have.
  Any number of instructions run within an instant. The first instant is a full
  day after the epoch, since `last_sweep_day` 0 means "never".
* The Subscriptions program is not in the repository. Its behaviour is modelled
  from its use: opening and cancelling (`clients/typescript/src/onboarding.ts`,
  `user-state.ts`), the period arithmetic that the client mirrors
  (`clients/typescript/src/amount.ts`, `sweep.ts`), and the fuzz harness
  (`fuzz/laterite/src/helpers.rs`). Revoking the authority is
  folded into closing the account: after either, nothing can be pulled.
* `joined`, `weekPulled`, `daySweeps`, `dayEngine`, `weekEngine`, `credits`,
  `worth` and `owed` are history: no action reads them to decide anything. They
  count what really left the wallet, per real UTC day and per week since the
  *first* enrollment, so that the properties do not lean on the program's own
  counters, which are what could be wrong.

### The client, the prices and the allowance

* `SweepClient` has the client's names (`getSweepPull`, `nextSweepBoundary`).
  It reads the variables of `Laterite` as a client that fetched the accounts
  would; a check that throws is an empty pull. A session is the interval of
  instants of one day of the calendar. Whether the authority and the delegate of
  a subscription still stand is folded into whether it is open.
* `Price` takes the widths of its integers as constants, and every checked
  operation whose result does not fit is `Refused`, which what follows
  passes on, as `?` does. Its reference compares fractions by cross
  multiplication, with nothing rounded.
* `Budget` has no accounts, plans, pauses or prices. Under the mapping of
  `MCProgram` its `since` is `enrolled_at`, its `spent` is what `spent_at` says of
  the week of *now*, and its `bought` the tokens whose last sweep day is today. So
  counters the program brings up to date only in a sweep must behave as if they
  started over with the clock, and every instruction but `enroll` and `sweep` must
  be a stutter.

### The sweep runner

`Crank` stands on its own: of the program it keeps, per *key* (a payment token of
a user), the day of its last sweep and whether the user's account lets a sweep
pull anything at this instant (`pullable`). That is the part of `Laterite` the
runner decides from, and every change a user, the attestor or the market makes
to it is one action, `AccountChanges`.

* `run` is one call of `tick`: the clock and the kill switch read at its start,
  the candidates taken from one reading of the table, and the failures counted
  in that reading. It is stale from then on, as in the code.
* `sweep` is one call of `sweep`: the build it is at, the flags that outlive a
  build (`rebuiltAfter`, `refetched`, `freshRoute`), the day the cluster's state
  was read (`stateDay`), and whether the transaction is built, sent, landed or
  failed. Between any two of these steps the clock may tick, the kill switch
  move, others sweep and the process crash.
* `memory` is what a process keeps between runs: `closedBefore` and the
  deferrals. A crash empties it; the table stays.
* `attempts[k][d]` is the table: of each key and day, the number of rows
  `failed` and the sequence of rows with any other outcome.
* `stray[k]` is until when a transaction that the process no longer waits for
  may still land; its landing changes the program and tells nobody.
* Which balance, price, route, venue, simulation or error the runner meets is
  any it can meet in that state; `FailuresNow` keeps what an execution cannot
  answer in a state (it cannot say "already swept" of a key that is not).
* One clock stands for the cluster's and the host's. Excluded venues, alarms and
  the number of compute units are left out: they change which route is tried,
  never what is recorded.

### The watcher

`Watcher` stands on its own as well. Of each token account's user it keeps what
`attest` decides from: whether transfers count at all, and since when
(`attestable_from`). `TurnOff` and `TurnOn` change the two as `Laterite`'s
instructions do: whatever makes transfers count again raises `attestable_from` to
the instant it happens (`NoBackfill` is the property of that module that says so).

* `transfer[a]` holds the times of the account's transfers, one per transaction,
  and `finalized[a]` how many of them the cluster has finalized, which takes each
  at least `FINALITY` instants. `cursor[a]`, the table `watch_cursors`, is the
  number of transactions the account is done with.
* `tick` is one call of `tick`: the users read (all of them, `Reload`, or those
  the indexer has news of, `Refresh`), then the check of the deployment and the
  one reading of the clock (`StartScans`), then the scans.
* `scan[a]` is one call of `scan`: up to where the transactions were listed, how
  many are handled, the floor under which none is fetched, and whether an
  `attest` was sent and its answer is awaited. `Answer` is what may come back;
  a lost answer is `FailScan`, which leaves the attestation in `stray`, to land
  later or never.
* `known`, `watched` and `dirty` are the maps and the set in memory; a crash
  empties them and keeps the cursors. `Notify` may happen or not, at any time: a
  lost notification is one that does not.
* `record[a][i]` goes from `none` to `open` when a transfer is attested and to
  `closed` when `closeRecords` closes it.
* `ahead` is history: the transfers refused because they are later than the clock
  as the tick read it.
* Of several transfers in one transaction, the pages of a listing, failed
  transactions and the batches in which records are closed nothing is kept:
  a transaction is handled as a whole, and handling its transfers
  again finds their records.

### The operator's other loops

* `session` is who holds the advisory lock and `role` what each process believes:
  the session may end (`SessionEnds`) before its process learns of it
  (`ExitOnLoss`), and until then both run their loops, as `leader.ts` says. A
  process begins no round once it is stopping, and ends in the middle of one when
  it crashes. A process runs once; there are two.
* A database transaction is one action: `Store` of `Indexer` (rows, closings and
  the cursor), the use of a token and the link in `Answer` of `Bot`. What is not one
  transaction is steps: `Claim`, the outcome of the send, then `Revoke` or
  `Unclaim` in `Notices`; read, notify and write in `Alarms`.
* `history` of `Indexer` is what the program's transactions did, chosen once; a
  poll lists some of those finalized after the cursor it read, and stores them
  whatever other processes have stored since.
* In `Notices` a source is its place in time, so that `since` of a link and the
  window `old` are numbers of sources. A tick keeps what it selected; whether a
  source is worth a message is either, each time.
* `offset` of `Bot` is in the memory of a process; what Telegram has not been told
  of, it returns again.
* `accepted`, `unsent`, `answered`, `failed`, `told`, `last` and `muddled` are
  history.

### The sponsor and the faucet

* A refusal writes nothing, so it is a step that is not enabled. Any number of
  requests run at once; only `Claim` (and `ReserveGrant`) is under the lock and
  atomic. `Prepare` reads the limits and `RecordPrepared` writes later what it
  built; a second request for the same message finds its row and changes nothing.
* `rows[m]` is the row of the table `sponsorships`, with the block height until which
  the message may land as an instant; `request[m]` is the request that claimed
  it, `chain[m]` what became of the transaction. `Unclear` is a send or a wait
  that fails without a verdict, `Abandon` a process that stops: the first settles
  the row as failed, the second leaves it `sent`.
* Users leave and close their asset accounts at any time, so a message can fail
  on chain or create an account that had existed before.
* `paid` and `unaddressed` are history: which landings made the sponsor pay for an
  account, and which messages a request without an address claimed.

## What the runs check

| run | instance | properties |
|---|---|---|
| `plans` | one user, one token, two tiers (caps 3 and 4), trial cap 2, beta cap 3 or 4, plans and weeks of two instants, four instants of time; a daily engine below the trial cap, one above it, a weekly one | `TypeOK`; `WeekWithinCap`: what leaves the wallet in a week stays within the caps; `PullsWithinCap`: no pull brings the week above the caps as they are then; `PlansWithinPeriod`: Subscriptions never refuses a sweep for its period; `LeftPlansEnd`: a plan left cannot be pulled from that instant on; `ExitNeverBlocked`: a user can leave in every state |
| `tokens` | one user, two tokens, daily and weekly engines, days of two instants and weeks of three, a calendar with a hole, instants 2 to 7; beside it, the sessions around five dates and the prices of two feeds | `SweptOncePerDay`; `EngineOncePerPeriod`: one engine buy per day, or per week, over both tokens together; `PullStands`: what the client computed is what the program pulls until the boundary the client computed with it; `KeepsToBudget`: the program implements `Budget`; `SessionsAreNyse`: a loaded calendar says the market is open exactly when the NYSE is; `MinimumIsFair`: the minimum output is within two units of the worst price and refused only where it must be |
| `credits` | one user, two tokens, an income or a payment at the first instant, rules turned on and off; or three users within an instant, one or two seats and the kill switch moved at any time | `CreditedAtMostOnce`; `NoBackfill`: no transfer adds more than it was worth under the user's settings at every instant since; `PendingOwed`: nothing attested is pulled twice; `SeatsWithinBeta`: nobody takes a seat beyond the number of the moment, and the program's count is the number of users with a seat |
| `crank` | one key, two days of two instants and the start of a third, two builds, two failures a day, a crash, under `FairSpec` | `TypeOK`; `WordIsFinal`: once a day has its word nothing more is recorded of it; `FailuresBounded`: failures of a day are at most those a run may start with and one per build; `DayGetsItsWord`: a day whose attempts all failed is closed with a word once it is over |
| `crank_words` | days of three instants, without a crash | `NotBoughtWordsAreTrue`, which is violated |
| `crank_next_day` | days of six instants, three failures a day | `SkippedUntilNextDay`, which is violated |
| `operator` | the watcher: one account, two transfers, a time-to-live of one instant, a crash, under the fairness of its loop; two processes with, one at a time, the indexer over three transactions stored two by two, the notices of two sources, the bot and two updates of a chat; one alarm and two callers | `PassedOnlyWhenDone`: the cursor passes a transfer only if it is attested or can never count, or was later than the tick's clock; `TransfersHandled`: each finalized transfer is passed at last, while its user's transfers count and `Config` names this attestor; `TypesOK`; `HistoryComplete`: what the indexer's cursor passed is stored and each closing is applied; `NeverSentAgain`: no message Telegram answered for is sent again; `HandledMeansTold`: no notice is recorded as handled and never told, unless its process, the database or the chat failed; `UnlinkStands`: /unlink is not undone by a restart; `OperatorKnows`: the operator last heard of an alarm what its row says |
| `sponsor` | three messages of a wallet, requests with and without an address; or three grants of the faucet | `TypeOK`; `WithinLimits`: what the table counts is within every limit and window; `WaitIsEnough`: the wait told to a refused request is enough and not too long; `CountedAccountPaidOnce`: no asset account is paid twice by messages the table counts; `GrantsWithinLimits`: the same for the faucet's grants |
| `watcher_final` | one transfer, three instants, no crash | `RefusalsAreFinal`, which is violated |
| `sponsor_paid` | two messages of one wallet | `AssetAccountPaidOnce`, which is violated |
| `alarms_missed` | one alarm over two instants, repeated after two | `MissedIsDue`, which is violated |
| `milestone` | two sources, one with a milestone | `MilestoneStaysDue`, which is violated |

The six runs that end in a violation show where the code and what is said of it part:

* `packages/db/src/schema.ts:156` says that the table holds "the day's final word
  when the token is not bought that day". In the run a confirmation is lost, the
  attempt is recorded as failed, the transaction lands; the key is no candidate
  any more that day, and `closeDays` closes the day as `skipped`: a word for not
  buying, on a day that was bought. The user is told so by `notices.ts`.
* `crank.ts:68` says that a token that reached the bound on failures is skipped
  "until the next" day. The wait after the last failure has doubled with each
  failure of the day, up to a whole day, and outlives midnight: the key is
  still held back in the next day, and only a restart frees it.
* `refusals.ts:60` says of the refusals after which the cursor moves on that "the
  transfer can never count". A tick reads the clock once (`watcher.ts:149`); an
  account whose scan starts later than that by more than finality lists
  transfers of a later instant, which `attestRefusal` refuses as invalid. The
  cursor passes them, although the program would attest them, and nothing reads
  them again. It takes a tick of some 13 seconds: more accounts than are read at
  once, or a slow RPC.
* `packages/db/src/schema.ts:307` says that the sponsor pays for an asset account
  "at most once per wallet and asset". A send that ends without a verdict is
  settled as failed (`submit/route.ts:134`) and counts no more; in the run it lands
  all the same, its owner exits and closes the account, and a second message
  makes the sponsor pay for it again. `CountedAccountPaidOnce` says what does hold.
* `alarms.test.ts:58` says that what Telegram missed is delivered on the next run.
  A firing whose message fails keeps the `notifiedAt` of the row (`alarms.ts:60`); if
  that is of an earlier episode, less than `REPEAT_MS` ago, nothing is due.
* `packages/db/src/schema.ts:245` says that each notice, a goal milestone among
  them, "is handled once, across restarts". A tick that ends after a sweep's own
  notice and before its milestone leaves the sweep handled, and `notices.ts:103`
  selects milestones by their sweep: no later tick sees this one.

Seen while modelling and not a run, since nothing in the repository says otherwise
plainly enough, or the code names the case itself: a mint of the faucet that throws,
on a lost confirmation too, deletes its reservation (`faucet.ts:108`), and if it lands
all the same the wallet may be minted again within its 24 hours
(`api/faucet/route.ts:14`); of two chats of one tick, one
whose sends fail (not with a 403) ends the tick, and holds back later notices until
it leaves the window; a 403 revokes the link of its chat even if it was made
after the send began; an `/unlink` is answered while a tick in progress still sends to
the chat; of `[/unlink, /start]`, answered and not confirmed before a crash, the
second answer undoes the link, since the token is spent; an alarm's `FIRING` is
repeated after a crash between its delivery and its row, and a `RESOLVED` that
fails is not tried again; and a wake-up between a reader's check and its wait is
lost in `crank/prices.ts`, at the cost of its timeout.

Bounds, and why they are enough:

* Of the program, time (`MaxTime`) is the only counter that needs a bound. `plans` reaches
  past the trial and a second week for a user who enrolls early, and past two
  plan periods. `tokens` covers three days and two weeks out of phase,
  and a plan's period that runs out by itself in the middle of a day, after
  a week has turned, where that is the earliest of the client's boundaries; to
  get there the user enrolls at the first instant and does not
  pause (`EarlyUser`), which `plans` and `credits` leave free. `credits` goes past
  the transfer's time-to-live, so a closed record can be followed by a second
  submission.
* Amounts are a few units, chosen so that each cap binds in some state: the
  trial cap below an engine amount, the beta cap between the tiers, an engine
  above and below what the plan has left.
* One user is enough for everything but the seats: no instruction of one user
  reads another's account. So `credits` follows either one user and all of the
  transfer, or three users within an instant, while nothing is attested and one
  token is in use (`CreditsOrSeats`). Three are one more than the seats there ever
  are: the admin can lower the beta below two who have a seat, and the third asks
  for one. Seats do not depend on time.
* A calendar of the `Market` instance spans three days (`CALENDAR_DAYS`, 366 in the
  code; these lengths and days are constants of `tokens`) and starts on one of four
  consecutive days, at the earliest and latest dates on which New York changes its
  clocks (the Fridays before the second Sunday of March and the first of
  November, of two years in which they fall on the ends of their ranges) and at 2 July
  2026, with an early close or a holiday beside a weekend. The instants are the
  opens and closes of the sessions in either offset, the second before each, and the
  ends of the day: neither side's answer changes anywhere else.
* Prices and amounts of five bits, products of ten, against the code's 64 and 128:
  the widths keep their proportion, so the products that overflow there do here.
  Exponents from -1 to 1 and 0 or 1 decimals make the scale positive, zero and
  negative. A basis point is a twentieth of the whole, so that both roundings
  and the slippage move a price of a few units.
* `TokenSymmetry` in `tokens` exchanges the two payment tokens, which nothing
  in that instance distinguishes; only safety is checked under it.

* The keys of `Crank` meet only in that one waits for the sweep of another, which
  the clock's ticks between any two steps stand for; so one key is enough. The
  proofs hold for any number.
* Days of two instants with a margin of one leave one instant to build and one to
  be too late, and transactions may land an instant after they are sent, so a
  sweep can be built on one day and answered on the next. Two builds and two
  failures make the bound on failures and the last build be reached in
  one run, and with one failure before it. The waits of `crank_next_day` need a
  day long enough for a doubled wait to start and not end in it.
* One crash is enough to lose the memory at any point; `MaxCrashes` in `crank`
  and `operator` is 1. `crank_words` and `crank_next_day` need none.
* The accounts of `Watcher` meet only in that one waits for another's scan
  (`SCAN_CONCURRENCY`), which the clock's ticks between any two steps stand for, so
  one account is enough; the proofs hold for any number. Two transfers are what
  it takes to leave one for later and handle the other, or to handle one and stop
  before the other. Two instants after the first let a transfer be finalized,
  expire, be turned off and on again, and its record be closed. `FINALITY` is one
  instant: what matters is only that a tick may last longer.
* Two processes are what a handover has: the one that lost the lock and the one that
  got it. Three transactions stored two by two leave a last, smaller batch, and
  let two polls of different length interleave; one record is attested in any of
  them and closed in any later one. Of the notices, two sources order a tick and
  let it end between them; changes of the link are explored with one source
  (`Few`), and two of them unlink and link again. Two updates are an `/unlink` after a link, or
  two tokens. Two callers of `set` are any two loops.
* Three messages of a wallet are one more than a day allows it, and a month allows it
  one return; an address has one send a day. A day of one instant and a month of
  two let either window pass while the other holds, and `PREPARED_TTL` of one
  lets a message go stale. Three grants, two wallets and one address do the same
  for the faucet. Days of the sponsor and the faucet start nowhere: their windows
  slide.

The on-chain program is checked without fairness: its properties are safety
properties, and the cranks may stop. `FairSpec` of `CrankProperties` assumes what
`loop.ts` and the process give: weak fairness of the runner's own steps
(`Progress`; the loop calls `tick` again after every outcome, a request ends with
an answer or an error, and the process is started again after a crash), weak fairness of the
clock, and strong fairness of `CloseDays`: each run tries it again until it
succeeds, and the database, which may refuse it, does not refuse it forever. Weak
fairness would not do there, since a failed run disables it for a moment. Nothing
is assumed of landings, users or others' sweeps. `FairSpec` of
`WatcherProperties` assumes weak fairness of the watcher's own steps (`loop.ts`
calls `tick` again each second whatever it did, and requests end), strong
fairness of `Reload`, which is due again every five minutes and could lose to
`Refresh` any finite number of times only, and that reads, requests and
answers do not fail for ever (a failed tick or scan that does what one with nothing
left to do does is no failure there); of notifications, users and the attestor's name
nothing. `FairOperatorSpec` of `MCOperator` is the same, said of the behaviours that
are the watcher's; the other loops are checked for safety only.

The check for deadlocks is off where the system may stop: the processes of
`Leader` run once, as a process does, and the messages, grants, updates and
transactions of an instance run out (`Operator.cfg`, `Sponsorships.cfg` and the
configurations of the same instances that end in a violation). It is on in all
the others.

Each property is accompanied by a faulty form of a definition it depends on (the
definitions marked *Faulty*), under which TLC finds it violated.

## What is proved

Every safety and action property that a passing run checks is also a theorem, but
one, which is named below with the two liveness properties.

Of the program, for every finite set of users, every set of transfers, tokens and tiers, all
caps, lengths of days, weeks and periods, and all calendars:

| theorem | property |
|---|---|
| `TypeCorrect` (`LateriteProofs`) | `TypeOK` |
| `CreditedOnce` (`LateriteSafety`) | `CreditedAtMostOnce` |
| `SweptDaily` | `SweptOncePerDay` |
| `WeekCapped` | `WeekWithinCap` |
| `PullsCapped` | `PullsWithinCap` |
| `EngineOnce` | `EngineOncePerPeriod` |
| `SeatsStayWithinBeta` | `SeatsWithinBeta` |
| `PlansKept` (`LateritePromises`) | `PlansWithinPeriod` |
| `PendingIsOwed` | `PendingOwed` |
| `PlansLeftEnd` | `LeftPlansEnd` |
| `NothingBackfilled` | `NoBackfill` |
| `NothingWithheld` | a sweep takes all that is due or leaves a cap reached, and never touches the cushion (no run states it: the instances keep no cushion but 0) |
| `BudgetKept` (`ProgramProofs`) | `KeepsToBudget`: `Laterite` implements `Budget` |
| `ForecastStands` | `PullStands` |
| `MinimumFair` | `MinimumIsFair`, for every width of a price, with products of twice that width, and all prices, exponents, decimals, confidences and slippage |
| `SessionsKept` | `SessionsAreNyse`, for calendars of every length, loaded on any days before 2100 |
| `SessionsAgree` | the same of one instant from 1970 to 2099, and any two lists of days |

Of the sweep runner, for every set of keys, any bounds on builds, failures and
crashes, and any lengths of days, margins, waits and landings:

| theorem | property |
|---|---|
| `FailuresAlwaysBounded` (`CrankProofs`) | `FailuresBounded` |
| `WordsAreFinal` | `WordIsFinal` |
| `CrankTypes` | `TypeOK` |

Of the watcher, for every set of accounts and any times to live, finality,
numbers of transfers, scans at once and crashes:

| theorem | property |
|---|---|
| `WatcherTypes` (`WatcherProofs`) | its `TypeOK`, a part of `TypesOK` below |
| `CursorPassesOnlyDone` | `PassedOnlyWhenDone` |

Of the operator's other loops, for every set of processes, callers, records and
tokens, and any number of transactions, of them in a batch, of sources, milestones,
updates and instants. Of the notices the two theorems hold of every behaviour of
`Notices`, with any number of changes of the link; the others are about
`OperatorSpec`, in which the link changes only where there is one source (`Few`):

| theorem | property |
|---|---|
| `NoGapInHistory` (`OperatorProofs`) | `HistoryComplete` |
| `NoticeSentOnce` | `NeverSentAgain` |
| `HandledWasTold` | `HandledMeansTold` |
| `UnlinkIsFinal` | `UnlinkStands` |
| `RowIsHonest` | `OperatorKnows` |
| `OperatorTypes` | `TypesOK` |

Of the sponsor and the faucet, for every finite set of messages and grants, all wallets,
addresses and assets, and all positive limits and windows:

| theorem | property |
|---|---|
| `LimitsHold` (`SponsorshipsProofs`) | `WithinLimits` |
| `WaitSuffices` | `WaitIsEnough` |
| `PaidOnce` | `CountedAccountPaidOnce` |
| `SponsorTypesOK` | `TypeOK` |
| `GrantsHold` | `GrantsWithinLimits` |

The assumptions are the ASSUMEs of the modules, which TLC evaluates in every run:
amounts are naturals, days, weeks, periods and the change step are positive, tier caps and
the trial cap fit `U64_MAX`, the users are finitely many (for counting them) and tier 0
exists (the default settings name it). `CalendarAssumption` of `SweepClient` says that a
day's session is one interval of it, as `market.rs` has one open and one close per
day. `OperatorAssumption` says that a batch holds at least one transaction, that milestones are
sources', and that no token reads `/unlink`. `PricesAssumption` of `MCProgram` says that a
product is twice as wide as a price, as 128 bits are of 64, that a whole of basis points fits a price
and that the confidence accepted and the slippage are parts of a whole; its `SessionsAssumption`
says that a calendar's lengths and days are naturals, and its behaviours end before 2100. `WindowsAssumption`, `LimitsAssumption`
and `FaucetAssumption` say that limits and windows are positive.

The argument, in each case, is an inductive strengthening.

### The program

* `TypeInv` adds `PeriodsStarted`: no subscription's period starts in the
  future. Without it the start of the current period, hence an expiry, need not
  be a natural number.
* `CreditInv`: a transfer never credited has no record; one that was credited
  has a record expiring a time-to-live after it, or that instant has passed.
  So when a record may be closed the transfer is too old to be attested.
* `DayInv`: a token swept today has today as its last sweep day, and last sweep
  days are never in the future.
* `WeekInv`: `enrolled_at` is the first enrollment whatever exits and returns
  happen; what `week_spent` says for the current week is what was pulled in it,
  saturated; and nothing was pulled from a wallet that never enrolled.
  `WeekWithinCap` follows because a pull adds at most the room the cap leaves.
* `EngineInv`: a day or a week in which the engine bought has `engine_ran_at`
  in it.
* `SeatsWithinBeta` rests on `SeatsCounted`, the count being the number of seated
  users, which is inductive as it stands: a step adds a member to that set where the
  count leaves room, takes one away or keeps the set (`SeatSteps`), and the work is in
  the cardinality of the set when one member joins or leaves (`SeatsStep`).
* `PlansWithinPeriod` needs no history: the program's remaining amount
  counts the period as Subscriptions does (`PeriodTurns`, `PulledWithin`), and
  the two can only part by the period turning, in which case nothing was pulled in it.
* `PendingOwed` is kept because what a sweep takes from `pending` it takes from what
  is owed (`PullTakesPending`), and every other instruction adds to both, lowers
  the first or leaves it (`PendingSteps`).
* `PlansInv`: who has no seat has no payment tokens, so a return leaves no plan behind.
  With it each control is shown to cancel whatever it drops (`PlansLeft`), and a
  cancelled plan is refused from that instant on, whatever state it was in (`CancelledIsOver`).
* `BackfillInv`: what a past transfer would add now is no more than it was
  worth under the settings at any instant since it happened. Controls either keep
  `attestable_from` and count no more than before, or raise it to now
  (`AttestableSteps`), which puts every past transfer out of reach.

Most steps leave the counters these invariants speak of alone. That is proved
once (`ControlsKeepCounters`, `AttestKeepsCounters`, `StepCases`), and each
invariant is then proved for the sweep, the clock, enrollment and those
harmless steps.

* `BudgetKept` is the refinement: `Init` implies the allowance's, and under `ProgramInv`
  each step is a tick, a joining, a buy or a stutter of `Budget` (`AllowanceTick`,
  `AllowanceJoin`, `AllowanceBuy`, `AllowanceKept`). `BudgetInv` keeps 0 from being
  taken for a day or a week: the clock starts after the epoch's first day, and who
  never enrolled has spent nothing and swept on no day.
* `ForecastStands` has two halves. In every state the client's amounts are the program's
  (`ClientMirrors`): its week is the week of `week()`, its saturating and
  clamping are the same minima. And between two ticks in which nothing touched the account, none
  of the quantities they are computed from moves before the earliest of the
  boundaries (`BoundariesAhead`): the day, the week, the session and the plan's
  period are the same at the next instant (`SamePeriod`, `SessionStands`,
  `RemainingStands`). That the earliest is a smallest element is
  well-foundedness of the naturals (`MinNat`).
* `MinimumFair` is about the state of the feeds alone (`FeedsInv`). What a swap is worth is a
  fraction `X / Y` of naturals whichever way the exponents put the power of ten; the two
  roundings lose less than two units of it (`RoundedTwice`); a product that does not fit means a
  worth above the half that does (`OverflowIsLarge`) or below two units (`OverflowIsSmall`).
  That a power of ten is a positive number is not built into the provers: `PowersOf10` proves that the
  recursive function exists, from well-foundedness.
* `SessionsKept` compares the program's sessions with those of the civil calendar. A day count
  lies in one year and one month (`YearFound`, `DateOf`), and the code's arithmetic on the
  count gives that month and day. So the program is in daylight time from the second Sunday of March to the
  day before the first of November (`DaylightDays`), and its one offset per UTC day is New York's
  but on those two Sundays, when New York is still in Saturday or in Sunday (`LocalTime`). Where
  New York is a day behind UTC, its sessions of that day are over and the next have not begun. The
  bits, counted from the day a calendar was loaded on, say of each later day what its lists
  said (`ClosuresKept`). `SessionsAgree` puts these together without a state;
  `SessionsInv`, that the account holds the lists last loaded, carries it through a behaviour.
* `NothingWithheld` follows the three minima of a sweep: what it pulls is what is due, cut to the room
  the week leaves, to the balance above the cushion and to what the program believes the plan has left
  (`PullIsDue`). `WeekInv` says that the first is the week's cap less what was really pulled, and
  `PlansWithinPeriod` that the last is what Subscriptions would allow (`RemainingUsed`). Together with
  `PullsWithinCap` and `WeekWithinCap` it says that the caps are what limits a sweep, and
  nothing else is.

### The sweep runner and the watcher

* `RunInv` of `CrankProofs` says what a run still knows although it read the
  table long ago: no row exists for a day to come (`NoRowsAhead`); every day from
  the run's own on is open, with room for all its builds, for each key it has yet
  to take (`RunKnows`) and for the key it is sweeping, with one failure per build
  used (`SweepKnows`). So a sweep that goes on after midnight still writes to a
  day without a word, and `closeDays` only touches days before the run's. Every
  step of a sweep is first shown to end it with at most one row, to build again
  after at most one failure, or to go on without a row (`BuildStep`,
  `AnswerStep`, `ThrowStep`); the invariant is then proved for those three.
  It rests on there being one sweep at a time in one process.
* `CrankTypes` needs that a wait is a number, and a wait doubles with each
  failure: `PowerOfTwo` has that from the number of subsets of a set, since the provers
  know nothing else of exponentiation.
* `Inv` of `WatcherProofs` says that what a scan has handled is done with, as what
  the cursor is past of is, and that what a scan or a tick read before is not
  ahead of the world: the tick's clock is not later than the clock, the users it
  remembers count from no later than they do now, and so what is under a scan's
  floor is too old or from before its user's transfers count, still. Its other half
  is that *done* lasts: a finalized transfer is older than now (which is why
  `FINALITY` is positive), so raising `attestable_from` to now, as whatever turns
  transfers on does, cannot make it count again (`DoneStays`).

### The operator's other loops

Each of these four invariants is about two processes, or two calls, of which one acts on what
it read before the other did.

* `IndexerInv`: what is stored has no gap below it, and what a poll goes on from is
  stored. So a process that lost the lock can only store again what is there, or go on
  from there, however late it stores; and since a closing is recorded with the
  transaction that made it, storing again neither loses nor moves one (`ClosedOnce`,
  `IndexerStore`).
* `NoticesInv`: no two processes have one notice in hand; a notice in hand is recorded as handled and
  not answered for; and what Telegram answered for stays recorded. A claim succeeds only
  where there is no row, and only the process that has the notice in hand may take its row
  away, before any answer: that is why no second message is sent
  (`NoticesClaim`, `NoticesUnclaim`). `HandledMeansTold` is carried along with it.
* `BotInv`: what Telegram was told is done, what a process would confirm and what it
  answers next have no unread update before them, and an update that was answered has a spent token.
  Updates read again after a restart therefore cannot redo a link, but for one that
  follows an answer that failed.
* `AlarmsInv` has two parts. Whatever calls interleave, a row, and a row that a call read or will
  write, claims only a notification that was made (`Honest`). And while calls
  came one after the other, the row says what the operator heard last (`Settled`), with, for
  each stage of a call, what is true in between (`Alone`).
* `LeaderTypes`, the four invariants' types and the watcher's (`WatcherAlways`) give `TypesOK`.

### The sponsor and the faucet

* `SponsorInv` ties each message's row, its request and its transaction to each other: a message is
  recorded once, its request works on the row it claimed within `PREPARED_TTL`, nothing is sent before it
  is claimed, and no two messages that count pay for one account. That a message created an account
  means that it landed, so the row counts unless it was settled as failed, which is
  the case `sponsor_paid` shows.
* `LimitsInv` is `WithinLimits` in the cardinalities the table's queries compute. Only a claim makes
  a message count, and it reads the same windows under the lock (`UnderLimits`, `LimitsClaim`); all other steps, the clock
  among them, only let messages out of them (`CountsLess`, `LimitsKept`).
* `WaitSuffices` is about the state alone: a refused request is told the time until
  the row leaves the window that must leave it, so by then fewer are
  counted than the limit, and one instant before they are not (`RefusedAtLimit`).
* `FaucetInv` is the same as `LimitsInv` for the grants, of which a failed one is taken out again.

### Only model-checked

* `TransfersHandled` of `Watcher` and `DayGetsItsWord` of `Crank` are liveness properties.
* `ExitNeverBlocked` of the program is about ENABLED. What could block an exit, besides not having a
  seat, is a cancellation Subscriptions refuses; that it refuses none in any reachable
  state is proved (`CancelsAlwaysAccepted` of `LateritePromises`, from `TypeInv`).

Liveness and ENABLED are out of the provers' reach.

## What is not modelled yet, and the plan

In this order:

1. The administration's handover (`propose_admin`, `accept_admin`), `create_plan`, and
   the addresses a route may name.
2. The crank in two processes, as the other loops are. Nothing in the table keeps a
   day to one word, so what `Crank` shows of the table it shows of one process: one
   that lost the lock and goes on with its run beside the next one may record an
   `already_swept` after the other's `landed`, and its failures beyond the bound.

The hazards in `PROJECT.json` name the properties that are about them, except one: of a
reservation of the faucet that was released although its mint lands, the code keeps
nothing, and `GrantsWithinLimits` speaks of the grants that were kept. Of two more they
cover a part only. A claim left behind by a process or a database that fails loses its notice by
design; `HandledMeansTold` excuses it, and would catch a claim kept after any other failed
send, while `NeverSentAgain` holds through all of them. And under overlapping calls of an
alarm's `set`, `OperatorKnows` says only that the row claims no notification that was not
made, so that one that is not due was told within the last `REPEAT_MS`; which message the operator
heard last is tied to the row only while calls do not overlap. Of the code, the
modules cover the program but for its account constraints, and of the operator,
the client and the application the parts that decide something in more than one
step; most of the remaining lines are generated clients, pages, translations,
devnet tooling and the decoding of transactions, in which there is no state to go
wrong between two steps.

Left out on purpose: the generated client, the applications' pages, the
translations, deployment and devnet tooling (no state of the system); the
pool re-pegging (devnet only, numerical); the layout of the ed25519 instruction
and the addresses of accounts (what they establish is an assumption here); the
narrowing of the week to 32 bits in `amount.rs`, which needs a clock beyond
eighty million years.
