# casino_bot: specifications, model checking and proofs

This directory holds TLA+ specifications of casino_bot, a Telegram game bot with a
FastAPI administration and billing service over one PostgreSQL database.  The
specifications are translated from the Python source under `src/src/casino_bot`
(paths below are relative to it).  `PROJECT.json` maps every definition to the lines it
models and lists components, runs, mutants, findings, hazards and theorems.

## 1. Inventory

Two kinds of process share the database: the API (uvicorn; synchronous endpoints in a
thread pool) and the polling bot (game work in a thread, one update after the other
within a process).  Sessions run at READ COMMITTED with autoflush off.

| component | state | operations | interacts with | hard behaviour | what makes it correct |
|---|---|---|---|---|---|
| Game round service (`services/game_round_service.py`) | `game_rounds` | `execute_game_round` | economy, database | duplicate keys inserted at once, failures between insert and adjustment, failure record in a second transaction | a key is decided once; a ledger line exists exactly for a committed round |
| Game engine (`games/`) | none | `run_game_detailed`, `compute_outcome` | round service, metrics, settings | reads before the row lock; cooldown read in a statement of its own | refusals change nothing; stakes are covered; cooldown is kept |
| Token economy (`services/economy_service.py`, `compliance/`) | `token_accounts`, `ledger_entries` | `adjust_user_tokens`, `create_user` | round service, admin API | row lock against the ORM's identity map | no overdraft; the balance is the sum of the ledger |
| Game metrics (`core/metrics.py`) | process counters | `record_game_round_completion` | engine | recorded before the commit | a persisted round is counted once |
| Telegram handlers (`telegram_bot/handlers.py`) | none of their own | `/start`, `/balance`, `/flip`, `/wheel`, callbacks, history | engine, rate limiter, Telegram | redelivery, crash between commit and reply, first contact twice | no update is lost; one update has one effect and one story |
| Billing webhooks (`services/billing_service.py`, `billing/`) | `billing_webhook_events`, `subscriptions` | receive, process, replay, replay failed, undelete, clean up | providers, admin API, retention job | duplicates, reordering, replay of old events, clean-up of idempotency keys, unexpected errors | an event has at most one effect; every event ends processed, ignored or visible as failed |
| Subscriptions and entitlement (`services/entitlement*.py`, `services/subscription_admin_service.py`) | `subscriptions` | cancel, resume, test plans, paywall | webhooks, admin API | stored flag against the period's end; two writers of one row | flag and gate agree but in known cases; what a deactivation has closed stays closed |
| Provider adapters (`billing/providers/`) | none | parse, normalise | webhooks | unknown statuses | every payload maps to a known status |
| Admin sessions (`admin/security_service.py`, `core/security.py`) | `admin_sessions` | login, refresh, logout, logout all | admin accounts | two refreshes with one token, logout of all against a refresh | a refresh token is used once; no session outlives a logout of all |
| Login lockout (`admin/security_service.py`) | `admin_login_locks` | fail, lock, clear | login | counter read and written without a lock | enough failures lead to a lock |
| Admin accounts and roles (`services/admin_accounts_service.py`) | `admin_users` | create, activate, role, password | sessions | changes while tokens are out | a deactivated admin gets no new session or token; the access tokens it has last until they expire |
| HTTP rate limiter (`core/security_middleware.py`) | queues per key | `dispatch` | all requests | check and append on both sides of an await | the limit holds in every window |
| Telegram rate limiter (`telegram_bot/rate_limit.py`) | queues per user | `_allow` | handlers | sliding window at its limit | the limit holds in every window |
| Start-up, middleware, logging, settings, migrations, scripts, monitoring | - | - | - | sequential or pure I/O | - |

## 2. Plan

1. `RoundLedger`, `GameRounds`, `MCGameRounds`, `GameRoundsProofs`: rounds against the token
   ledger, the core of the system.  **Done.**
2. `EventInbox`, `BillingWebhooks`, `MCBillingWebhooks`, `BillingWebhooksProofs`: receive,
   process, replay, undelete, clean up.  **Done.**
3. `AdminSessions`, `MCAdminSessions`, `AdminSessionsProofs`: login, refresh rotation,
   the logouts, changes of accounts.  **Done.**
4. `LoginLockout`, `MCLoginLockout`, `LoginLockoutProofs`: attempt window and lock, with the
   HTTP throttle of the login paths in front.  **Done.**
5. `Subscriptions`, `MCSubscriptions`, `SubscriptionsProofs`: the paywall and everything
   that writes the rows it reads.  **Done.**
6. `TelegramBot`, `MCTelegramBot`, `TelegramBotProofs`, `TelegramLimitProofs`: the adapter from an update to its
   answer, with first contact, the limiters, delivery and crashes.  **Done.**
7. Left: the other keys of the HTTP limiter; changes of passwords.

Every module takes its sets and limits as CONSTANTS with named assumptions, has one
action per operation or statement, and declares no RECURSIVE operator.

## 3. What is modelled

### RoundLedger

The promise to callers: a key is decided at most once, for ever, and a committed decision
posts its ledger line in the same step.

### GameRounds

Implements RoundLedger.  A *worker* is a database session of the bot inside
`_telegram_game_work` (`RunGame`), or a caller of `execute_game_round` without the engine
(`ExecuteDirectly`, as the tests and the exported service allow).  An *admin* is a session
of the API inside the token adjustment endpoint.

* One action per statement, because READ COMMITTED gives each statement its own snapshot:
  `Lookup`, `Gate` (unlocked account read), `CheckCooldown`, `Execute` (second lookup and
  validation), `Insert` (flush; waits for an open duplicate, fails on a committed one),
  `Poll`, `Adjust` (SELECT FOR UPDATE, compliance, status), `RecordCompletion` (with
  `CountFirstWrite`, the counter of first writes), `Commit`, `Answer`.
* The tables `rounds`, `charged`, `balance`, `posted`, `cooling` are the committed state.
  What a transaction has flushed is in `row`, `via`, `acct` of its session, and other
  sessions feel it through `accountLock` and the unique index (`IndexFree`).
* `acct` is the account object of the identity map.  The engine loads it without a lock;
  the locked query returns the same object unrefreshed (no `populate_existing`), and the
  flush writes the absolute sum.  A direct caller and an admin load it under the lock.
* `FailRound`, `SaveFailure`, `Raise`, `AdminAbort` are statements that fail at any point;
  `BotCrash` is the death of the bot process with whatever it has open.  An update may be
  delivered again at any time, which covers lost replies and retries.
* The random outcome is any payout of the game.  Time is reduced to `cooling`, from which
  a slot may drop at any moment.
* `charged` and `posted` are history of the ledger table: the lines of each key and the
  sum of each user's lines.

Left out: audit rows, texts, `details_json`, the float copies of integer columns; first
contact of a user is in `TelegramBot`, the entitlement check before an adjustment in
`Subscriptions`.  The adjustment's other failure (unknown user) ends like `AdminAbort`.

### EventInbox

The promise of the webhook endpoint and its operators: an event that is on record is not
taken in again, it counts as processed only together with its effect, a replay settles it,
the provider is told of it only once it is on record, and only what is settled is forgotten.
`TryAgain` may turn processed into failed: two replays of one row may, in the code.

### BillingWebhooks

Implements EventInbox.  A *hook* is an API process inside the webhook endpoint: the handler is a coroutine that
does not await between reading the body and answering, so a process serves one webhook at
a time.  A *replayer* is a thread inside the superadmin's replay endpoint.  The batch
replay is a series of single replays.

* `Deliver`, `Insert`, `Map`, `FindById`, `FindByCustomer`, `SaveDelivery`, `Reply` follow
  the endpoint statement by statement; `Replay`, the same middle and `SaveReplay` follow
  `replay_webhook_event`.  `Refuse` is the flush that fails (subscription id taken, event
  row deleted meanwhile).
* `inbox`, `subs`, `linked` are committed state; a session's snapshots are `seen` and
  `seenSub`.  `InboxEntryFree` is the unique index on the event id: a second insert waits
  for the open one.
* No row is read with a lock, and an UPDATE sets only the columns whose value differs from
  the one loaded (`Column`, `MergeSub`), so two sessions can mix their columns in one row.
* What an adapter parses from a payload is constant: `EventCustomer` ("none" if it names no
  customer), `EventSub` (`NoSubId` if it has no subscription id), `EventStatus`, `Ignorable`
  (no status: Paddle only; or the empty id), `Hinted`, `Lapsed` (period and grace over).  An
  event without a subscription id skips `FindById`, one without a customer
  `FindByCustomer`, and rows without an id do not collide.
* `Listed` is the query behind the list of events by status, which operators work from.
* `KeepErrorRow` is the generic `except` of `safe_process_webhook` after an error that does
  not come from the database (which would take the row with it); `Fail` is any other
  failure, a lost response or the death of the process.
* `LinkCustomer` gives a user the provider's customer id (by checkout), `UndeleteDeadLetter`,
  `GrowOld` and `CleanUp` are the admin's and the retention job's; time is reduced to `old`.
* `acked`, `applied`, `cleaned` are history.

Left out: the other columns of a subscription (plan, period, cancel flag: written like the
status), the audit rows, cancel and resume, an error at the entitlement computation itself
(only a period end past the calendar raises there).

### AdminSessions

A *thread* serves one request of the admin API.  It loads rows (`LoginVerify`,
`RefreshLoad`, `RefreshOwner`, `LogoutLoad`, `LogoutAllLoad`, `PatchLoad`), decides, and
writes and commits at its end (`LoginIssue`, `Rotate`, `LogoutSave`, `LogoutAllSave`,
`PatchSave`); `Abort` is a refusal or a failure in between.  No row is read with a lock.

* `accounts` and `sessions` are the tables, `access` the claims of the access tokens in
  use, which name no session and are not stored.  A session row is the refresh token that
  belongs to it; signatures and hashes are taken to hold.  Revoked and expired tokens are
  refused alike.  `AdminToken` and `SuperadminToken` are the two guards, `NewAccount` the row
  that `CreateAdmin` inserts.
* The rows that `rotated_from_session_id` chains together share a `root`, the session of
  the login.  `raced` collects the roots of which two requests had the same session in
  hand: the history that lets the properties name their exceptions.
* The login name is lower-cased (`admin/security_service.py:159`) and an account's e-mail
  is not: an account in `MixedCase` never logs in.
* `PATCH` may change activity, role or both; a column is written when it differs from the
  one loaded.  Sessions and tokens of a deactivated account stay.

Left out: passwords and their change, which nothing here looks at; audit rows.

### LoginLockout

One identity, several addresses.  A *thread* is a login request: `Arrive` compares the
throttle's count, `Refuse`/`Admit` is `assert_not_locked`, `LoadFailure`/`SaveFailure` is
`record_login_failure`, `LoadClear`/`SaveClear` is `clear_login_failures`, and `Reply` is the
401 that the middleware counts after the response.  A refusal by the lock and an error are
not counted.

* `locks` is the table, without a unique index on identity and address, so two first
  failures may insert two rows.  A save writes the columns that differ from the loaded
  ones (`MergeFailure`, `MergeClear`).
* Time is `WindowEnds`, `LockEnds` and `HitExpires`, at any moment.
* `tried` counts the failures of an address in its window and since its last lock, as an
  observer would; `raced` names the addresses with two requests between load and save.

Left out: the limiter's other keys (every request, token reads), which count in the same
way without the lock behind them; whether a password is right is the environment's choice.

### Subscriptions

The rows of one user.  A *thread* serves the superadmin (`Activate`, `Deactivate`, `Link`), the
user (`Cancel`, `Resume`, `Checkout`) or a webhook (`Hook`), each a load and a save, and `Gate`
is the paywall in front of the token endpoints.

* A row has its plan, provider, id, status, cancel flag, the stored `entitled` flag, and
  `period`: no end, an end in the future (grace included), or past.  `PeriodEnds` is time.
* `latest` are the rows that were updated last: cancel and resume take one of them whatever
  its provider and status, and Stripe's adapter answers "active" to both.  `updated_at` is
  assigned before the commit, so the last to commit need not be the latest: `since` is what
  other threads have saved since a thread loaded, and `SetLatest` lets any of it stay ahead.
* A save writes the columns that differ from the loaded ones (`Column`, `Merge`).  `period` is
  coarser than the column, so `Redated` lets a new date that falls on the same side of now be
  another date or the same; a loaded date counts as what it was when it was loaded.
* `ended` are the rows that a deactivation has saved, until an activation or a webhook saves
  them.
* Of the statuses, "past_due" stands for "paused" and "unknown" as well.  The link request
  accepts any provider and status string; the model has Stripe and the known statuses.
* `sold` and `crossed` are the history of checkouts, `raced` the rows two requests had in
  hand at one time.

### TelegramBot

A *bot* is a polling process, which handles one update at a time; an update is a verb, a
game and a user.  A round is one step here (`Play`, `Replay`, `EngineRejects`, `WorkFails`):
how concurrent sessions decide a key once is the subject of `GameRounds`, and nothing of it
is claimed again of this module.

* `Fetch` is getUpdates: it confirms what the bot has fetched before, so that Telegram
  forgets it, and returns what comes after `offset`.  The library fetches while handlers
  run and queues what it gets (`fetched`); `Take` hands the oldest to its handler.  Telegram
  has one confirmed offset for all who poll, so one bot can confirm what another has not
  fetched; it also breaks off the older of two open polls, which is left out.
* Each await is a step: `Answer` (of the button's query), the gates and limiters
  (`Disabled`, `Usage`, `Limited`, `Admit`), the commands that only read (`Help`, `Catalogue`,
  `HistoryOfRounds`), `LookUp` and what `Start`, `Prompt` and the round make of it
  (`ensure_telegram_user`, two statements), `LogRejection`, then `Voice`, `Edit` with its
  fallback `ReplyText`, `Encore`.  `GiveUp` is an exception nothing catches: of a call to
  Telegram (`CallFails`) or of a read without a handler for errors.
* `Accepts` are the engine's first checks, which come before the look at the key: a bot with
  other settings rejects an update whose key already has its round.
* `Key` is `command_idempotency_key` or `callback_idempotency_key`.  A second tap on a button
  has a callback id of its own, hence a key of its own and a round of its own.
* `buckets` are the limiters' queues, in memory, lost in a crash.  `Pruned` drops their
  leading entries that have `Expired`, as the loop of `_prune` does.  The clock moves when a
  limiter looks at it, as nothing else does.
* Production has exactly one poller (`docs/ops/telegram-polling-production.md`, a systemd unit
  with `Restart=on-failure`).  Two bots are a deployment that overlaps the one it replaces,
  with settings that may differ; `StartBot` drops the pending updates as `run_polling` is
  told to.
* `played`, `told`, `results`, `excused` and `admitted` are history.
* A user and its account are one step, because one transaction inserts both; the branch of
  `adjust_user_tokens` that inserts a missing account (`economy_service.py:81`) is not
  reached.

Left out: wording, keyboards, the parsing of arguments (a choice of the verb), logging.

## 4. Runs

| run | instance | question |
|---|---|---|
| `concurrent` | 2 workers, 1 admin, 1 user, an engine key and a direct key | all safety properties and the refinement, under every interleaving, failure and crash |
| `progress` | 2 workers, 1 admin, 1 key | every update ends |
| `single_bot` | 1 worker, no admin, 2 coin flips, a wheel, 2 direct keys of which one is above the limit | ledger equals balance, cooldown holds, the metrics miss no round |
| `stale_read` | 1 worker, 1 admin, 1 key | ledger equals balance with an admin at work: **violated** |
| `delivery` | 2 hooks, 1 replayer, 2 events of one subscription | the safety properties of the webhooks and the refinement |
| `retries` | 2 hooks, an event without a subscription id and an ignorable one | every event is answered in the end |
| `unsupported` | 1 hook, a subscription's first event and an invoice's | unsupported events are ignored: **violated** |
| `stranded` | 1 hook, 1 replayer, 1 event | what was not processed is listed as failed: **violated** |
| `sessions` | 2 threads, 3 session ids, 2 accounts, 1 change of an account | what rotation and the logouts end, what a deactivated account can gain |
| `lockout` | 2 threads, 2 addresses, 3 lock rows, 5 requests | the lock comes, a success forgets, the throttle's overshoot is bounded |
| `subscriptions` | 2 threads, 2 rows, 3 requests | flag and gate agree, a deactivation lasts, checkouts sell to the stored customer |
| `telegram` | 2 bots, 1 user, 2 updates, 1 crash | one account, no update lost, own result told, every handler answers, limits hold |

Bounds.  One user: accounts of different users share no row and no key.  Two workers are
enough for a duplicate in flight, a waiter and a holder of each lock; one admin for a write
between a worker's read and its commit.  The tokens have two units, the account opens with
one token, a direct debit costs two, so credits, debits, refusals and rejected rounds
all occur.  `MaxBalance` bounds what admins credit (a guard of `AdminRequest`);
`MaxCounted` saturates the metrics counter: 1 where `MetricsMissNoRound` asks whether a
round was counted at all, 0 where no property is about it.  Two workers stand for two bot processes during a hand-over, or for threads that call
the service at once, which the repository's own test
`tests/test_game_round_ledger.py::test_round_concurrent_same_key_single_commit` does.
Symmetry is used in runs without a liveness property only.

Bounds of the webhooks.  Two hooks are a first delivery and a duplicate in flight, or two
events at once; one replayer makes three writers of the subscription row.  Two subscription
rows let two sessions insert the same subscription.  `MaxAttempts` is 2, the dead-letter
limit, so a replay reaches it.  `MaxFailures` is 1: a failed request leaves nothing open,
and the retry after it meets the same states again.  One customer: events of different
customers share no row.  Of the events in the runs one names its customer and id, one the
user in its metadata only, one has no id.

Bounds of `sessions`.  A second thread is what every race needs.  Three session ids are a
login, its rotation and one session more, of a fork or of a second login.  The seeded
superadmin logs in; the other account is created, changed and, in mixed case, never logs
in, but its rows are what a change can meet.  One change switches an account off; a second
would switch it on again or meet the first, which the load and save of one show as well.

Bounds of `lockout`.  Two failures lock, five requests pass the lock once and come back after
it; two addresses tell the rows of a client from those of the identity; three rows are one
for each address and a duplicate.  `LoginLimit` is 2, so the throttle is met too.

Bounds of `subscriptions`.  Three requests are a row inserted and two that meet on it, or one
that meets the insertion of a second.  One plan and one subscription id: a second of either changes the value a column
takes and no decision.  Grace is off: it moves the end of a period, which comes at any time.

Bounds of `telegram`.  Two updates are a first contact and a game, a command and a button, or
one update that both bots fetch; `MCMenu` puts every verb in one of the two places.  Two
payouts tell the rounds of two updates apart.  The first bot allows one action in a window of
length 1 within times 0 to 2, so an event is at the window's edge; the second has no limit,
no wheel, and another bet limit.  One crash with everything in hand.

These four runs check `Spec` without fairness and end when their requests are used up or all
bots are down, so they do not ask about deadlock.

What the runs show:

* Whatever fails or crashes, a key has a ledger line exactly when its row is committed, the
  row never changes, a redelivered update shows the same row, no balance is negative, and
  the poll after a duplicate-key error always finds its row at once, so duplicates never
  use the half-second timeout of `execute_game_round`.  Its handler
  (`game_round_service.py:155`) catches every integrity error; another violation than the
  duplicate's would wait the half second out.
* `BalanceNonNegative` holds *although* a debit is checked against a stale balance: what is
  written is the checked sum itself.
* `stale_read` is a defect of the code: the engine reads the account at
  `games/service.py:91`, an admin commits +1, and the round's flush
  (`economy_service.py:95`) writes a sum without it.  `DriftOnlyFromStaleRound` shows this
  is the only way balance and ledger part.
* `single_bot`: no round is committed that the metrics have not counted, because they are
  recorded before the commit.  The other direction fails for the same reason: a round that
  is rolled back is counted, and counted again on redelivery, although
  `core/metrics.py:14` says first write only.
* `delivery`: whatever is duplicated, replayed or cleaned up, an acknowledged event is on
  record, a delivery applies it once, and a row says processed only if its subscription was
  saved.  What can go wrong without a lock is narrow: a row grants access without an active
  status only after a save over a row changed since it was loaded.  All of it together is
  the inbox of `EventInbox`.
* `unsupported`: Stripe's adapter never yields a missing status, so the branch for
  unsupported events is dead code for the primary provider; the event that
  started a subscription is applied, then an invoice event finds its row by the customer
  (`billing_service.py:150`) and takes over its id, its status and its entitlement.
* `stranded`: the row of an event whose processing raised stays `received`; the provider's
  retry is answered as idempotent, and only a replay by id can still apply the event.
* `sessions`: a login has one live session, and a logout ends it, unless two requests had one
  session in hand at a time.  Then two refreshes with one token fork the login, and a logout
  that meets a rotation revokes the session that was rotated away.  Logout-all misses only
  what was inserted after its query.
* `lockout`: failures that do not overlap lock in time; overlapping ones lose counts and may
  insert two rows.  The throttle is exceeded by the requests in flight at most.
* `subscriptions`: the stored flag parts from the row by time, by a trial and by a race only.
  The gate refuses a user with two active rows when it happens to judge the one whose period
  is over (`services/entitlement.py:27`), and refuses trials that the flag shows as entitled.
  A cancel or resume writes "active" from what it loaded: of a row loaded as trialing or past
  due it puts "active" over a "canceled" saved meanwhile (`billing_service.py:346`), and the
  stored flag may be true again.  `DeactivatedStaysClosed` is what still holds: a deactivation
  also ends the period, which no cancel, resume or link writes, so the gate stays closed until
  an activation or a webhook opens it.  That takes `ENTITLEMENT_GRACE_SECONDS` to be 0, its
  default; with a grace, a resume within it opens the gate for the rest of it.  Over a
  webhook's "canceled" whose period is still to run nothing keeps the gate closed.
* `telegram`: however many bots take an update, the user has one row and one account, and
  what is told is the round of this very update.  No update is lost between Telegram and two
  bots that confirm each other's: until it is answered, or a crash, a failed call or a start
  gives it up, one of them has it.
* Seen in the model, without a run: a bot that starts drops pending updates, so a round that
  a crash left untold stays untold; what follows the commit in `handlers.py:335` may raise,
  and the user is told of an error though the round is charged; `/status` looks the user up
  (`handlers.py:186`) before it asks whether the database is ready, so it fails where
  `docs/telegram-local-run.md:123` has it report; the last superadmin can be deactivated.
* Seen in the model, without a run: a replay at the attempt limit marks a row as dead
  letter though it was processed, and clean-up then deletes it, while
  `docs/runbooks/webhook-dead-letter.md:34` says dead letters are kept.

Fairness (`FairSpec` of `GameRounds`).  WF on each session's own statements: a thread goes on unless it
crashes, and no fairness is assumed of crashes, failures or new updates.  SF on the
statements that wait for a row lock or an index entry: PostgreSQL queues waiters, so one
that becomes runnable again and again is served.  An admin's failure needs no fairness.

Fairness (`FairSpec` of `BillingWebhooks`).  WF on a session's statements and SF on the
insert that waits for the index, as above.  SF on the delivery of an event that has not
been answered: providers send again until they get a 2xx response, and a process is free
again and again.  That they give up after some days is left out; the run says what the
code does for one that does not.

## 5. Proofs

`GameRoundsProofs` proves for every number of workers, admins, users and keys, every bet
and every setting allowed by `ConstantsAssumption`:

| theorem | property |
|---|---|
| `TypeCorrect` | `TypeOK` |
| `ChargedExactlyOnce` | `LedgerLineIffCommitted` |
| `NoOverdraft` | `BalanceNonNegative` |
| `PollSucceeds` | `PollFindsRow` |
| `AnswersPersisted` | `AnswerIsPersisted` |
| `DriftHasOneCause` | `DriftOnlyFromStaleRound` |
| `RefinesRoundLedger` | `ImplementsRoundLedger` |
| `SerialLedgerMatches` | `LedgerMatchesBalance`, given one worker and no admins |
| `SerialCooldown` | `CooldownRespected`, given one worker and no direct key of a game with a cooldown |
| `MetricsComplete` | `MetricsMissNoRound` |
| `NoDeadlock` | `WaitChainsEnd`: sessions never wait for each other in a circle |
| `UpdatesEndAfterBoundedSteps` | `UpdatesShorten`: each step leaves its session less to do |

The safety invariants are not inductive: a commit publishes what earlier steps of the
transaction have gathered.  `IInv` adds what an open transaction guarantees meanwhile:
two uncommitted rows never share a key (`IndexExclusive`), an own row's key is undecided
(`OwnRowUndecided`), the row to adjust is the one inserted (`AdjustsOwnRow`), after the
adjustment the account row is locked and the sum to be written is not negative
(`OwnRowDecided`), a found row is the committed one (`FoundRowPersisted`), balances read are
not negative (`SnapshotsNonNegative`), and an admin's read is current
(`AdminReadCurrent`).  There is one lemma per action; `Invariance` puts them together, and
the theorems follow.  The refinement maps `Commit` of an own row and `SaveFailure` to
decisions and every other step to a stutter.  `SerialLedgerMatches` carries in addition
that a lone worker's reads stay current.  `SerialCooldown` carries that past the check the
slot stays clear (`CooldownStaysClear`): a lone worker is the only one that could commit a
round in between; a direct caller does not check, so it must not share the slot's game.

`EveryUpdateEnds` itself is liveness and is model-checked.  Its safety half is proved.
`Blocks` says whose transaction a session waits for, at the unique index or at the account
row.  `NoDeadlock` shows that the wait-for graph has no cycle because of the order in which
the code takes the two: a session that waits at the index may wait for one that waits at
the account row, and whoever holds an account row waits for nobody (`HoldersRun`).
`UpdatesShorten` says that every step of a worker, failures included, lowers a bound on the
statements it has left (`StatementsLeft`); nothing in an update is done over.  What remains
for fairness is that a runnable session runs and a waiter is served.

`BillingWebhooksProofs` proves for every number of processes, replays, events, customers
and rows allowed by `BillingAssumption`:

| theorem | property |
|---|---|
| `TypeCorrect` | `TypeOK` |
| `AnswersAreRecorded` | `AckedIsRecorded` |
| `ProcessedMeansApplied` | `ProcessedIsApplied` |
| `DeliveriesApplyOnce` | `DeliveryAppliesOnce` |
| `FlagPartsByStaleSaveOnly` | `FlagPartsOnlyWhenStale` |
| `RefinesEventInbox` | `ImplementsEventInbox` |
| `SerialFlag` | no access without an active status while no two sessions are open at one time |

Its `IInv` says that an event with an open insert has no committed row and no other open
insert (`OpenInsertExclusive`), that what a replayer or an upsert has found is still there
(`LoadedRowExists`, `FoundSubscriptionExists`), and that whatever was answered or applied is
on record or cleaned (`OutcomesRecorded`).  At-most-once delivery then needs no case
analysis: a hook that saves holds an open insert, so its event has no committed row, so it
was not applied unless clean-up has deleted the row since.

`RefinesEventInbox` maps a row to its status and a save to `TakeIn` or `TryAgain`, the row
kept after an error to `TakeNote`, a reply to `Tell`, a clean-up to `Forget`, and every other
step to a stutter.  A save writes the status only if it differs from the one loaded, which
another replay may have changed since; that it nevertheless settles the event needs
`OutcomesFit`: what a session is about to write, and what is on record, are outcomes the
event may have (`VerdictFits`, `RecordFits`), and a row that a replayer loaded as settled is
settled still, with its effect if it was processed (`LoadFits`).

`AdminSessionsProofs` proves for every number of threads, accounts and sessions allowed by
`AdminAssumption`:

| theorem | property |
|---|---|
| `TypeCorrect` | `TypeOK` |
| `SingleSession` | `OneSessionPerLogin` |
| `LogoutEnds` | `LogoutEndsLogin` |
| `LogoutAllEnds` | `LogoutAllEndsOldSessions` |
| `InactiveGains` | `InactiveGainsNothing` |
| `SerialSingleSession` | one usable session per login, given one thread |
| `SerialLogoutEnds` | a logout ends its login, given one thread |

`OneSessionPerLogin` alone is not inductive: a rotation must know that what it inserts has no
live sibling.  Its `IInv` says what a thread carries at each label (`Carried`), that every
root is a session (`RootsTaken`), that two threads with sessions of one root have raced it
(`Overlap`), that a thread holds the only usable session of an unraced root (`Alone`), and that
what logout-all knew of and is still usable is among its targets (`KnownTargeted`).  A lemma
covers the steps that open no session and take none in hand; the others have one each.

`LoginLockoutProofs` proves for every number of threads, addresses and lock rows, and every
limit allowed by `LockoutAssumption`:

| theorem | property |
|---|---|
| `TypeCorrect` | `TypeOK` |
| `FailuresLock` | `LockAfterMaxFailures` |
| `OneLockRow` | `OneLockRowUnlessRaced` |
| `SuccessForgets` | `SuccessForgetsFailures` |
| `OvershootBounded` | `ThrottleOvershoot` |
| `SerialLock` | the maximum of failures locks and rows are not doubled, given one thread |
| `SerialThrottle` | the limit of failed logins is kept exactly, given one thread |

A save writes what its thread computed from a table it loaded earlier, so `IInv` says what
that table is still good for: a loaded row stays, with its address (`RowsStay`); a failed
login in hand and another request between load and save have raced its address (`Overlap`);
what a failure or a success has loaded of an unraced address is therefore still so
(`FailureCurrent`, `ClearCurrent`), and the one row of such an address has counted every
failure and locked in time (`Tally`).  `ThrottleOvershoot` needs an invariant of its own:
`Throttled` adds to an address's hits the requests it has in flight, so that an admission
below the limit, which may find every other thread in flight, is the only step that has to
count threads, and a reply moves one request from one term to the other.

`SubscriptionsProofs` proves for every number of threads and rows, every plan and every
setting allowed by `SubscriptionAssumption`:

| theorem | property |
|---|---|
| `TypeCorrect` | `TypeOK` |
| `FlagFollows` | `FlagFollowsRow` |
| `DeactivatedStays` | `DeactivatedStaysClosed` |
| `DeactivateEnds` | `DeactivateEndsAccess` |
| `SoldToKnown` | `SoldToKnownCustomer` |
| `GateAgrees` | `GateAgreesWithFlag` |
| `SerialFlag` | every row has the right flag and all checkouts sell to one customer, given one thread |

Its `IInv` says that what a thread has found are rows (`Loaded`), that an unraced row is in
one thread's hand at most (`Alone`) and still as it was loaded, unless its period has ended
meanwhile (`Current`).  `MergeWhole` turns this into the step that matters: over such a row
a save writes the new row whole, so `FlagFollowsRow` needs to be shown of the new rows only
(`UpdateStep`, `InsertStep`), one request at a time.  A cancel or resume does not date the
period it judged by; it may have ended since, and then nothing is asked of the flag.
`CheckoutCurrent` says the like of the customer a lone checkout has loaded.
`DeactivatedStaysClosed` asks for no such exception; its own invariant (`Closed`) is that the
period of an ended row is past, whatever its status, and there is a lemma for each way a
save can come: one that does not date the period, one that takes its rows out of `ended`, an
insertion, and a deactivation, also over a row that changed since its load.

`TelegramBotProofs` proves for every number of bots, users and updates, and every setting
allowed by the assumption of `TelegramBot`:

| theorem | property |
|---|---|
| `TypeCorrect` | `TypeOK` |
| `OneAccount` | `OneAccountPerUser` |
| `OwnRoundTold` | `ToldOwnRound` |
| `NoSilentEnd` | `HandlersAnswer` |
| `NothingLost` | `NoUpdateLost` |

Its `IInv` says that no two updates that are pending, fetched, in hand or played share an id, nor two
presses a query (`IdsDistinct`), so that an idempotency key belongs to one update; that a
committed row is a round played for an update with its key (`CommittedPlayed`); that a
result about to be sent is a round of the update in hand (`ResultsPlayed`); and that the
last voice message follows an answer (`EncoreTold`).  `NoUpdateLost` has an invariant of its
own: Telegram may forget an update when a bot asks for those after it, so what has to be
shown is that this bot has it, or has left it answered or given up (`Confirmable`); only
`Fetch`, `Send` and `StartBot` change what Telegram holds, and every other step leaves an
update where it was, answers it or gives it up (`KeepsUpdates`).

`TelegramLimitProofs` proves `LimitHolds`, that `LimitPerWindow` holds for every number of
bots, users and updates and every limit.  `admitted` is the history of all admissions and a
bucket is a queue that forgets, so the invariant `LimitInv` ties them (`Counted`): whatever
moment of the current window one counts from, there were at most as many admissions since as
the queue has entries after its last one before that moment.  Pruning drops expired entries
only, so it disturbs none of these counts; an admission adds one to each and needs a queue
below the limit.  A restart, which empties the queues, starts a new count: the code keeps
nothing across it, and `LimitPerWindow` says so.

The *serial* theorems (`Serial...`) say the same thing of each component in turn: with the
requests one after the other the exceptions its properties name do not occur.  Their
hypothesis, one thread or one session open at a time, is no setting of the API, which
serves requests in a thread pool; the theorems say that overlap is the only cause.  The
proofs show that nothing is ever added to `raced` and `crossed`, or, for the webhooks, that
what a session has loaded is still so when it saves (`NothingStale`).

Only model-checked: `EveryEventAcknowledged` and `EveryUpdateEnds`, because liveness under
fairness is beyond the prover, and the three violations.

## 6. Not modelled

`PROJECT.json` lists each component with its status and the reason.

* HTTP application, settings, audit and catalogue queries, migrations, operations scripts:
  wiring, constants, read-only queries, and file and process I/O.  Settings that matter are
  CONSTANTS of the modules.
* Compliance: the rules on pending transfers and cash-outs guard flags that nothing in the
  source sets.
* HTTP limiter: its keys other than the login's; buckets are never removed from memory.
* Billing adapters: signatures and the calls to the provider; the portal link.
* Admin accounts: passwords.
* Metrics: the counters other than that of persisted rounds.
* Start-up: the checks before polling begins, one after the other and without state.
