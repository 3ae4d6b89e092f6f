# Manager Key Pro: a TLA+ verification project

Manager Key Pro is a plugin of the CLIProxy host. It sells API keys: a key has a
quota (tokens, requests, credit or unlimited), optionally renewed every period;
a user has a wallet that buys packages and pays for what a key's quota does not
cover. The host calls the plugin on its own threads (authenticate, intercept
before, scheduler pick, usage.handle, request.complete, the management API), the
portal is an HTTP server of its own (a goroutine per request), and everything is kept in one SQLite
database. Most of what can go wrong is money or quota that two overlapping calls,
a repeated delivery or a crash move twice or not at all. That is what the project
is about.

## Inventory

| Component | State | Operations | Hard behaviour |
|---|---|---|---|
| Wallet and ledger (`store/users_repo.go`, `credit_ledger`) | `users.balance`, `wallet_mode`, `credit_limit`; append-only ledger with a unique index on telegram references | `AdjustBalance` (one immediate transaction), `CanSpend` (an earlier read) | check-then-debit from many callers; replays; limits lowered below the debt |
| Recharge routes (`portal_extra.go`, `management.go`, `mgmt_extra.go`) | the wallet; what the telegram bot has been answered | webhook, admin recharge, wallet mode and limit | repeated and lost deliveries, the same reference by two routes |
| Billing (`billing/*.go`, driven by `plugin/hooks.go`) | `keys.quota_used`, `keys.period_end`, `reservations`, `usage_records`, the wallet | `Hold`, `Charge` with `Settle`, `Release`, `EnsurePeriod`, `ReleaseStale` | every statement commits alone; calls overlap; attempts; usage after completion; crashes |
| Life of the plugin and its file (`plugin/main.go`, `plugin/app.go`, `store/db.go`, `store/migrate_v2.go`) | the database file and its version, the handles on it, the app | register, `Boot`, `store.Open` with the migration, backup, `RestoreDB`, shutdown | a crash or a failed statement anywhere in a migration, a seeding or a restore; closed handles that are kept; a backup that does not open |
| Settings and prices (`store/settings_repo.go`, `billing/pricing.go`) | `settings`, `pricing` | defaults at boot, edits, `LoadPrice` | boot runs again beside what was edited; seeding that stops half way |
| Issue and orders (`issue/issue.go`, `packages_orders.go`) | wallet, keys, orders, `key_quota_history` | `BuyPackage`: debit, create or renew the key, trace, order | one step of several fails; concurrent renewals |
| Keys and their administration (`keys_repo.go`, `management.go`, `mgmt_extra.go`) | `keys` rows | create, renew, switch quota, transfer, rebind, delete | read-modify-write against running calls |
| Referral (`referral/referral.go`) | `referral_earnings`, wallet | `OnRecharge`: percent and one-time fixed bonus | at most one fixed bonus; reward of a repeated recharge |
| Access (`plugin/hooks.go`, `policy/policy.go`) | key and user status; timestamps of the last minute, in memory | authenticate, allowlists, `CheckRPM` | stale status writes, the clock read outside the lock |
| Scheduler (`scheduler/scheduler.go`) | `key_account_bindings`; a cursor per key, in memory | `SetBindings`, `HandlePick` | shares that do not add up to 100, bindings replaced between read and pick |
| Portal accounts and sessions (`portal/server.go`, `portal/portal_extra.go`, `store/users_repo.go`, `mgmt_extra.go`) | `users` (name, Telegram identity, hash, status, failed logins, lock); sessions in memory | registration, login by password and by Telegram, lock, linking, passwords, the administrator's edits | an argon2 hash between reading a row and writing it; two statements that make one registration; names and identities taken meanwhile |
| Request logging (`logging/logging.go`) | `request_logs`; captured contexts, in memory | `CaptureRequest`, `WriteUsage`, `WriteFailure`, `Purge` | the mode changes in between; costs read from the wrong row |
| Crypto, web pages, configuration fields, plugin ABI, read-only routes | none | see PROJECT.json | pure functions and I/O |

How they interact: the hooks call policy, billing, scheduler and logging with the
key row they read; billing, issue, referral and the recharge routes meet in the
wallet, through `AdjustBalance` only; the portal and the management routes meet in
the `users` table; `Boot` runs before the first call and `RestoreDB` under all of
them, changing the handle they use.

What makes each of them correct: the wallet is explained by its ledger and never
spent below its floor; a transaction of the bot is credited once; a key's counter
is explained by its reservations and usage records, and never passes what was
sold; what is held is given back once; an order was paid, and a renewal neither
loses the time that is left nor leaves a gap in the trace of the key; a limit per
minute and the shares of accounts hold; a reward is paid once, for money that
came in; only a fully logged request leaves its context behind, and not for
longer than its time; overlapping logins cannot pass the lock and sign nobody in to
another's account; a migration is done before its file is served, one file is
written at a time, and what the administrator set outlives every start.

## Modules

    Wallet              users + credit_ledger + AdjustBalance, mode and limit
      Recharge          the routes that recharge a wallet, next to everything that spends
        Referral        the rewards a recharge sets off; implements Recharge
      Billing           Hold / Charge+Settle / Release / Boot, one action per SQL statement
        BillingAccounts what the tables of Billing promise each other; refinement of QuotaAccount
      Shop              packages, keys, orders: BuyPackage and the administrator's routes
    QuotaAccount        abstract: an escrow of quota with indivisible reserve / return / close / spend
    RateLimit           CheckRPM           \  composed by Gateway: intercept_before and
    Scheduler           bindings and picks /  scheduler.pick, with the clock and restarts
    RequestLog          logging, next to the usage records it reads
    Portal              accounts, logins, lock and sessions
    Lifecycle           register, Boot, migration, settings and prices, backup and restore
    MC*                 the instances TLC checks
    WalletProofs, RechargeProofs (Recharge and Referral), BillingProofs (Billing and
    BillingAccounts), ShopProofs, GatewayProofs, RequestLogProofs, PortalProofs,
    LifecycleProofs     the proofs

Operators whose comment begins with "Faulty variant" are plausible bugs: nothing
uses them, and each is there to show that some property notices it when it takes
the place of the definition below it.

**Wallet.** `users` and `ledger` are the two tables (only their wallet columns).
`AdjustBalance` is one step because the code runs it in one immediate transaction
(`users_repo.go:134-174`); `AdjustReply` is what it answers (insufficient,
duplicate, ok), everything but ok having rolled back. `CanSpend` is a plain read.
`UpdateMode` and `UpdateLimit` are what the administrator does to a wallet while
others spend from it.
`Replayed` is the partial unique index of `schema.sql:147`.

**Recharge.** One action per route. The bot is external: it repeats a transaction
until it has seen 200; `seen` changes or not, so an answer may be lost. `Debit`
and `Credit` stand for the calls other components make, so that the wallet is
never alone with its recharges.

**Referral.** `mgmtRecharge` commits the wallet first and then calls
`OnRecharge`, whose statements are the actions `OnRecharge` (user and mode),
`PayTier` (a round of payPercent's loop), `PayFixed` (the sum of recharges),
`GrantFixed` (the earning, refused by the unique index) and `GrantCredit` (the
upline's wallet). Two recharges interleave, new invitees arrive by
`TelegramLogin`, the administrator changes the mode, the process dies. The
webhook pays no reward (`portal_extra.go:404-429` calls AdjustBalance only), so
it is a step of `Elsewhere`.

**Billing.** A call is a small process in a slot (a host thread). `pc` names the
next SQL statement, the other fields are what the Go function has read so far;
computation between two statements belongs to the action of the first. So all
interleavings of statements are explored, and staleness is visible: `c.used` is
the counter as it was when the call began. `host` is the host's side: one
`intercept_before`, a `usage.handle` per upstream attempt, one
`request.complete`; `LateUsage` allows usage after completion. A failed request
is completed by `CompleteFailed`, which starts `Release`; a successful one
releases nothing (`hooks.go:266`). `Crash` empties the slots, since the plugin is
a shared library in the host's process; `Boot` reads the stale reservations and
releases them one by one. `Edit` is the administrator between any two statements:
`Switch` (mgmtSwitchQuota keeping kind and amount) sets the counter to 0 while
holds are open, `EditTerms` changes the wallet under a call that has asked
`CanSpend`.

**QuotaAccount** says what hold, settle and release promise of a quota when each
of them is one step, and that the account may be started again with reservations
open. `BillingAccounts` maps the tables to it: each abstract step is the statement
that moves the counter, so a reservation counts as open from there although its
row is inserted later, and what has been given back counts as returned although
the row is not yet marked. Beside the refinement it states what the three tables
that record the same money owe each other while no call of a key is half way, and
what a crash may cost (`CrashLosesAtMost`).

**Shop.** `BuyPackage` is a process with one action per statement (`BuyBegin`,
`BuyOwner`, `BuyDebit`, then `BuyInsert` or `BuyRead`/`Write`/`Trace`, then
`Order`); `mgmtRenewKey` and `mgmtSwitchQuota` share `Write` and `Trace` with it.
The administrator's calls of a single statement (create, transfer and delete keys,
the catalogue) are one action each, and so are the read and the write of the
`expired` status in `handleAuthenticate`. Foreign keys and the CHECK on
quota_amount are guards; `Fail` is any statement the database refuses. `history` is
`key_quota_history` by key, in the order of insertion; `paidAt` in its rows is
history of the model: what a renewal promises is measured from the payment, and only
what runs out between the payment and the second read of the key is lost.

**Gateway** composes `RateLimit` and `Scheduler`, which have a critical section
each. What a call reads before it takes the lock (the clock, the bindings) is an
action of its own, so another call, a change of settings or a tick may come in
between. The allowlists are a verdict. `Restart` empties windows and cursors. A
binding refers to an account in one of several forms (the bare id of a candidate, or
provider, kind and id), so references and candidates are apart: `Matching` says which
means which, a key is bound to a reference once, and the first enabled binding that
matches a candidate decides its share, of at least one percent. A
window is a set of timestamps with the request that left each (the code keeps a slice
of bare timestamps, whose order decides nothing but the hint of when to retry).
`LimitKept` compares a window with a limit one of its requests passed under, since
the administrator may change the limit in between. `SharesKept` speaks of the
weighted picks of a key since the process started (`picked`): as many of them in a
row, from the same list, as its shares add up to.

**RequestLog.** The usage handler's statements (row, its id, the cost it shows,
the update, and then the charge) are an action each; `usage` is what Charge
records. Contexts are memory, a Go map that host threads write without a lock:
while another thread is in the map, a write may be lost. `Purge` runs when a
request completes.

**Portal.** A request of several statements is a call in a slot, as in Billing:
`LoginRead`, then (after the hash) `LoginFailed` or `RecordLogin`, then
`CreateSession`; `Register` and `RegisterPending`; `TelegramRead`,
`TelegramCreate`, `TelegramSuffix`, `RecordLogin`, `CreateSession`. Requests of
one statement (link, passwords, the administrator's create, status, rename) are one
action. `seen` keeps what a login read before the hash. A password is the form
its hash is stored in, since only that decides whether it can ever verify; a name
is a member of `Names` or the pair a Telegram login makes of a taken one.
`strikes`, `carried` and `waiting` are history: what the properties compare with.

**Lifecycle.** `proc` is the Boot or the RestoreDB in progress, and each of their
statements an action: the schema, the migration (its 20 statements in six groups,
each of which may fail or be the last thing the process does), the check of the
secret, the defaults (one transaction), the count of prices and each price seeded,
the swap of the handle. A handle is the generation of the file it was opened on,
so that one that outlives its file shows. `Crash`, `Shutdown` and `Restart` end the
process or its handle. Boot's last step, the release of stale reservations, is
`Boot` of Billing.

## What the runs show

| Run | Instance | Question | Answer |
|---|---|---|---|
| MCReferral | 3 users, 2 tiers (100 and 50 %), 1 transaction of the bot, 2 threads, threshold 3, 1 crash, 1 change of mode | two recharges pay rewards at once, beside replays, lost answers, corrections and purchases | a telegram transaction is credited once and an accepted one is credited, a pair is rewarded once, no qualified invitee is missed, earnings and bonuses agree but for what a crash swallows; Recharge is implemented |
| BillingQuota | token key with 2 requests in progress, request key with 1; 2 attempts each, late usage | does the counter stay explained by reservations and usage records | yes; a request key counts a client request once |
| BillingWallet | 2 keys of one account, one with a small quota, 2 threads, a postpaid wallet of 4 with limit 2, 1 crash, 1 change of its terms | holds and usage in the wallet, late usage, Boot after a crash | each hold matches its row and refunds, a crash costs no more than what it cut off, the ledger and the floor hold; every hold of a failed request and every stale hold is given back |
| BillingTight | windowed key of 3 units with overflow beside an unlimited one; the clock runs; 1 switch under open holds | the key runs out, overflows, renews and is reset | never oversold, no period cut short, QuotaAccount implemented |
| Shop | a buyer with money and one without, 2 packages, 2 keys, 2 threads, 1 fault, 1 edit, 2 days | purchases beside renewals, switches and deletions | orders are paid, traces are chains, references live, renewals keep the rest |
| Gateway | 1 key, 4 requests, 2 threads, 2 candidates, 3 references of which 2 mean the same candidate, 1 restart | windows and shares | at most one request over the limit for the second thread; shares exact |
| RequestLog | a fully and a normally logged key, 2 threads, 1 crash, 1 change of mode | who leaves what in the log | context only in full rows and until its time; every usage record has its row; no cost of another key |
| Portal | 2 accounts, 1 name and the name with its suffix, 2 Telegram identities, 2 slots, 5 calls, 1 edit, 1 crash or failed statement | registrations, both logins and edits at once | every wrong password counts, a lock stands, an identity signs in to its own account, nobody is active unapproved but where a registration was cut off |
| Lifecycle | no file or one of version 1, an old and a damaged upload, 2 seeded and 2 other models, 5 requests, 4 troubles | starts, migrations, seedings and restores cut off anywhere | a file of version 2 is whole and no other is served, one file is open at a time, what was edited stays, a database that opens is served in the end |
| HoldOversells | 2 threads hold for the same key | hold.go:68 | violated: both cap at the same remainder |
| BuyNotAtomic | the package is deleted between debit and key | issue.go:66-67 | violated: paid, not delivered, not given back |
| RestoreUnchecked | a damaged upload, no failure | app.go:107-109 | violated: it takes the place of the live database |

Recharge has no run of its own: every action of it is a step of the MCReferral run,
where `ImplementsRecharge` also evaluates its specification.

### Bounds

Two requests of one key are the smallest case in which one call can settle
another's reservation; two slots are enough for any two statements to overlap. Amounts
are small units: a hold of 2 against usages of 0, 1 and 4 or 5 gives a partial
refund, an extra, and a remainder smaller than the hold; a quota of 3 makes a
second hold hit the cap. Wallets of 4 and 6 run dry within two debits. `MaxUses = 2`
gives a retry, `MaxTime = 2` ends a period (or makes a reservation stale),
`MaxCrashes = 1` gives every crash point, the ones inside Boot included.
`KeyRequests` bounds requests of a key in progress, `KeyCalls` the plugin calls
of a key in flight: 1 in the runs whose property the code keeps only when the
calls of a key do not overlap, and so is `KeyWriters` of Shop (see
Divergences). `MaxRows` bounds ledger, orders and log rows so that
every table can hold two rows about the same thing and one more. In
Referral a chain has two tiers and three users, an amount of 2 earns 2 and 1 (and
an amount of 1 earns nothing in the second tier), and two recharges reach the
threshold of 3 only together. In Gateway a window is one tick, the limit is 2 of
4 requests, and shares of 1 and 1 make a round of two picks, of which three
(`MaxPicks`, of a key) show every start. A day is a tick in Shop and a package lasts
two, so a purchase may
straddle the end of a day but takes less time than what it buys lasts. RequestLog
keeps full rows for their own tick and is full when it holds a context
(`Retention` and `MaxPending` are 0: any value only shifts the clock or the
count). In Portal a lock takes two wrong passwords and lasts a tick, a session ends
with the tick it was opened in, and the names of the instance include the one a
Telegram login would make by appending its identity, so that the second choice can
be taken as well; five calls let an account be registered, struck by two logins at
once, locked and tried again. In Lifecycle four troubles let a migration be cut off
twice and a restore and a seeding fail; `MaxEdits = 5` is a copy, an edit, a
restore of the copy, another edit and a shutdown. BillingWallet allows one call in
flight per key (`KeyCalls`) on two threads: the calls that meet are those of two
keys in one wallet. Deadlock is not checked: the instances end when their requests are used up.
Slots and the requests of Gateway are declared symmetric; no run that
checks liveness uses symmetry.

### Fairness

`FairSpec` has weak fairness of `Step(s)` only: a call that has begun is run to
its end by its thread; the host never owes a call. `BootSpec` adds that somebody
restarts the process after a crash and that `Boot`, sequential code, goes on. In
Lifecycle `FairSpec` has weak fairness of `Register(TRUE)` (the host registers a
plugin that has no app, with a configuration that is good) and of `Step`, the next
statement of the Boot or restore in progress; troubles are bounded, and nobody
owes a request.

## Divergences

Three runs show where the code does not do what its comments say (PROJECT.json,
findings). Modelling and TLC led to more states that a maintainer may want to
know of; they are not kept as runs:

- A crash between the debit of a hold and the INSERT of its reservation loses the
  hold (`hold.go:90-106`), one between a debit and its usage record leaves money
  moved without a record (`charge.go:191-203`; `db.go:83-85` advertises `Tx` for
  exactly this), one between a refund and its mark is refunded again at boot
  (`hold.go:190-198`), one between an earning and its credit loses the reward
  (`referral.go:74-92`).
- A key deleted while a request of it holds wallet money takes the reservation
  with it (`ON DELETE CASCADE`, `schema.sql:170`): nothing gives the hold back. A
  deletion between the debit and the INSERT makes the INSERT fail
  (`hold.go:101-106`), with the same result.
- `Settle` and `Release` overlap: both see the reservation open and refund it
  (`hold.go:162-198`). `Settle` takes the oldest open reservation of the key, so
  overlapping requests settle each other's.
- A record without tokens returns before `Settle` and a succeeded request
  releases nothing: the hold stays until a boot an hour later (`charge.go:54`).
- A request that ends its quota is charged in full to the wallet although its hold
  stays with the quota (`charge.go:177-196`); a request counted in requests is
  counted twice when two of its attempts overlap (`charge.go:92-108`).
- Two calls see the same period over and reset it twice; what the first consumed
  is wiped (`period.go:28-50`).
- Two renewals of a key at once: the second overwrites the first and the trace has
  a gap (`issue.go:110-120`, `management.go:515-537`; `KeyWriters = 2` violates
  `HistoryChains`). A key that never expires gets an end when a limited package
  is appended (`issue.go:112-115`). A key renewed while it is being found expired
  ends up expired (`hooks.go:60`).
- The per-minute limit is passed by one request for every further thread
  (`policy.go:114-119`); shares of 0 are stored as 100 (`scheduler.go:115-118`).
- A log row shows the cost of the key's previous usage record: it is written
  before `Charge` records its own (`logging.go:186-196`, `hooks.go:238-240`).
- `RestoreDB` replaces the live file before it knows that the upload opens
  (`app.go:127-130`). It swaps the handle of the App only: the portal and the
  referral callback keep the closed one and fail until the host restarts
  (`app.go:134`). A restore that fails leaves an app whose handle is closed, until
  another restore succeeds or the host restarts. Two restores at once are not excluded by the code and are not
  modelled.
- Seeding that an error or a crash stops half way is never resumed, since the table
  is no longer empty (`pricing.go:108`); a model without a row and without a
  default is charged by whichever default of its family the map yields first
  (`pricing.go:57-63`), and `mgmtPutPricing` stores 0 for the fields a request
  leaves out. A shutdown closes the handle and keeps the app, so a later register
  finds an app and does not boot (`main.go:111-118`).
- A Telegram login looks neither at the lock nor at `RequireApproval` and
  `RegistrationOpen` (`portal_extra.go:53-75`). An account an administrator creates
  has a sha256 hash, which the portal's login never accepts. A login that read the
  account before a lock was set lifts that lock, by success or by a failure, whose
  transaction writes NULL below the limit (`users_repo.go:202`).
- A logout deletes the token from a map whose keys are hashes, and a password reset
  empties a table of sessions that the portal does not use, although
  `mgmt_extra.go:211` says "Revoke sessions": a session ends with its time or the
  process.

## What is proved

Under the named assumptions of the modules (`NoRefAssumption`,
`RechargeAssumption`, `ReferralAssumption`, `BillingAssumption`, `ShopAssumption`,
`GatewayAssumption`, `RequestLogAssumption`, `PortalAssumption`,
`LifecycleAssumption`: types of the constants, NULL and the
like being none of the things they stand beside, and a start whose references hold;
nothing about sizes, but that accounts and slots of the portal are finite; and
`OpeningAssumption`: the ledger the recharges left names no request yet to come and
holds no debit for usage, of which there has been none),
for every value of the constants:

- `WalletProofs`: what one `AdjustBalance` does to the wallet invariants, once, for
  every module that moves money; and what the proofs need of sums over rows: the
  `SumFunctionOnSet` of the library, defined by recursion over a chosen element, has a
  solution (`SumsExist`, `SumSolves`), depends on the values only (`SumSame`), any
  element can be split off (`SumSplit`), so that a new row adds its value and a
  vanished one takes it along (`SumGrows`, `SumRemove`), and no value exceeds the
  whole (`SumAtLeast`).
- `RechargeProofs`: type correctness, `LedgerExplainsBalance`, `TelegramRefOnce`,
  `AcceptedMeansCredited` and `FloorHolds` of `Recharge`. `Referral` implements
  `Recharge` (`RewardsAreRecharges`), so these hold of it, and two are stated; type
  correctness; `FixedOncePerPair`; `EarningsHaveRecharges`. The invariant adds to that
  of Recharge the shape of each call (`Chains`): without it nothing says that a call
  about to credit has an upline that exists and a positive amount, which is what makes
  its step a `Credit` of Recharge. That rewards have recharges is a count (`Covered`):
  what was earned of a tier together with the slots that may still earn it
  never outnumbers the recharges; a recharge brings its slot, an earning uses it up.
  `EarningsReconcile` is inductive as it stands, once each step is known to move the
  three sums by what it adds or takes (`Reconciled`). `ThresholdPays` speaks of the
  states without calls; between them `Due` holds: a recharge by hand that reached the
  threshold is rewarded or a call is under way that will find it so, for what that
  call sums is never less than what was committed when the recharge was.
- `BillingProofs`, whatever overlaps and wherever it crashes: type correctness,
  `LedgerExplainsBalance` and `FloorHolds` of `Billing`. The invariant is `TypeOK /\
  WalletInv`; the arguments rest on `TypeOK`, where `ProperCall` ties pc and request.
- `BillingProofs`, with the calls of a key one after another (`KeyCalls = 1`):
  - `SerialNeverOversold`. NeverOversold is not inductive: a call decides with the
    counter it read. The strengthening `Serial` says that nobody else works on the
    key, that the counter has only gone down since the call read it, and that what it
    is about to consume fits what it read. `HoldOversells` shows the proviso is needed.
  - `SerialPeriodRunsOut`. The proviso is needed here as well: with `KeyCalls = 2`
    TLC finds two holds that both found the period over, of which the second wipes
    what the first consumed in the new one.
  - `BillingImplementsAccount`, the refinement of QuotaAccount, without crashes; and
    `StepsImplementAccount`, with crashes: every step but `Crash` itself is a step of
    QuotaAccount or leaves it alone, the holds that a crash left and Boot gives back
    included. `Crash` cannot be included: a refund that was made and not marked is
    open again after it, at its full amount. Both rest on `Works`, which ties every
    call in flight to the rows it works on: a reservation about to be inserted is not
    there, one about to be refunded or marked is open, of the key of the call, and
    the call knows what it holds. On it
    the abstract state of a request is a function of one call and one row (`Views`),
    so a statement is compared with one abstract step.
  - `SerialHoldsReconcile`: `WalletHoldsReconcile`. The property speaks of keys
    without a call in progress; `Even` says what holds in between (`Books`): a hold
    that was debited and not yet inserted is the amount of the call that is about to
    insert it, a refund that was made and not yet marked is what that call owes back,
    and otherwise the ledger's sums over the rows of a request are what its
    reservation says. A statement adds at most one row to one of those sums
    (`MovedGrows`), and the floor may refuse it, in which case nothing moves.
    `StepBooked` says it step by step of one request, whatever crashes did to others.
  - `SerialCrashLoses`: `CrashLosesAtMost`. The three things a crash can leave wrong
    are bounded together, so they are counted together. `Undone` are the requests
    on which ledger, row and working call disagree; `Debt` is how many usage debits
    neither a record nor a call about to write one answers for. `Losses` bounds
    |Undone| plus what `Debt` has above zero by crashes times slots. No step but a
    crash undoes a request (`StepBooked`) or raises the debt (`StepDebt`); a crash
    does one of the two for each slot it interrupts at the right statement, and
    never both (`CrashUndoes`). A hold without its reservation is told from one
    that was given back by `Rowless`: nothing is refunded to a request without a row.
  - `SerialRequestsCounted`: `RequestCountedOnce`. Counting units against requests
    begun is not inductive: a refund is made before its row is closed, a unit is
    taken before its record is written, and the quota that runs out turns calls to
    the wallet. `Count` has two cases. Once as many requests have begun as the key
    was sold (`Enough`), `NeverOversold` is the bound. Until then every call takes its
    unit from the quota (`Routine`) and every reservation is one unit (`Uniform`), and
    the counter, with what the call in progress is about to take or has given back
    too early (`Ahead`), is covered twice: by the requests begun, and by the requests
    that nobody will be charged for again, the open reservations and the row a call
    is about to write (`Due`). The second bound is what lets Charge take a unit when it
    finds no reservation: its own request is not among those that are spent.
  - `SerialQuotaReconciles`: `QuotaReconciles`, of keys without periods and without
    overflow, as long as there was no crash and no switch and every record was billed.
    Each hypothesis is a way to break the equation: a period that is over and a switch
    reset the counter beside rows that stay, an overflow moves a hold or a charge to
    the wallet, a crash separates the counter from its row, and a record that finds
    too little left of the quota keeps its tokens and bills nobody (`AllBilled`).
    Only the last concerns what a key was sold; without it
    `CounterCoversTables` still says that the counter is at least what
    the open reservations hold and the records were billed, so with
    `NeverOversold` those never exceed what was sold. The equation
    is false while a call is in progress: the counter moves a
    statement before the row it answers for. `Lead` is that difference, known from
    the statement the call is at; `Match` is the equation with it, for the call that
    works on the key or the idle slot (`Matched`). It also needs what the call
    carries: that it never turns to the wallet (`OnQuota`), and that the unit it has
    computed is what its record will add to the sum (`Worth`), which for a request
    key is one or nothing, by whether the request has a billed record already.
- `ShopProofs`, for any number of purchases, renewals and deletions at once: type
  correctness, `ReferencesLive`, `OrdersArePaid`, `RenewalKeepsRest`, the ledger and
  the floor; and `HistoryChains` with one writer of a key at a time (`KeyWriters = 1`;
  see Divergences). References are inductive only together with what a call may still
  rely on (`ProperCall`): a purchase inserts its order several statements after it
  read the key, and what keeps the order from pointing nowhere is the guard at the
  INSERT, not what was read. Orders are counted together with the calls that have
  paid and not yet ordered (`PaidFirst`).
- `GatewayProofs`: type correctness, `LimitKept` and `SharesKept`, for any number of
  threads. The invariant of the first (`Windows`) is about every window at once:
  until it closes, `hits` has
  every request that passed in it; after that a call may prune it, but then only the
  calls that read the clock before its end can still add to it, and the pruning
  thread is not one of them. That of the second (`TurnsTaken`) says that the cursor
  of a key has counted its picks, and that pick n took the candidate whose span holds
  the percent n modulo the sum, whatever the list was at that pick. The rest is
  arithmetic on percents: as many consecutive numbers as there are percents
  meet each percent once (`CursorGoesRound`), the places of a list cut the
  percents into spans as long as their shares (`PlacesFill`, `SlotOfPercent`), so a
  round gives each candidate what its places add up to (`RoundIsFair`).
- `RequestLogProofs`: all five properties of `RequestLog`: `ContextIsBrief`,
  `PendingBounded`, `UsageIsLogged`, `CostsAreBilled` and `PurgeOnTime`. Usage and log
  rows are counted per request, together with the calls between the two.
- `PortalProofs`: type correctness, `LockIsDue`, `LockHolds`, `TelegramSignsOwn`
  and `ApprovalWaits` of `Portal`, that is every property of its run. The
  invariant `Linked` adds to the rows what a call may still rely on (`Placed`):
  its account exists, the lock it read was over, the identity it brings was one
  the account had. Without the second part nothing says which logins may lift a
  lock. `ApprovalWaits` counts: a step leaves nobody active unapproved
  (`Quiet`), or is a trouble and adds at most who is registering, one per slot.
- `LifecycleProofs`: `MigrationWhole`, `OneDatabase` and `EditsSurvive` of
  `Lifecycle`, its safety properties. `HandlesKept` says which handles may be open
  at each statement (while a file is being opened nobody serves, since Boot has
  no app yet and the app of a restore has a closed handle); on it rests
  `FilesSound` (the statements before `next` are executed) and on both
  `EditsKept` (what is left to seed has no row, and nobody edits meanwhile).

Where a proof needs a smallest counterexample (the newest of some rows, a sum over a
table), it takes the least element of a set of naturals (`LeastNat`, from `WFMin` of
the library): the induction theorems of the library cannot be instantiated here, a
minimal element can.

Only model-checked: the liveness properties (`FailedHoldFreed`, `StaleHoldFreed`,
`BootCompletes`), which with ENABLED are out of the prover's reach. Every
safety property of the runs is stated by a theorem.
What is proved with `KeyCalls = 1` is checked with `KeyCalls = 1`
as well; `HoldOversells` is the run with two calls of a key at once.

## What is not modelled

- `ComputeCost` is arithmetic on prices and token counts: Billing takes costs as
  given, and Lifecycle models which price row a call is charged by.
- `mgmtSwitchQuota` to another kind or amount while calls are in progress: Billing
  switches with kind and amount kept, Shop with new ones and no calls; together a
  counter would mix two units, of which no text of the repository says anything.
- Of a key with calls in progress: its deletion (Shop deletes keys, without holds;
  Divergences says what happens to a hold), its owner turning the overflow to the
  wallet on or off (`handleMyKeyUpdate`; `Plan` is a constant of Billing) and an
  administrator editing its fields.
- Of the settings only the ones a component edits change what it does
  (`SetReferralMode`, `SetLogMode`); Lifecycle keeps them as default or edited.
- AES-GCM, argon2id and the random sources are mathematics and I/O; a password is
  the form of its hash, a token is its session.
- The plugin ABI, the fields of the configuration, read-only routes, statistics,
  web pages, scripts and CI keep no state the properties speak of. Most of
  `management.go` and of the portal's routes is of that kind.
- Two restores at once, and a host that registers the plugin from two threads.
- The administrator may give `mgmtRecharge` any reason; only "recharge", which is
  what sets off a reward, is modelled. The audit log is left out.
- Database errors: Shop (`Fail`), Portal and Lifecycle (`Trouble`) have them;
  elsewhere only refusals by a CHECK, a
  unique index or the floor are modelled.

## Plan

Modelled first was what moves money, then what sells it, then what guards and
records its use, then the accounts of the portal and the life of the database. What
is left:

1. `QuotaReconciles` of keys with periods, with the counter compared to the rows of
   the running period only; the tables do not say which period a row belongs to, so
   this needs a history variable.
2. A switch to another kind under open holds, should the code come to define what
   it does to them.
