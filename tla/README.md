# Walletra: a verification development

Walletra is a Telegram bot, one Go process with a PostgreSQL database, that
polls a Polygon RPC node and a public Bitcoin API for the transfers of wallets
its users register and sends them periodic reports. This directory holds TLA+ models of its state
machines, the TLC configurations that check them on small instances, and TLAPS
proofs for all instances. `PROJECT.json` lists the components, the runs, the
theorems, the hazards the properties are for, and, under `map`, the source lines
each definition stands for.

## 1. The system

### Components

| component | state | operations | modelled in |
|---|---|---|---|
| Poll cycle, `internal/service/tracker.go` | locals of `PollOnce` | `PollOnce`: list, then per wallet fetch, insert, mark | `WalletPolling`, `BtcPolling` |
| Polygon provider, `internal/tracker/polygon_direct.go` | none of its own, `polygon_indexer_state` | `FetchWalletTransactions`, `findBlockByTimestamp`, `scanRange`, `fetchLatestTen`, `filterLogsChunked` | its rows in `WalletPolling`, its calls in `BlockSearch` and `ProviderFetch` |
| BTC provider, `internal/tracker/btc.go` | none | one HTTP request, filter, net amounts | `BtcPolling` |
| Provider dispatch, `internal/tracker/provider.go` | a list | first provider of the chain, `ValidateAll` | `Providers`, `BotProcess` |
| Scheduler, `internal/scheduler/scheduler.go` | two tickers | one goroutine: poll tick, report tick (`dispatchReports`) | `WalletPolling`, `ReportDispatch` |
| Report service, `internal/service/report.go` | none | `TimeRange`, `NextRunAt`, `BuildReportText` | `ReportDispatch` (as lengths), `ReportCalendar`, `WalletReport` |
| Repository, `internal/repo/repo.go`, and schema, `migrations/` | the tables | every SQL statement | wallets, filters, transactions, indexer state in `WalletPolling`; settings in `ReportDispatch`; wallets again in `WalletDialog`; users, roles, activities in `BotProcess`; the user list in `AdminPages`; aggregates in `WalletReport` |
| Chat handler, `internal/bot/handler.go` | `states` (a setup per chat), `removal` (a name per chat), a mutex for the two maps | registration and role of the sender, wizard, removal dialog, settings, reports, admin pages | `BotProcess`, `WalletDialog`, `ReportDispatch`, `AdminPages` |
| Process, `cmd/bot/main.go` | a semaphore of 32 | start, superuser bootstrap, startup poll, scheduler, one goroutine per update, stop | `BotProcess`; crash and restart in the others too |
| Container start, `docker/entrypoint.sh` | `schema_migrations` | apply and record migrations | `ContainerStart` |
| Configuration, pool, logger, data types | none | parsing | success or failure in `BotProcess`; their values are CONSTANTS |

### How they interact

`main` starts the scheduler's goroutine, a second goroutine that polls once, and
then one goroutine per Telegram update (`main.go:143`). They share the database,
without transactions that span more than one statement except in `AddWallet`,
and the handler's two maps. The scheduler's goroutine runs polls and report
dispatches in turn, so a long poll delays the reports. A poll calls the provider
with 45 s for each wallet. Telegram keeps an update until a later `getUpdates`
confirms it, the container is restarted whenever it ends, and the entrypoint
runs before every start of the bot. The RPC node serves a chain that grows and reorganises;
the provider reads only blocks `POLYGON_CONFIRMATIONS` below the head.

### What is hard, and what makes each part correct

* **Polling.** Two pollers may overlap; wallets come and go while a poll holds a
  batch for them; the chain reorganises while it is read; inserts fail half way;
  the process dies between insert and mark. Correct: what is stored can never be
  taken back, belongs to a wallet that exists, a native transfer is stored once,
  the window of a poll is stored before the wallet is marked, and no wallet
  starves another.
* **Reports.** `next_report_at` is read, acted upon and written in separate
  calls, against settings edits. Correct: no report is early, none is put off
  beyond its period, and a user who blocked the bot does not stop the others.
* **Dialogs.** Old keyboards stay usable for ever, and two updates of a chat
  share a setup through a pointer that the lock does not protect. Correct: fields are
  filled in order, a saved wallet is the one in progress, once, with the coin of
  its chain, and no goroutine acts on a setup or a name that is not there.
* **One fetch.** A chunked scan, forward or, for a new wallet, backward, with
  recursive splits of log queries, null answers, and a search over any chain.
  Correct: it ends; what it returns was read whole, without holes or repeats; the
  indexer state never runs ahead of what was read.
* **Bitcoin.** No confirmations, one page, block times of the miner's choice.
  Correct: nothing unconfirmed is stored, rows repeat only by reorganisation, and a
  transaction is missed for one of four known reasons only.
* **Process.** Handlers of one chat register it at the same time, updates come again
  after a restart, the superuser's id changes, migrations stop half way, the
  semaphore is full when the signal comes. Correct: the bot runs on the whole
  schema, a signup is announced once, admin pages go to who was configured, the
  superuser is not refused, the process ends when told to, no update is dropped.
* **Reports as text.** Calendar arithmetic, and rows stored after they are due.
  Correct: a schedule leaves out little and for a known reason, and sums add up.

`PROJECT.json` "hazards" lists these at their lines, with the property that
covers each or the reason why none does.

## 2. The modules

| module | what it is |
|---|---|
| `TransferLedger` | abstract: what tracking promises, a ledger of (wallet, transfer) entries |
| `WalletPolling` | the poll pipeline over tables and chain; refines `TransferLedger` |
| `StartChoice` | abstract: the search for the first block as one step |
| `BlockSearch` | `findBlockByTimestamp`, probe by probe; refines `StartChoice` |
| `ProviderFetch` | extends it to `FetchWalletTransactions`, call by call |
| `BtcPolling` | poll cycles of a Bitcoin wallet |
| `Providers` | composes the two by chain, as `MultiChainProvider` does |
| `ReportDispatch` | `dispatchReports` against settings edits |
| `WalletDialog` | the add and remove dialogs of one chat |
| `ContainerStart` | `entrypoint.sh` over any database it may find |
| `BotProcess` | extends it to the process: `main`, its update loop, the first part of every handler |
| `ReportCalendar` | `TimeRange` and `NextRunAt` on the calendar |
| `WalletReport` | `AggregateReport` over a growing table |
| `AdminPages` | the superuser's list of users |
| `ReadSide` | composes the last three, which share no state |
| `MC...` | values of the constants for TLC |
| `Sums` | lemmas about sums over finite sets, and the induction they need |
| `...Proofs` | the theorems |

Names follow the code. Definitions named "mutant" in a comment, such as
`SafeToTooHigh`, are defective variants that no specification here uses: a run
with the variant in place of the original must fail, which shows that the
property can.

### WalletPolling

`job[p]` holds the locals of `PollOnce` in the goroutine `p`, one of the
scheduler's and the startup poll. `pc` says where it is: `cycle` between two
wallets, `head` after the search for the first block, `scan`, `insert`, `mark`.

| action | code |
|---|---|
| `Tick` | time, and the poll ticker with its channel of one (`scheduler.go:28`) |
| `Mine`, `Reorg` | the chain; at most `Confirmations` blocks are replaced |
| `AddWallet`, `DeleteWallets` | `repo.go` `AddWallet`, `DeleteWalletsByName` with the cascades of the schema |
| `StartPoll`, `ListFails` | `ListWalletsForPolling`, then `now` |
| `Resolve` | `since`, then `resolveStartBlock` (its result; the search is `BlockSearch`) |
| `Skip` | tokens error, no provider, or a failed first call: `continue` |
| `FetchHead` | head, confirmations, the "nothing to scan" returns, the filters |
| `ScanChunk` | one chunk, and `UpsertPolygonIndexerState` |
| `LatestTen` | `fetchLatestTen` for a wallet never polled |
| `ProviderError` | RPC or context error: the rows are dropped, the wallet is not marked |
| `Insert`, `InsertFails`, `InsertRejected`, `InsertDone` | `InsertWalletTransactions`, one row at a time; the error is logged only |
| `Mark`, `MarkFails`, `EndPoll` | `MarkWalletPolled`, end of the loop |
| `Crash`, `Restart` | the process; a restart polls at once |

Abstractions:

* A transfer is an element of `Transfer` with a transaction hash, a kind and the
  wallets it touches; amounts, addresses and payloads are left out. The logs of
  one transaction with one contract and direction are one transfer.
* A row keeps the columns of the unique index and the transfer it came from.
* `PollOnce`'s list and its `now`, and the head and the filters in `FetchHead`,
  are read in one step each. Chunks are read in one step: they consist of final
  blocks, which do not change in between.
* `Reorg` replaces at most `Confirmations` blocks. This is an assumption on
  the environment, the one the setting exists for, and not a fact about the code.
* Block times increase strictly and time is a small integer.
* `Unsupported` wallets are those no provider serves. Bitcoin wallets are in
  `BtcPolling`.
* `Flaky` wallets are those whose calls may fail; `Fault` bounds failed database
  calls and crashes. A cancelled context shows as `ProviderError`, `InsertFails`
  or `MarkFails`, followed by `Crash`.

### TransferLedger

`LedgerSpec` lets a wallet be tracked, a transfer be settled, an entry of a tracked
wallet and a settled transfer be recorded, and wallets be untracked with their
entries. The mapping (`Ledger` in `WalletPolling`): tracked are the active
wallets, settled the transfers in final blocks, and the ledger is the table,
without labels and stamps. `Settle` may only add transfers, so refinement also
says that no reorganisation reaches a final block.

### ReportDispatch

`disp` holds the locals of `dispatchReports`: `loop` between two users, `send`
after `GetSettings`, `save` after the message. `edit[c]` is a handler between
`GetSettings` and `UpdateSettings` of `freq_` or `toggle_unchanged`. `last` is a
history variable: when and for which frequency a report was last delivered.
`SendUnacked` delivers a message whose answer is lost. `Blocked` users make every
`Send` fail. Periods are lengths: `Period[f]` is both the window of `TimeRange`
and the distance of `NextRunAt`, which holds of hours and days; months and years
are in `ReportCalendar`. `BuildReportText` only reads, its failure is
`SendFault`; what it reads is in `WalletReport`.

### WalletDialog

One chat. `setup` is the heap of `walletCreateState` objects, `current` and `removal` are
the chat's entries in the handler's maps, `shown` the buttons of all keyboards ever sent,
`task[k]` what goroutine `k` does: the update, the pointer it took from the map, the row it
is about to save. A step ends where the code takes or releases the mutex, calls the
database, or has checked an update against the setup it is about to change: `CheckText` and
`CheckPress` are the checks, the `Give...`, `Choose...`, `ToggleToken` and `CustomTokens`
actions what follows them, and another goroutine may act in between. The assignments that
follow one check are one step, which is still coarser than the data race the Go memory model
allows. An object without a holder may be reused, as a collector would. Texts are model
values; `Lower` and `Csv` stand for the comparison in `DeleteWalletsByName` and for
`splitCSV`. The one branch of `tokenOptionsForChain` for unknown chains is not reached,
since a chain is always one of `supportedChains`. A new step of a keyboard never takes the
old buttons away: the code neither deletes nor guards old messages.

### BlockSearch

`low`, `high`, `best` are the code's; `Probe` is one iteration, `HeaderFails` the
error return. `time` is any increasing function. The mapping to `StartChoice` (`Choice`)
hides `best` until the search is done: the abstract search fails or names, in one step, a
block with `IsStart`. `IsStart` of `WalletPolling` is the same formula over its chain, so
`Resolve` takes for one step what is proved to look like one. Both keep the chain fixed
during a search: headers that a reorganisation replaces between two probes are not modelled,
the effect of one between the search and the scan is (`searchHolds`).

### ProviderFetch

`stage` says which call comes next: `block` (`getRawBlock`), `in` and `out` (logs
to and from the wallet), `chunk` (the header of each log, `LogHeader`, then what follows
`scanRange`). `queue` is the
recursion of `filterLogsChunked` unrolled: `TooLarge` replaces its first range by
the `Halves`. What is read is the sequence of block numbers per call, so that holes,
repeats and a wrong order all show. `GetBlock` may be answered with null, which the
code decodes to an empty block of 1970. `safe` is -1 where the code returns for want of
confirmations before it sets `safeTo`: with `POLYGON_START_BLOCK` 0, the default, a zero would
name block 0. `FetchHead` may see any head, since
consecutive calls may reach different nodes. `TakeRows` takes any number of rows: which ones
are in a chunk is the matter of `LatestTen` in `WalletPolling`.

### BtcPolling

`poll` holds the locals of `PollOnce`. `Broadcast`, `Mine` and `TxReorg` are the
network: a block arrives with a time up to `Skew` before its arrival, a
reorganisation puts its transaction back. `Page` is the answer of the API: all
that waits, and the newest `PageSize` in blocks. A transaction's amounts `Paid` and
`Spent` are netted in `BtcRow`. `excused` is a history variable that records
a transaction at the very step that gives it up: `Mine` (late block), `BtcStart` (the
window does not reach back), `BtcFetch` (full page), `BtcInsertFails`.

### ContainerStart and BotProcess

`ContainerStart` is the script: `Apply` executes one statement, autocommitted, and
`Stop` may come between any two. `StartInit` has every database the script may
find: used with an image of fewer files, empty, or filled by postgres itself from
`docker-entrypoint-initdb.d` without records.

`BotProcess` goes on from `Exec`. `phase` is where `main` is, `handler[h]` the
locals of one goroutine up to the first audit row and, for an admin command, to its end.

| action | code |
|---|---|
| `Launch`, `Load`, `Refuse`, `EnsureAtStart`, `Validate` | `main` up to its loop; `Refuse` is `log.Fatal` |
| `Send`, `GetUpdates` | Telegram, and the goroutine of `GetUpdatesChan` with its offset |
| `Take`, `Spawn` | `update := <-updates`, then the semaphore and `go` |
| `Signal`, `Exit`, `Down`, `Gone` | SIGTERM, `ctx.Done()`, panic or kill, what is lost with the process |
| `Upsert`, `UpsertFails` | `UpsertUser`: two statements, the second one's error dropped |
| `Ensure`, `Reread` | the role of the superuser, and the user read again |
| `Notify`, `Audit` | the signup notice and the audit row |
| `AdminCommand`, `AdminLog` | the guard of the admin commands and of `admin_users_page:` |

Every database call fails once `ctx` is done (`Fault`). A message whose first part is
over ends here; its second part is `WalletDialog`. Activities are abstracted to the
chats on record as superuser.

### ReportCalendar, WalletReport, AdminPages

`ReportCalendar` counts days from the first of a given month; `AddMonths` keeps the day
and lets it spill over as `AddDate` does. A schedule is followed report by report, each
up to `MaxLate` days late. `hourly` has no calendar in it and is in `ReportDispatch`.

`WalletReport` is the schedule of one user and the rows its reports sum. `StartRun` takes up
a user at any tick from the due date on, `SendReport` sums the last period before that tick,
`SetNextReportAt` sets the next date a period after it: the next run comes later than that,
so the windows of two reports leave a stretch between them. `UpdateSettings` makes a report
due at once and `GiveUp` (a failed call, a message that went out but whose date was not
saved, a restart) leaves it due: then windows overlap. Rows are stored with any time, past
or ahead of the clock. `AggregateReport` is the query with its LEFT JOIN, GROUP BY and the
dropped lines of nothing. `known`, `reported`, `missed` and `again` are history: what was
stored before its report, what reports said, what they left out for being late and what they
said twice for being early.

`AdminPages` has the two queries of `ListUsersPaginated` as two steps, signups between
them, and every button of every message.

## 3. The runs

Most stop by their bounds on time, blocks, updates or edits, which is why they
say `CHECK_DEADLOCK FALSE`; the dialogs never stop and have deadlock checked.

| run | asks | bounds and why they are enough |
|---|---|---|
| `polling_overlap` | `StoredIsFinal`, `IndexedIsFinal`, `WindowStored` | two pollers, one wallet, a native and an ERC20 transfer of one transaction, three blocks, one reorganisation, any RPC call may fail, time 0 to 2 with a window of 1: the startup poll meets two ticks, a window spans two chunks of one block, and the wallet may be deleted or re-added at any step |
| `polling_recovery` | the same with `TypeOK`, `NativeOnce`, `LabelsOfAWallet`, `ImplementsLedger` | one database fault or crash; two blocks, two filters added in any order, so that labels change between polls, and one of them is named as the native coin |
| `polling_liveness` | `EveryWalletPolled` | two wallets of which one is never served; no transfers, they do not matter to it |
| `polling_gap` | `NoTransferMissed`, violated | no faults, no reorganisation |
| `reports` | `TypeOK`, `NextFollowsLast`, `ReportsSpaced`, `DueServed` | two users, one blocked, two handlers, two edits, one fault; an hour is two ticks and a day four, so that a run can be late and an edit can shorten the period |
| `report_edit` | `FrequencyHonoured`, violated | one edit, no faults |
| `providers` | `SearchRight`, `ImplementsChoice`, `CallsRunOut`, `FetchEnds`, `WindowRead`, `IndexedIsRead`, `BootstrapContiguous`, `OnlyMinedStored`, `BtcStoredOnce`, `MissedForAReason` | chains of nine blocks with one gap of time between any two, every head and target; chunks of three, so that a scan has three chunks, the last one short, and a log query splits twice, into unequal parts; bootstraps that end for each of their reasons; one null block, and a log in any chunk, in any of its queries. Two Bitcoin transactions with a page of one, times that spread over two windows, one reorganisation, one error or crash |
| `process` | `SchemaReady`, `NoticeOnce`, `AdminOnlyGranted`, `SuperuserServed`, `ShutdownEnds`, `UpdatesHandled` | two starts with a superuser or none each, two migration files of two and one statements, two chats, two updates, one or two slots, one failed call: two first updates of one chat at once, one delivered again, a burst longer than the slots |
| `dialog_turns` | `TypeOK`, `CoinOfItsChain`, `SavedOnce` | one goroutine, two chains with a coin each, every text and every button at every moment |
| `dialog_race` | `FieldsInOrder` | two goroutines, two setup objects, one chain, symmetry in both; either may act between the check of the other and what it assigns |
| `dialog_pair` | `SavedPairsMatch`, violated | as `dialog_turns`, without tokens |
| `read_side` | `GapOnce`, `GapOfLateness`, `ReportsAddUp`, `ButtonsLead`, `WalkSeesAll` | schedules from every day of two years, one of them a leap year, for a year of reports; two rows, some of amount 0, of two wallets with different owners, stored at any of five instants; periods of one and two, and one edit, failure or restart: reports on time, late by up to three instants, early after an edit, and a longer period in place of a shorter one; up to six users on pages of two, so that a walk has three pages |

`WindowStored` carries one excuse, `searchHolds`: a reorganisation between the search for
the first block and the scan can move the window below the block the search found. It speaks
of wallets polled before, not of the bootstrap. `SavedOnce` is claimed for a user who waits
for each answer; with two goroutines in hand a press of Done twice saves twice.
`CoinOfItsChain` is claimed, and proved, for the same user: with two goroutines TLC finds a
coin that was checked against one chain and assigned after another was chosen. `NativeOnce`
leaves ERC20 rows out, for the code does store a log twice when its label or its stamp
changes (a filter is added, a header lookup fails); `LabelsOfAWallet` bounds the first kind.
`WindowRead` leaves out blocks the node answered null for. `CallsRunOut` counts calls that
are answered; `CallsLeft` is the bound it lowers: fewer than five for each block of the
window (the block, and two log queries which, split down to single blocks, make 2n - 1 calls
for n blocks each), and one header for each Transfer log a query has returned. No number of
blocks bounds the latter: a block has as many logs as it has, and the property says no more
than one header each. `MissedForAReason` names what the code loses and says that there is
nothing else. `GapOfLateness` allows three days more than the lateness, which is the most
that normalisation skips. `ReportsAddUp` counts rows stored before their report was sent; of
those it excuses, by their sums, the ones in the stretch by which a report is late, which
are in no report, and those in the stretch by which it is early, which are in two. It says
that there are no others. `ButtonsLead` and `WalkSeesAll` leave out a signup between COUNT
and SELECT.

### Fairness

`FairSpec` of `WalletPolling` asks weak fairness of time and of each poller's
steps, of `ReportDispatch` of time and of the dispatcher. Go schedules every
runnable goroutine, each wallet's fetch ends after 45 s at the latest
(`tracker.go:47`), and database calls return. `ProvidersSpec` asks weak fairness of
the calls of a fetch, each answered in the end, so that `FetchEnds` is about the
loops and the recursion and not about the timeout. `FairSpec` of `BotProcess` asks weak
fairness of `main` and of each handler (their calls return), and strong fairness of `Exit`:
the `select` of `main` picks at random among its ready cases, so it may not prefer
updates for ever. Faults, users, the chain, signals and restarts are under no fairness.
Bounds on time cut behaviours short, so the liveness properties of polls and
reports quantify over instants that leave a full period before the bound.

## 4. What disagrees with the documentation

1. `polling_gap`: `README.md:5` says the bot tracks wallet transactions. `PollOnce`
   marks a wallet with the start of the cycle, and the next scan drops blocks
   before that time, although the provider stopped `Confirmations` blocks below
   the head. A transfer not confirmed at one poll is never stored.
2. `report_edit`: `README.md:12` promises reports per user settings. An edit
   between `GetSettings` and `SetNextReportAt` sets `next_report_at` to NULL, and is
   overwritten with a date of the old frequency.
3. `dialog_pair`: `handler.go:466` says a chain only supports its base coin. Choosing
   a chain again keeps the coin, and Done on an older keyboard saves the pair.

Seen while modelling, and not the subject of a violation run:

* `README.md:44` says the bot exits when the Polygon RPC is not available; `main.go:102-114`
  goes on in degraded mode (`Validate`).
* `README.md:43` names `matic-mainnet` as the only chain; `btc-mainnet` has a provider and a menu.
* `README.md:9` speaks of a single superuser; a former one keeps the role when
  `SUPERUSER_TELEGRAM_ID` changes, since no code takes it away (`AdminOnlyGranted` is about all
  ids ever configured).
* `README.md:41` says SQL files are applied once; one cut off before its record is
  applied again (`SchemaReady` says this does no harm).
* Due dates are counted from the dispatch run's `now`, at a tick after the due date, so
  the windows of two reports leave a stretch between them: the rows of that stretch are in no report
  (`GapOfLateness` bounds it, `ReportsAddUp` counts them), and neither is a row stored after its report.

## 5. What is proved

For all values of the constants, under the assumptions named in the modules
(finite non-empty sets, positive window, confirmations, chunk size and periods;
nothing on the bounds but that they are natural numbers). Every safety property that a
passing run checks, invariant, action property or refinement, is stated by a theorem, for the
composed specifications too.

**`WalletPollingProofs`**: `TypeOK`, `StoredIsFinal`, `IndexedIsFinal`, `NativeOnce`,
and `ImplementsLedger`. The invariant is `TypeOK /\ ChainOK /\ (\A p : JobOK(job[p]))
/\ StoreOK /\ IndexedIsFinal`. None of the properties is inductive alone: a row
passes through the batch of a poller before it is stored, so `JobOK` says of a batch
what `StoreOK` says of the table, and bounds the scan by the final height that
stood when it began; `ChainOK` keeps a transfer in one block only. The lemma
all of it rests on is `FinalPrefixStable`: no step changes a final block. `NativeOnce`
follows from the invariant: two native rows of one transfer carry the time of the
same block, hence the same key. For `ImplementsLedger` each action is mapped to `Track`,
`Untrack`, `Record`, `Settle` or a stutter.

On top of it, `WindowStored` and `LabelsOfAWallet` from the invariant `WInv`. `ScanOK` says
that a batch, and after the insert the table, has a row for every transfer of the chunks read
so far; it is not enough to look at the mark, since the batch is filled chunk by chunk and
emptied row by row while the other poller, a reorganisation or a deletion comes between. It
rests on `ScannedStable`: the blocks of a scan are final, so they and their times stay.
`OneLabel` names for each wallet the one filter its labels can be, in the table and in
every poll in hand: a label is chosen when the fetch begins and stored much later, when
filters may have been added. That filters only grow while a wallet lives (`WalletsKept`)
makes the choice stick.

`StartIsUnique` says of every reachable state that the search has one result exactly: `Resolve`
neither stops a poll the code would go on with nor adds a choice the code does not have.

**`ReportDispatchProofs`**: `TypeOK`, `NextFollowsLast`, and the action property
`ReportsSpaced`. The invariant adds `ListedAreDue`: whoever a run has yet to
serve was due at its start, and only an edit, which clears the date, has touched
the row since. Without it a report might be sent to a user served already.

**`ProviderFetchProofs`**. The search: `SearchRight`, from the loop invariant `Bracket`: all
below `low` is before the target, all above `high` after it, `best` is just below `low`. The
chains are an arbitrary set of strictly increasing functions, so the proof covers what
the run `providers` restricts to one gap. `ImplementsChoice` follows: a probe is a stutter or
the one abstract step.

The fetch: `WindowRead`, `IndexedIsRead` and `BootstrapContiguous`, for any chain,
chunk size, limits of a bootstrap and answers of the node, of `FetchSpec` (what `Providers`
does on Polygon). The invariant `FetchInv` takes over that of the search and adds that all
before its best block is before the target. Then, at every call: what each of the three calls
has read is `Before`, the chunks done, and the part of the chunk at hand that `UpTo`
gives (`ReadOK`); the ranges still to be asked for follow each other up to the end of the
chunk (`QueueOK`); the chunk lies next to those before it and, in a bootstrap, as far back as
the number of ranges says (`ChunkOK`); a null answer is for a block asked for, so the next
block is never one of them (`NullOK`). None of the three properties says anything of a fetch
under way. The lemmas are about sequences: `ReadOneMore`, `ReadRange`, and that the
first range of `queue` may be dropped (`ChainTail`) or replaced by its halves (`ChainSplit`).
The proof also brought out that `safe` must not be 0 without confirmations, see section 2.

`CallsRunOut` is what can be proved of `FetchEnds` here: a fetch has a number of calls left
(`CallsLeft`) which each answered call makes smaller, but for the logs it returns, and which
starts below five times its window; a probe at least halves the blocks still to be searched.
The step that needs an induction is `ChainLength`: a queue of ranges that follow each other
is no longer than the blocks it covers, which is what bounds the refused ranges.

**`ProvidersProofs`**. Bitcoin: `OnlyMinedStored`, `BtcStoredOnce`, `MissedForAReason`, for
any transactions, page, window and skew. `RowsOK` says of batches what `OnlyMinedStored`
says of the table. `TimesOK` counts the times a transaction is known under, in rows, in the
batch or as that of its block: at most one for the block and one per reorganisation; the
count of rows alone is not inductive, since a fetch may bring a time no row has. `OwedOK`
says at each point of a poll which transactions it has stored or has in hand, unless they
are given up for a reason already: at the fetch those before `since`, at the insert those
before `now`.

The composition: all seven invariants of the run, `CallsRunOut` and `ImplementsChoice` of
`ProvidersSpec`. `ProvidersInv` takes over the invariant of the provider that is asked, and
says of a fetch that is not that its search has not begun; `FetchInv` itself would be wrong
there, since a wallet on a chain without a provider fails before the search. `ProvidersStep`
projects a step of the composition to a step or a stutter of each part.

**`WalletDialogProofs`**: `TypeOK` and `FieldsInOrder`, for any number of goroutines;
`CoinOfItsChain` and `SavedOnce` for one update at a time (`OneAtATime`, the user who
waits). The invariant adds `Reached`: a setup at step n has the fields of the steps before,
and `ReadyOK`: what the check of an update relied on is still there when its field is
assigned. `FieldsInOrder` alone is not inductive, because the checks look at the step and
not at the fields. `ReadyOK` survives the other goroutines because no step empties a field
(`Grows`) and a setup in somebody's hand is not taken for a new one (`Renews`). For
`CoinOfItsChain` every action is one of a few edits of a setup (`Edits`), and only a chain
chosen, which leaves step 5, and a coin chosen matter; `CoinChecked` adds that a coin about
to be assigned is that of the chain, which no other goroutine can change in between when
there is none. `SavedOnce` needs `SavingOK`: the pointer in hand is `current`, and what is
`current` was not saved, unless the goroutine is about to clear it.

**`BotProcessProofs`**: `SchemaReady`, `NoticeOnce`, `AdminOnlyGranted`, `SuperuserServed`,
for any migration files, chats, superusers over the starts, and goroutines. The invariant has
two halves. `SchemaOK /\ ScriptOK` says that what is recorded is applied, and that everything
before the statement at hand is in effect: `SchemaReady` alone says nothing of how the script
got there. `BotOK` ties the locals of each handler to the database: `HandlerOK` says
that a superuser in hand was granted the role by a configuration and that a handler past
`UpsertUser` has a row; `NoticesOK` that at most one handler is on its way to
announce a chat, and none once it was announced. Both survive the other handlers because
no step takes a row or the role away (`RoleGrows`). Neither the number of slots nor the queue
of Telegram matters to these four, only that what main took was sent by a chat.

**`ReadSideProofs`**. Pages: `ButtonsLead` and `WalkSeesAll`, for any page size and any
number of users. `ButtonOK` says that a page with a button is not past the end, now and at the
next COUNT, because users never leave; `WalkOK` that a walk has seen whoever of the
beginning is not further back now than its last page: signups push users back, never
forward. `PagesOf` is the lemma about rounding up.

The calendar: `GapOnce` and `GapOfLateness`, for a calendar of any months of 28 to 31 days
in which any twelve months in a row have 365 or 366 (`YearAssumption`, which the Gregorian
calendar satisfies: twelve months in a row hold every month once, and one February).
`FallsInto` says into which month a date one or twelve months on falls, and `GapIs` says
that what lies between two windows is the lateness and the difference of the lengths of the
two months or years the dates are moved by. `CalendarInv` adds to `GapOnce` that after a gap
the schedule stands on a day that every month has, from which nothing is moved again.

Sums: `ReportsAddUp`, for any rows, amounts, owners, periods and runs, late or early.
`ReportInv` adds that rows are finitely many and have numbers of their own, so that a row
stored is one more in the sum, and that a run in hand is not before the end of the last
window. A report adds, for each kind of each wallet, one line at most, which is the sum of
the rows of its window (`LinesAddUp`). The rows from the end of the last window on are cut
where the new window begins and where it ends: what lies before it was left out, or, when
the window reaches back, what it repeats is added (`WindowAddsUp`, from `TotalUnion`).

The composition: `ReadSpec` implies the specification of each of its parts, hence all five
invariants together.

**`Sums`**. What the two proofs about sums rest on. `SumFunctionOnSet` is a fold, a CHOOSE of a
recursive function, and that the function exists and is unique needs induction over the
cardinality of the set. The library's induction rules take an operator, which no installed prover
can instantiate; `NatSetInduction` and `SubsetInduction` state them with a set in its
place and follow from the fact that `<` on the natural numbers is well-founded
(`NatLessThanWellFounded`, `WFMin`), which is first-order. From them: the recursion the
fold stands for, one more element in any order (`SumAddAnyOrder`), a disjoint union
(`SumUnion`), integer values.

Not proved, checked by TLC only: the liveness properties `EveryWalletPolled`, `DueServed`,
`FetchEnds`, `ShutdownEnds` and `UpdatesHandled`. They need fairness and ENABLED, which are
outside the prover's fragment; `CallsRunOut` is the part of `FetchEnds` that is a safety
property.

## 6. What is not modelled

* Menus, help, profile, wallet lists and the page of activities (`sendAdminActivities`,
  `ListUserActivities`): they send what they read. The latter pages like the list of users,
  with filters and without buttons.
* The report of one wallet (`AggregateReportForWallet`): the query of `AggregateReport`
  with one more condition. On-demand reports read the same at any time and change nothing.
* Addresses that make no valid URL: `btc.go:65` drops the error of `NewRequestWithContext` and passes
  nil to `Do`, which panics. The process ends and, restarted, polls the same wallet at once.
  `BtcFetchFails` is a failed call only; `EveryWalletPolled` is without crashes.
* `POLYGON_START_BLOCK` 0, the default, in `WalletPolling`, where the first block is 1 or later. Block 0
  carries no transfers; `BlockSearch` and `ProviderFetch` allow it.
* Texts, amounts beyond sums, addresses, raw payloads, the float64 of an amount, log lines.
* Contract filters of the Polygon provider: no code writes `token_address`.
* Parsing of the environment, pool sizes, the logger.
* A second process on the same database: the deployment runs one container.

## 7. Plan

Done: the poll pipeline and its ledger, the search and its abstraction, report dispatch and
dialogs, the providers call by call, Bitcoin, the process and its start, the calendar, the
sums and the pages; every safety property the runs check is proved, in the compositions too.

What could come next:

1. Bitcoin polls as a `TransferLedger` whose `settled` is weakened to "was in a block
   once", since the provider waits for no confirmations.
2. A chain that is reorganised between the probes of a search: `SearchRight` then has to
   speak of the part of the chain that is final.
3. Measures like `CallsLeft` for a poll cycle and a dispatch run, whose lists only shrink.
