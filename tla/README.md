# Silver Star ERP: TLA+ models, checks and proofs

The program is an ERP for a grower of lab diamonds: an Express server
(`src/server`) over PostgreSQL, and a React client (`src/client`). Everything
that matters happens in HTTP handlers, each of which runs one database
transaction at the default isolation level, READ COMMITTED. Handlers of
different users run at the same time. What protects them from each other is
`SELECT ... FOR UPDATE`, where they use it, and this project asks what that is
worth. In front of the handlers are two caches, below them a pool of
connections; both are shared by all requests and are modelled as well.

## 1. Inventory

### Components

| Component | State it keeps | Operations | What is hard | What makes it correct |
|---|---|---|---|---|
| Shop floor: `routes/lotProcessIssues.js`, `routes/manufacturingProcesses.js`, `routes/roughGrowth.js`, `services/growthRunService.js` | `inventory` (lots), `lot_process_issues` and return lines, `machine_processes`, `machines.status` | issue, return, start, hold, resume, complete, machine panel, rough output | every handler reads rows another may change; some lock them and some do not; one process is completed by three different handlers | no piece appears or is lost; an issue balances; a process completes exactly when its lots are back; a biscuit is neither stranded nor cut twice |
| Stock: `routes/lotMovements.js`, `stockTransfer.js`, `inventory.js`, `services/seedLotCodeService.js` | lots, genealogy, movement rows, pending transfers | split, mix, sell, transfer, submit, approve, reject, withdraw | long chains of legal operations on one lot; a lot moved while a process holds it; a verdict that overtakes another | quantity is conserved, movements explain it, genealogies are sound, a verdict says what happened |
| General ledger: `services/journalEngine.js`, `routes/journalEntries.js` | `journal_entries`, `je_lines`, `accounts.balance` | create, post, edit, correct, reverse, delete | a balance is stored as well as derivable; drafts are posted without a lock; an entry can be undone in two ways | stored balances equal the ledger; debits equal credits; posted entries never change; an entry is undone once |
| Payables: `routes/purchaseNotes.js`, `payments.js`, `expenses.js`, `vendorAdvances.js`, `services/vendorAdvanceService.js` | bills with stored settlement columns, `payment_allocations`, expense allocations, `vendor_advances` and their applications | bill, pay, expense, apply advances (FIFO or by hand) | a request locks several bills one by one; three handlers write the same columns in three ways | no bill is over-settled, no advance overdrawn; columns, documents and control accounts agree |
| Receivables: `routes/invoices.js`, `receipts.js`, with `routes/jeAllocations.js` and `services/openDocumentService.js` | invoices with stored settlement columns, `receipt_allocations`, `je_allocations`, `customers.outstanding` | invoice, receive, allocate an entry, remove allocations | sums computed from snapshots older than the lock they wait for | stored balances are the derivable ones; nothing is over-settled; the customer owes what the account says |
| Fixed assets: `routes/fixedAssets.js`, `depreciationRuns.js`, `services/depreciationEngine.js` | assets with accumulated depreciation, runs and their lines | capitalise, run, cancel, edit, dispose | lines are computed before the transaction that posts them | the posted runs explain asset and ledger; depreciation stops at the salvage value |
| Read path: `db/cache.js`, `services/eventDispatcher.js`, `middleware/requestDedup.js` | cached values, computations in flight, recent answers, waiting requests, recent events | get, set, invalidate, dispatch, flush | invalidation during a computation; dropped events; leaders that go away | staleness is bounded, announced writes are seen, every waiter is answered |
| Connections: `db/pool.js`, `middleware/timeout.js` | pooled connections and the transactions open on them | connect, begin, commit, roll back, release, time out | a connection released inside a transaction; handlers that hold one connection and wait for another | what users are told is true; every handler ends; no row stays locked |
| Growth cycles: `services/growthRunService.js`, `routes/growthRuns.js` | `growth_run_cycles` | record a cycle, total growth | two completions read one height | not modelled |
| Bank deposits, reconciliation: `routes/bankDeposits.js`, `bankRecon.js` | `bank_deposits` and their entries, reconciliation flags | create, edit, reverse, delete, match | an edit rewrites lines of a posted entry | not modelled |
| Real-time updates: client `SocketContext.jsx`, `useRealTimeSync.js`, `useModuleSync.js`, server `services/socketService.js` | the page's socket, its timers, its rooms; the rooms of each connection on the server | connect, retry, subscribe, unsubscribe, log in and out | timers and close events that belong to earlier sockets and tokens | one socket per page; page and server agree on the rooms; a page comes back online |
| Jobs and presence: `services/queueService.js`, `queueWorker.js`, `pgNotifyListener.js`, `presenceService.js` | Bull queues with an in-memory fallback; none for presence | enqueue, work, notify | little | not modelled |
| Authentication, roles, permissions; master data, cost centres; reports, dashboard, search; the client | reference rows; none of their own | create, update, delete, read | little beyond one row | not modelled |

### How they interact

Components share the database and call each other inside one transaction: a
payment, a receipt, a rough output, a depreciation run or a deposit calls
`journalEngine.createEntry`; a reversal deletes allocations and calls
`syncBillStatus`; an issue and a return call `growthRunService`. A rough output
and the creation of an entry outside a transaction take a second connection
from the pool. After COMMIT a handler calls `dispatchEvent`, which invalidates
cached reads and notifies other clients. Lots are shared by the shop floor and
the stock handlers, bills by payables and the ledger's allocations.

`PROJECT.json` lists each component with its status, and under `hazards` the
places where this code can go wrong in a way a test would hardly reach.

## 2. Modules

| Module | Role |
|---|---|
| `ShopFloor` | lots, issues, processes, machines |
| `Custody` | what the shop floor promises about material: an abstract specification of three counters |
| `ShopFloorCustody` | `ShopFloor` implements `Custody`: the mapping and the property `MaterialFlow` |
| `Stock` | splits, mixes, sales, issues and returns, transfers at once and after review |
| `Ledger` | journal entries, balances, allocations to bills |
| `Payables` | bills and what settles them but journal entries |
| `VendorAccount` | what the books promise a vendor: an amount owed and an amount in advance |
| `Receivables` | invoices, receipts, journal entries allocated to invoices |
| `InvoiceBooks` | the tables of `Receivables` and the properties about them |
| `Assets` | fixed assets and depreciation runs |
| `ReadPath` | request deduplication, the cache, the events that invalidate it |
| `Connections` | the pool and the transactions on it |
| `Realtime` | the socket of a page: timers, reconnects, rooms |
| `PageRooms` | the sockets and rooms of `Realtime` and the properties about them |
| `MC...` | the module of the same name for TLC: instances and symmetry |
| `...Proofs` | theorems about the module of that name; `SettlementProofs` has those of `Payables` and `Receivables`, `ReadPathProofs` those of `ReadPath` and `Realtime` |
| `TableLemmas` | lemmas about tables as sequences of rows and about sums over them, used by six of the proofs |

Each model is alone with the part of the state it is about; what two of them
share (a lot, a bill) appears in each as far as its handlers use it.

### From a handler to an action

A table is the sequence of its rows in the order of their ids; a deleted row stays with a
status that says so. Where rows have no order that matters, a table is a function. Column
values that no property tells apart are left out.

* A handler that locks every row it reads before it reads it is **one
  action**: nobody can see or disturb its intermediate states.
* A handler that reads a row it has not locked, and decides by it, is a **Begin** action, whose guard
  is the handler's checks and whose effect is only `sess[s]`, what it has read;
  and a **Finish** action, its writes and the COMMIT. Between the two, other
  requests act. Reads of one handler between Begin and Finish form one snapshot: a handler
  that reads twice is taken to read at the same time.
* A handler that locks rows **one by one** (payments, receipts, allocations) has an
  action for each lock, and one for the writes after the last.
* Row locks that are held between actions are state formulae over `sess`
  (`IssueLocked`, `LotLocked`, `EntryLocked`, `Free`): an action that
  needs the row waits by not being enabled. `GiveUp` is `lock_timeout`.
* **Rollback** ends any unfinished request without effect: an error, a timeout,
  a deadlock that PostgreSQL breaks, a lost connection. All crashes and
  partial failures of a request are this action, because nothing but the
  transaction's own rows is written before COMMIT; `Connections` asks where that is untrue.

### Shop floor

`lots`, `issues`, `procs`, `machines` are the tables; `scrapped` counts pieces
in return lots that no handler here takes again (damaged, consumed). `Ops`
chooses the handlers in use, so that runs can separate questions.

| Actions | Handler |
|---|---|
| `IssueToMachine`, `HandIssue` | `POST /process-issues`, with and without a machine |
| `BeginReturn`, `FinishReturn` | `POST /process-issues/:id/return` |
| `BeginStart`, `FinishStart` | `POST /manufacturing/processes` |
| `BeginHold`, `BeginResume`, `FinishHoldResume` | `PATCH .../hold`, `.../resume` |
| `BeginComplete`, `FinishComplete` | `PATCH .../complete`, which for a growth process is the Growth Run Return |
| `SetMachineStatus` | `PATCH /machines/:id/status` |
| `PostOutput`; `BeginOutput`, `FinishOutput` | `POST /rough-growth` by growth run; by process |

* `PickerOnly` says that a request names a lot once, as the client's lot picker does.
* Return types that differ only in the status of a lot that never circulates
  again (reprocess, QC hold, damaged) are one, `"damaged"`. A biscuit takes a
  single return type, as the handler insists.
* `remaining_after` is computed by the client as `max(0, ...)`, and the server does not check its
  sign; the model takes only requests the client makes.
* Rough lots are only counted, in `outputs` of their biscuit.
* Machine logs, measurements, the cycle history, costs and the journal entry of a rough
  output are not modelled.

`Custody` knows three numbers: pieces in stock, in process and gone. `Issue`
moves pieces from the first to the second, `Return` from the second to stock
and to gone. `ShopFloorCustody` maps stock to the quantity of the lots in stock that are not biscuits
and in process to the remainders of their open issues, and checks
`MaterialFlow`, that is `Custody!Spec`: whatever the interleaving, pieces move
only as the abstract actions say.

### Stock

| Actions | Handler |
|---|---|
| `Split`, `Mix` | `POST /lot-movements/split`, `/mix` |
| `Sell` | `POST /invoices`, one line |
| `IssueLot`, `IssuePart`, `Return` | issues of a lot or of part of it, and returns, as far as the other handlers can tell (`ShopFloor` has all of it) |
| `TransferNow` | `POST /stock-transfer` |
| `Submit`, `Approve`, `BeginReject`, `FinishReject`, `Withdraw` | `POST /stock-transfer/pending`, `.../approve`, `.../reject`, `DELETE` |

A partial issue takes its pieces out of the lot and gives them to a new lot, which goes into the process; it writes a
row of `lot_process_issues` and none of `lot_movements`. `Away` adds up what was issued out of a
lot in this way, so `MovementsExplainStock` is about the two tables together.

`net` adds up the movement rows of each lot; `parent`, `root`, `level` and
`sibling` are its genealogy and the number in its code. Three history variables
carry no state of the program and only let properties speak of the past:
`carried` (how often a transfer was carried out), `overtaken` (a rejection that
overwrote a verdict) and `surplus` (what transfers took from lots in process).

* A transfer names up to `MaxLines` lots and asks at most `MaxQty` of each. Its lots
  are read without ORDER BY, so the parts get their ids in any order (`Orders`).
* `Held` is what a lot accounts for: the balance of its issue while a process has it, else its
  quantity. A biscuit keeps its quantity in a process, which works on it in place.
* `Top` and `Depth` follow the parents of a seed lot to the end; `LineageSound` compares
  them with the columns `root_lot_id` and `split_level`, which are written once.

### Ledger

An entry keeps the **net debit of each account** instead of its lines, in
whole units of the smallest coin, so an entry is balanced when the numbers add up to 0 (`validateLines`), and
the effect on a stored balance is the number or its negation by the nature of
the account (`Effect`). An entry also carries its allocations per bill.

| Actions | Handler |
|---|---|
| `createEntry` | `POST /journal-entries`, and every document that posts an entry |
| `BeginPost`, `FinishPost` | `PUT /journal-entries/:id/post` |
| `EditDraft`, `DeleteDraft` | `PUT` of a draft, `DELETE` |
| `BeginCorrect`, `BeginReverse`, `FinishCancel` | `PUT` of a posted entry (reversal and replacement), `POST .../reverse` |
| `BeginAllocate`, `FinishAllocate` | `POST /je-allocations` |
| `BeginUnallocate`, `FinishUnallocate` | `DELETE /je-allocations/by-je/:je_id` |

* A reversal holds the entry (`FOR UPDATE`), the accounts it has updated and
  the allocation rows it has deleted until it commits. It does not hold the
  bill while it computes what is outstanding: that is why it is two actions.
* `BeginAllocate` is the moment of the snapshot of the statement that locks the
  bill; its subqueries see that snapshot even if the lock is granted later.
  The INSERT then waits for a reversal of its entry, through the foreign key.
* Any entry that exists may be allocated, a draft and one that was reversed or corrected included: that is
  all the server checks (`jeAllocations.js:72`), although the pages offer only posted ones.
* Deleting a draft deletes its allocations (`ON DELETE CASCADE`) and tells no bill. The history variable
  `orphaned` keeps, for each bill, what such drafts had settled and the stored balance still counts, until a handler computes it anew (`Synced`).
* `DraftsOwned` says that no two requests work on one draft at once. It is an
  assumption about the users: the code does nothing to ensure it.
* The status `cancelled` is not modelled: no handler gives it to an entry of
  this component. The columns `is_reversed`, `reversed_at` and `reversal_of_je_id` are not
  modelled either: nothing here reads them before it writes.

### Payables and the vendor's account

| Actions | Handler |
|---|---|
| `CreateBill` | `POST /purchase-notes` |
| `RequestPayment`, `LockBill`, `FinishPayment` | `POST /payments` |
| `RequestExpense`, `LockBill`, `FinishExpense` | `POST /expenses` with a vendor's bills |
| `RequestApply`, `LockBill`, `FinishApply` | `POST /vendor-advances/apply` |

`settled` keeps, for each bill and source, what the rows of that source add up
to; `bill` has the stored columns, which `AfterPayment`, `AfterExpense` and
`FinishApply` compute each in its handler's way. The open advances are locked with the bill in
hand, so an application is one action. `ManualLines` FALSE says that no part of a payment's surplus is
posted to an account of the user's choice: all of it becomes a vendor advance. An expense is taken with a vendor,
since the page offers bills only for one, and a plan of an application names an advance once (section 5 has what happens otherwise). `VendorAccount` has two numbers, owed
and in advance, and the steps `Purchase`, `Pay` and `Apply`; `Payables` instantiates it
(`Account`), and `OneAccount` says that it implements it. `MaxTotal` and `MaxExtra`
bound what a bill and a surplus may be, so that the abstract amounts have a bound too.

### Receivables

| Actions | Handler |
|---|---|
| `CreateInvoice` | `POST /invoices` |
| `PostEntry` | `POST /journal-entries`, and whatever reverses one, as far as the receivables account sees it |
| `DeleteDraft` | `DELETE /journal-entries/:id` |
| `RequestReceipt`, `Lock`, `FinishReceipt` | `POST /receipts` |
| `RequestAllocate`, `Look`, `Lock`, `FinishAllocate` | `POST /je-allocations` |
| `RequestUnallocate`, `Look`, `Lock`, `FinishUnallocate` | `DELETE /je-allocations/by-je/:je_id`, `/:id` |

A receipt locks an invoice and then reads it. An allocation reads in the very
statement that waits for the lock, from its snapshot; a removal computes the
balance before the UPDATE that waits. For these two `Look` and `Lock` are apart, and
the history variable `stale` records who settled an invoice on a look that was
overtaken before its lock. The properties are stated relative to it: they hold of
every other history, and one with a stale look is a known disagreement (section 5).

An entry that settles invoices credits the receivables account by its own lines, which nothing compares with what is
allocated of it, nor with when; a receipt may credit that account by a manual line (`manual`). The customer's `outstanding` hears of
neither. The history variable `credited` adds up both, at most `MaxCredited`, and `CustomerAgrees` says that this is all
that account and `outstanding` ever differ by. `orphaned` is that of `Ledger`: what deleted drafts had settled.

The tables and what is true of them are in `InvoiceBooks`, the requests and their steps
in `Receivables`. `Realtime` and `PageRooms` divide their system in the same
way: a module of proofs about two systems extends the states of both and instantiates
the steps of the second.

### Assets

| Actions | Handler |
|---|---|
| `AddAsset` | `POST /fixed-assets`, or a capital line of a purchase |
| `BeginRun`, `FinishRun` | `POST /depreciation-runs`: the lines are built before BEGIN |
| `BeginCancel`, `FinishCancel` | `POST /depreciation-runs/:id/cancel` |
| `BeginPatch`, `FinishPatch` | `PATCH /fixed-assets/:id` |
| `Dispose` | `POST /fixed-assets/:id/dispose` |

`calculateForAsset` is the engine's: straight-line on the cost or written-down value
on what is left, in whole units and whole periods, capped by what may still be
depreciated. `basis` of a run and `overlap` are history.

### Read path

A request is at a stage: it waits for the leader of its URL, or it leads and then
asks the cache, joins a computation or computes, reads the database, stores, responds. `Arrive`, `Respond`,
`RespondLate`, `LeaderCloses` and `WaiterCloses` are `requestDedup.js`; `TimeOut` is `timeout.js`, which is mounted
after it (`app.js:63`, `:90`) and so answers through the same `res.json`; the handler runs on, and its own answer (`RespondLate`) takes
the list of whoever leads the URL by then, fails to send, and answers nobody on it. `lost` records the requests that this, or a flush,
has taken off their list: they hang. `Lookup`, `Fetch`, `Store`, `Fail` and `Evict` are
`cache.js`; `DispatchEvent` is the dispatcher with its window of equal events;
`Flush` is `POST /cache/flush`. Time is `Tick`: entries lose life and values gain
age. A value carries its version, its age and whether an event has missed it.
The cache is the in-memory one, which the server uses without `REDIS_URL`.

### Connections

A handler is a **program**, the sequence of what it does with its connections,
and there are five kinds (`Program`): a single statement, an ordinary
transaction, a refusal after BEGIN that releases without ROLLBACK, a rough
output that takes a second connection, and a depreciation run that reads
through the pool with one in hand. The pool keeps a connection's
transaction as its last user left it. `GiveUp` is any of the timeouts that end a wait, `EndIdle`
the server's `idle_in_transaction_session_timeout`, `Expire` the 408 answer, after which the
handler runs on.

### Real-time updates

| Actions | Code |
|---|---|
| `Login`, `Render`, `Logout` | the effects of `SocketProvider` that a new token, a rendering of `AuthProvider` or a logout makes run |
| `DelayOver`, `RetryOver`, `OrphanOver` | the timer of `connect`; the reconnect timer; reconnect timers whose id a later close event overwrote |
| `Open`, `CloseEvent`, `Refused` | `onopen`, `onclose`, `onerror` |
| `Mount`, `Unmount`, `EffectAgain` | the effect of `useRealTimeSync` and its cleanup |
| `Lost`, `Deliver` | the server drops a connection (restart, heartbeat); it reads a message |

`connect` is a closure: its timers carry the token of the rendering that made
them. Delays are not modelled, so timers fire in any order. A socket that was
told to close keeps its name until its close event. `ping` is the socket that the
keep-alive interval pings; every close event clears the interval, also one of an earlier socket.
A connection may be lost silently: then the page learns of it only when something it sends is not acknowledged (`Noticed`). `mounted` are the hooks on the
page; each has a room of its own. A token never expires in the model: the
server refuses an expired one, and the page then tries again with the same
token until a request of its own has it refreshed.

## 3. What the runs check and show

| Run | Checks | Shows |
|---|---|---|
| `ShopFloorRaces` | `IssueBalance`, `LotHeldOnce`, `CompletedMeansReturned` | two requests race issues, returns, holds, resumes, completions and the machine panel, and none of these breaks |
| `ShopFloorSerial` | `AllReturnedCompletes`, `BiscuitNotStranded`, `TerminalStays` | what the comments promise of completion holds when requests come one at a time and the panel is not used |
| `ShopFloorCustody` | `MaterialFlow`, `OutputOnce` | the refinement of `Custody`, and that a biscuit is cut once and consumed for good when output is posted by growth run, unless it was issued without a machine |
| `LedgerRaces` | `TrialBalance`, `ReversedOnce`, `ReversalMirrors`, `PostedStays` | two requests race every entry handler, drafts being owned, and the books stay right |
| `LedgerSettlement` | `DueMatches` | entries in any state are allocated, removed, edited, posted, corrected, reversed and deleted, one request at a time, and a bill's balance is what its allocations leave open, but for what a deleted draft had settled |
| `PayablesRaces` | `StoredMatchesSources`, `NeverOverSettled`, `ControlAccountsAgree`, `EveryRequestEnds`, `OneAccount` | payments, expenses and applications of advances race over the bills they name in any order; stored balances, documents and control accounts agree, each request is one step on the vendor's account, and crossed locks end |
| `Receivables` | `DueIsDerived`, `OverSettledByStaleLook`, `CustomerAgrees` | receipts, allocations and removals race over two invoices, while entries are posted and deleted; a balance is wrong only by a removal that looked too early or by what a deleted draft had settled, an invoice is over-settled only by a look that was overtaken before its lock, and the customer's outstanding and the account differ by what was credited by hand |
| `ReadPath` | `WaitersHaveLeader`, `SeesAnnouncedWrites`, `BoundedStaleness`, `EveryRequestAnswered` | answers lag the database only for reasons the model marks, and by no more than the lives of the two caches together; leaders close, fail, time out and answer late, and whoever waits for one is answered, unless a flush or a late answer of an earlier leader has forgotten it |
| `Assets` | `RunsExplainBooks`, `NeverOverDepreciated`, `PostedStandsOnPosted`, `BooksFollowAssets` | the posted runs explain the books in every history; the other three need that certain pairs of requests did not overlap, and each names the pairs |
| `Stock` | `StockConserved`, `MovementsExplainStock`, `LineageSound`, `VerdictTold` | no chain of handlers loses or makes stock, but for one leak that is counted to the piece, and movements and issues together explain every lot |
| `Connections` | `AnswersAreTrue`, `EveryHandlerEnds`, `RowIsFreed` | transactions left open in the pool by refused requests harm nobody but those who run in them, and end |
| `Realtime` | `OneLiveSocket`, `RoomsAgree`, `StaysOnline` | whatever timers, renderings, lost connections and late close events do to each other, a page has one socket at most, server and page agree on its rooms, and a page that stays logged in gets back online, unless its connection is lost silently after a late close event has stopped its ping |

Where the code keeps a promise only in part, the property says in which part:
`VerdictTold` excepts a rejection that overtook an approval, `BooksFollowAssets` the
cancellation of a run after a disposal, `AnswersAreTrue` a request that ran in
another's transaction. The exception is stated as narrowly as TLC allows, and it is part of what is shown.

Every property has a mutant in `PROJECT.json`: a plausible bug of the code
under which the same run finds that property violated. The operators named
`..._Something` next to a definition are those mutants.

### Bounds

Races in these handlers are between pairs of requests, so two requests in flight are
enough, and the tables need only the rows for which two requests can compete
and one more that shows what a history leaves behind.

| Run | Instance | Distinct states |
|---|---|---|
| `ShopFloorRaces` | one purchased lot of 2 pieces, 4 lots, 3 issues, 2 processes, 2 requests: a partial issue (a child lot), its sibling, a partial return, a re-issue of a returned lot and a second process while the first still runs. Growth Run Return is left out, since it leaves the issues of consumed lots open and `LotHeldOnce` is false of it by design of the handler | 252,002 |
| `ShopFloorSerial` | the same with Growth Run Return and rough output, one request | 119,814 |
| `ShopFloorCustody` | two purchased lots of 2 pieces, growth processes on one machine, 4 lots, 4 issues, 2 processes: a biscuit grown in one process enters another with a seed, leaves it before the seed does and is issued by hand in between. With one purchased lot this does not happen, and a claim without the exception would pass | 234,491 |
| `LedgerRaces` | two accounts, one of each nature, amounts up to 1, 4 entries: one corrected and then reversed, or two and their reversals. Amounts enter only by sums and the natures by sign | 151,914 |
| `LedgerSettlement` | one bill of 2, 3 entries, every handler: two that settle it and the reversal of one, one corrected and its replacement allocated, or drafts allocated, edited, posted and deleted | 103,648 |
| `PayablesRaces` | a bill of 2 and one of 1, so partial and full settlement and both orders of locking; 2 advances of up to 2, so FIFO crosses from one to the next; no symmetry, as liveness is checked | 285,089 |
| `Receivables` | 2 invoices of together 2, 2 entries, surplus 1, up to 1 credited by hand | 733,673 |
| `ReadPath` | 2 requests for one page and a third that is only made while the page has a leader (`Followers`): an answer after a 408 that hurts needs a leader that timed out, a later leader, and one that waits for that one. One write, lives of 2 ticks, a window of 1, which may be open at the start, so that the event of the write may be dropped; no symmetry, as liveness is checked. Every request may be made again, so the system never stops and deadlock is checked | 770,734 |
| `Assets` | a straight-line and a written-down asset of cost 3 and salvage 0, edited to 1; rate 2/3, so that the second charge meets the cap; 2 periods, 2 runs | 1,361,972 |
| `Stock` | a lot of 2 seeds, a biscuit grown from 2, or two pieces of rough; 2 places, 4 lots, one issue, transfers of one lot, one piece of it (a lot of one piece moves whole), one submitted up to twice | 659,467 |
| `Connections` | 3 requests of every mix of three kinds that are not all alike, 2 connections | 188,046 |
| `Realtime` | 2 hooks, 3 sockets (one in use, two that are still closing), 2 tokens and 2 renderings, so that timers of two closures meet; 2 faults, each told or silent; 2 messages under way | 651,254 |

All runs but that of `ReadPath` use `CHECK_DEADLOCK FALSE`: tables are bounded, and a
system whose tables are full stops. Runs without liveness properties use the permutations of
requests (and rows that are alike) as symmetry.

### Fairness

* `Payables` and `ReadPath`: weak fairness of `Proceed`. A handler that can take its next step
  takes it: Node runs every callback that is ready, and `lock_timeout`, which is `GiveUp`, is a timer of the
  database. Nothing is assumed of users: no request has to be made, and none has to succeed.
* `Connections`: weak fairness of `Advance`, for the same reason, with the
  pool's `connectionTimeoutMillis` and the two database timeouts as its ways out of a wait; and of
  `EndIdle`, the server's own timer for idle transactions.

* `Realtime`: weak fairness of timers, of the events of each socket and of the server's reading.
  Browsers fire timers and report the end of a connection of which they are told, and of one that is lost silently if something is sent on it (`Noticed`): a
  ping of every 25 seconds, for as long as the interval pings this socket, or a message of a hook. Nobody
  has to log in, and faults and renderings come to an end only by their bounds: a page whose provider keeps rendering keeps reconnecting.

`EveryRequestEnds` holds although payments lock their bills in the order of the request
and two of them may wait for each other; `EveryHandlerEnds` although rough outputs and depreciation runs
hold one connection and wait for another. Without the timeouts both are false: that is what their mutants remove.

## 4. What is proved

TLC checks small instances; the theorems hold for every set of machines, lots,
accounts, bills, invoices, assets, places, hooks, requests and connections, and any bounds. Each
proof has an inductive invariant, and nearly all of them have the same heart: **what
a request in flight has read is still so**, for as long as its locks, or the absence of a recorded overlap, make it so.

### `TableLemmas`

Half of the properties are about sums: of balances, of what is due, of what lots hold.
The library's operators for sums (`SumFunction`, `SumFunctionOnSet`) are folds, and an
induction over a set is out of the provers' reach: they cannot instantiate the theorems that state it.
The module argues by the **least counterexample** instead: if a law fails of a finite set, then some set of which
it fails holds no other such set (`LeastSet`, from the well-foundedness of inclusion
among finite sets); it is not empty, and taking one element out of it gives a smaller
one. That yields the recursion of a sum (`SumDef`), that any element may be
taken out of it first (`SumRemove`), and from these all the others: sums add up (`SumPlus`), are monotone, do not
depend on the names of the terms (`SumBijection`), change with one term by that term (`SumChange`), and grow with the rows that are
inserted (`SumNext`, `SumGrow`). `LeastNumber` does the same for numbers.

### `ShopFloorProofs`

* `TypeCorrect`: `TypeOK`; in particular no remainder is ever negative.
* `ReturnsBalance`: `IssueBalance`.
* `CompletionSound`: `CompletedMeansReturned`, assuming `NoRoughOutput`, that
  rough output is not in use. The assumption is needed: output completes the
  process of its biscuit without looking at its issues.

`IInv` has four parts. The types and bounds of the tables, with
the references from row to row (an issue's lot and process exist). What each
request in flight has read and still knows (`SessionOK`): a return's lines and
the remainder it will write still match the issue, because the issue is locked;
if it counted no open sibling, there still is none, because issues are only ever created together with
their process; a complete that found nothing unreturned still finds nothing, for the same reason. One return
per issue at a time, which is what makes the first of these stable. And
`CompletedMeansReturned` itself. `IssueBalance` needs the session part, because
a return computes the remainder in one step and writes it in another.

* `OutputPostedOnce`: `OutputOnce`, and `HeldByOneIssue`: `LotHeldOnce`, both assuming `Holding`: a request names a
  lot once, as the client's picker does, and neither the Growth Run Return nor output by process is in
  use; the second also without issues that name no machine. Section 5 says what goes
  wrong with each of them. The instances of `ShopFloorCustody` and `ShopFloorRaces` satisfy these assumptions.

The two rest on each other, in one invariant on top of `IInv` (`HInv`). A biscuit that was cut stays consumed
because nothing that is consumed is issued, returned or released; that
nothing returns it needs that no open issue holds it, hence `LotsHeld`: an open issue's lot is in process and
the issue's alone. `LotsHeld` alone is not inductive, since the last return of a process releases the
biscuit of it: that this biscuit is in no other open issue follows from the third part, that an issue and the biscuit it
holds name the same process, and from the count of open siblings, which is right by `IInv`.
A biscuit issued by hand keeps its old process, so it is left out of all three.

* `LastReturnCompletes`: `AllReturnedCompletes`, `NoneStranded`: `BiscuitNotStranded`, and `TerminalStands`:
  `TerminalStays`, the three assuming `OneRequest`: one request is in flight at a time, and neither the machine panel nor
  rough output by growth run, which act in one step between the reads and the writes of another request, is in use. Lots
  may be issued at any moment. Section 5 has the races that break each of them otherwise; the instance of `ShopFloorSerial` satisfies the assumption.

The invariant on top of `IInv` (`SInv`) says of every biscuit in process that an open issue holds it or that it is the only one
of a growth process that is still active (`BiscuitsPlaced`), and of the request in flight that what it read is so when it
writes (`UpToDate`): a hold or resume finds its process active, an output by process finds no biscuit of it in process, and a return
that closes the last open issue knows that it does. What a return writes is stated once (`ReturnWrites`) and
serves this invariant and `HInv`.

* `MaterialFlows`: `MaterialFlow`, the refinement of `Custody`, assuming `PickerOnly`: a request names a lot once. All handlers, any number of
  requests. Section 5 has what a request that names a lot twice does.

The invariant on top of `IInv` (`FlowInv`) says that a lot an open issue holds pieces of is not in stock as well (`SeedsOut`), that
what an output by process is about to cut is a biscuit (`CutsBiscuit`), and that the three counters add up to what was
purchased, which bounds what an issue or a return can move. Stock and process are sums over tables that grow: an issue changes one or two terms of
the first and adds as many to the second (`EnteringFlow`), a return changes one of the second and adds at most one to the
first (`ReturnFlow`), and everything else leaves every term as it is (`QuietStepsFlow`).

### `LedgerProofs`

* `UndoneAtMostOnceEach`: `ReversedOnce`.
* `ReversalsMirror`: `ReversalMirrors`.
* `PostedImmutable`: `PostedStays`.
* `BooksBalance`: `AccountingEquation`, the second half of `TrialBalance`.
* `BalancesAreTheLedger`: `TrialBalance`, assuming `DraftsOwned`. With two requests on one draft the
  first half is false (section 5): the stored balances count the draft twice.
* `DueIsWhatIsOpen`: `DueMatches`, assuming `OneRequest`: one
  request is in flight at a time, while entries may be created, edited and deleted at any moment. Section 5 has the races
  that break it otherwise.

The first four need no assumption on drafts: they hold with `DraftsOwned` FALSE as well.
Every handler `Keeps` the table, that is, it only adds rows, never changes a
row's origin, and never changes a posted row's status or lines. A reversal
in flight has computed its mirror image from the locked entry; since the entry is
posted, `Keeps` says the image still matches when it is written (`AddedOK`). At most
one reversal of an entry is in flight (`OneCancel`), so the check for an earlier one is
still true when the new one is written. A row names an earlier one as its origin
(`RowsOK`), so a new entry is born without reversals.

For the balances (`BooksInv`) the lines of every entry and of every entry in flight add up to 0, so what a
posting adds to the accounts of one nature it adds to those of the other. `OwnedInv` adds
that a draft being posted is still the draft that was read (`DraftsHeld`): the posted lines of an account then
grow by exactly what the posting adds to its balance.

For the bills (`SettleInv`) the request in flight is part of the invariant: one that gives allocations back has read what its entry settles and what the bills owe without
it (`RequestSettles`). A balance due counts what is allocated and what is orphaned together (`Counted`): a deletion moves its amount from the one
to the other, and whatever else changes the allocations of a bill sets the orphaned part of it to 0 (`SettledChanges`).

### `SettlementProofs`

Of `Payables`:

* `StoredAgree`: `StoredMatchesSources`, whichever handlers race.
* `NotOverSettled`: `NeverOverSettled`.
* `AccountsAgree`: `ControlAccountsAgree`, assuming `~ManualLines`, that no payment posts its
  surplus to accounts of the user's choice (section 5 has what happens otherwise).
* `Refines`: `OneAccount`. `Payables` implements `VendorAccount`.

`IInv`: the types; the stored columns of every bill agree with its sources; a
request's locks are its own (`HeldOK`: two requests never hold one bill); and `CheckedOK`, that the
amount a payment or an expense checked when it locked a bill is still at most what is due
while it holds the lock. The last is what allows it to check all its bills first and write them afterwards.
`MoneyInv` adds what the money needs: what is due of a bill lies between 0 and its total, an
advance is closed exactly when it is used up, and a payment that will add an advance still
finds a row for it. An application takes no more than the bill has due, because the FIFO loop stops where the older
advances cover the balance: what is taken up to an advance is at most the balance, for each of them.
The refinement then has one step per handler: each Finish changes the sums of
what is due and of what remains by the amounts of the abstract step, and every other action changes neither.

Of `Receivables` (`Sales`, an instance), assuming of the constants what `Receivables` assumes of them:

* `DueIsWhatIsLeft`: `DueIsDerived`.
* `OnlyStaleLooksOverSettle`: `OverSettledByStaleLook`.
* `CustomerOwesReceivables`: `CustomerAgrees`.

The invariant (`SaleInv`) has a part for the books and one for the requests. The books: an invoice's stored
columns are what its sources and `orphaned` say, unless a removal wrote a stale balance into them, and receipts alone never took more than its
total; one that was not made has no sources; and one with more than its total settled
is in `stale`. The requests: what a request means to settle exists for that much (`AskedOK`); what a receipt checked is still due while it
holds the locks (`PassedOK`), as for payments, and what an allocation checked is within what its look found; locks are apart, and so are the rows that removals took (`RemovalsApart`). The last keeps what entries
have settled from becoming negative, so that what the customer owes is at least what a receipt
applies, and `Max0`, the code's `GREATEST(0, ...)`, never cuts: if it did, `CustomerAgrees` would not survive the receipt. An entry that is
posted moves the account and `credited` alike (`PostKeeps`); a draft that is deleted moves what it settled from one term of a sum to the
other (`DeleteKeeps`).

### `AssetsProofs`

* `PostedStand`: `PostedStandsOnPosted`.
* `RunsExplain`: `RunsExplainBooks`.
* `StopsAtSalvage`: `NeverOverDepreciated`.
* `FollowAssets`: `BooksFollowAssets`, an action property.

`IInv`: types; no asset that does not exist is charged; no two cancellations have one run; and unless
a cancellation overlapped a run, a run in flight stands on posted runs only and a run being cancelled
still has no later one above it. The history variable `overlap` turns "did not overlap" into a state formula: when it does
not have `"cancel"`, a run and a cancellation are never in flight together, which is
what the step of each of them needs. `BooksInv` is `RunsExplainBooks` with the ledger's type: posting a run
adds its charges to the assets, to the ledger and to the sum over posted runs, cancelling it takes them
away from the three. `StopsAtSalvage` adds `Within`: the charges of a run in flight still
fit between what is accumulated and the salvage value; that the cost under them stays is
known because an edit looks for charges and, unless a run overlapped it, what it found is still so when it
writes: an asset that no posted run charges has accumulated nothing, by `RunsExplainBooks`.

### `StockProofs`

* `VerdictsTold`: `VerdictTold`.
* `StockIsConserved`: `StockConserved`.
* `MovementsExplain`: `MovementsExplainStock`.
* `LineageHolds`: `LineageSound`.

The last three come from one invariant, `Books`. Conservation alone is not inductive: it needs that a lot is in a process
exactly while it has an open issue, and has only one (`Issued`), since else a split or a transfer could
divide what an issue will return. That transfers under review name lots that are there and ask something of each (`Asked`) makes an approval
find what it names. For each request it is shown that it `Grows` the tables: every lot keeps its
origin, and each row added either starts a genealogy or hangs below a lot that was there, and
holds what its movement row says. What follows from that for the genealogy, the codes, what was bought and the two
sums is shown once, for any number of new rows; the lemma of a request only says what each
lot gains (`Recorded`). What a partial issue takes from a lot is a term of `Away`, a sum over the issues, which no other request changes (`AwayAdded`, `AwayKept`).
`LineageSound` speaks of whole chains of parents, the invariant (`Lineage`) of a lot and its
parent only; parents have smaller numbers, so the least lot for which the two differ is the child of one for which they agree.

### `ReadPathProofs`

* `NobodyForgotten`: `WaitersHaveLeader`.
* `AnnouncedAreSeen`: `SeesAnnouncedWrites`.
* `StalenessIsBounded`: `BoundedStaleness`.

`IInv` has four parts: `Types`; `ListsOK`, every list of waiting requests has its leader and holds
only requests that wait for that URL, whoever responds, times out, closes or answers late: each of them takes the list away before it stops to lead, and
those on it are answered or in `lost`; `PromisesOK`, a computation in the table is one that no invalidation has overtaken; and `AgesOK`, the age of an
entry and what is left of its life never exceed the life it started with, which is
how two caches in a row add up to the bound.

Of `Realtime` (`Page`, an instance), assuming only that `NoSocket` is not a socket:

* `OneSocketForAPage`: `OneLiveSocket`.
* `ServerLearnsRooms`: `ServerFollows`, the half of `RoomsAgree` that is about the server.
* `TwoSidesAgree`: `RoomsAgree`, assuming `OwnRooms`, that no two hooks share a room. Two hooks of the code do (section 5), and
  what goes wrong there is the other half, that a page is in the rooms of its hooks.

The invariant (`PageInv`): one socket alive at most; one that is still connecting is in no room yet; and the messages on the way of an
open one, read from the rooms it is in, add up to the rooms of the page. How messages add up is a fold over
a queue of any length. `KnownRead` gives its value without recursion: of each room, the last message that
names it decides, or else what was so before (`Understood`); the fold is the only function that satisfies its recursion
(`ReadsOnce`, by least counterexample, like the sums), and this is one. From it follow the two
laws that the steps need: a message sent changes what the server will know (`KnownMore`), and a message read does not
(`KnownRest`). A close event that comes late is harmless to the server because the page tells
its new socket at once which rooms it gives up.

### `ConnectionsProofs`

* `Accounted`: at each place of its program a handler holds the connections it should, and the
  transaction on each is its own or one that a refusal left open.
* `TypeCorrect`; `RefusalsAlone`: `OnlyRefusalsLeak`; `Truthful`: `AnswersAreTrue`.

The invariant gives an account of every place of the five programs; a step leads from one account to the next.

### Model-checked only

* **Liveness**: `EveryRequestEnds`, `EveryRequestAnswered`, `EveryHandlerEnds`, `RowIsFreed`, `StaysOnline`.

Every safety property that a run checks is also a theorem, under the assumptions named above.

`TypeOK` of `ShopFloor`, `AccountingEquation` of `Ledger` and `OnlyRefusalsLeak` of `Connections` are proved and no run checks them by these names.

## 5. Where the code departs from what it says

Met while modelling. For each, the instance that shows it, where a module has one: set the constants as
said and the named property fails.

**Shop floor**

* The last two returns of a process commit together, each having counted the
  other's issue as open, and nobody completes it (`lotProcessIssues.js:1135`;
  `AllReturnedCompletes` with two requests).
* The machine panel cancels a growth process and its biscuit stays in process (`manufacturingProcesses.js:890`;
  `BiscuitNotStranded` with `"set_status"`).
* Two rough outputs by process both pass a check that locks nothing
  (`roughGrowth.js:270`; `OutputOnce` with `"output_by_process"` and two requests).
* A biscuit issued without a machine keeps its process, so the last return of that process puts it in stock under
  the open issue; output is posted, the issue returned, and output posted again (`growthRunService.js:277`; `OutputOnce`
  without its first disjunct, in `ShopFloorCustody`).
* A request that names a lot twice issues more than the lot has (`lotProcessIssues.js:527`; `MaterialFlow` with `PickerOnly` FALSE).
* A resume that read the process before it completed makes it running again
  (`manufacturingProcesses.js:659`; `TerminalStays` with two requests).
* Completing a growth process consumes its seeds and leaves their issues open, so a later
  return puts them back in stock (`manufacturingProcesses.js:775`); an issue for growing again that is left open so
  can be returned later and put a consumed biscuit back in stock.
* Two processes may run on one machine, since start checks without a lock and
  issue does not check (`manufacturingProcesses.js:519`); a growth process may hold two
  biscuits when one is issued into it (`lotProcessIssues.js:538`, against `growthRunService.js:268-269`).
* "Total growth = SUM(growth_mm)" (`growthRunService.js:296`) is untrue after measurements
  are edited, after a rough output, or when two completions read one height (`manufacturingProcesses.js:754`).
* The balance gate of a return does not check the sign of `remaining_after` (`lotProcessIssues.js:920`).
* A rough output creates its journal entry on a connection of its own; an error
  afterwards undoes the output and not the entry (`roughGrowth.js:415`).

**Stock**

* Approving a transfer of part of a lot that is in process makes stock: the issue is still
  returned in full. `StockConserved` counts it as `surplus`.
* A rejection overwrites an approval that came in between (`stockTransfer.js:561`; `overtaken`), and a
  transfer id can be submitted again after it was approved; each approval then carries out one submission.
* A transfer that asks for more than the lot has moves the whole lot.
* A partial issue and the return lots write no row of `lot_movements`, so the movement ledger alone does not explain the quantity of a lot that was
  issued in part (`lotProcessIssues.js:519-551`, `:785-798`; `MovementsExplainStock` without `Away`).
* Lot codes are unique within a parent; nothing keeps those of different parents apart (the first
  child of `P-01-ST6` and the part of `P-01` that gets number 61 when it is transferred are both `P-01-ST61`); the second insert then fails on the unique index.

**Ledger and settlement**

* Two posts of one draft add its lines to the balances twice: `postEntry` reads the entry without FOR UPDATE
  (`journalEngine.js:123`), although it means to refuse the second (`journalEngine.js:126`; `BalancesMatchLedger` with
  `DraftsOwned` FALSE and two requests).
* A corrected entry can still be reversed (`journalEntries.js:385`).
* Two allocations to one document do not see each other when the second waits
  for the first: the balance they check is from the snapshot of the statement that waits (`jeAllocations.js:87`, `:103`); a
  receipt that commits meanwhile is missed too (`stale` in `Receivables`).
* "Links a posted journal entry to one or more open bills" (`phase20_bill_allocation_engine.sql:10`): the handler checks only that the entry
  exists (`jeAllocations.js:72-73`), so a draft, or an entry that was reversed or corrected, settles a bill or an invoice all the same. The pages offer posted entries only.
* Deleting a draft deletes its allocations by a cascade, and the bills and invoices it settled keep their balances
  (`journalEntries.js:459`; `orphaned` in `Ledger` and `Receivables`).
* With two requests `DueMatches` fails, by a reversal that overwrites a newer balance due
  (`openDocumentService.js:192`) and by an allocation that waited for a reversal and then inserts (`journalEntries.js:440`).
* What a journal entry may settle of a bill ignores expenses and advances, and
  overwrites what they wrote (`openDocumentService.js:33`).
* A payment's surplus may be posted to accounts of the user's choice (`ManualLines` TRUE); if one of them is a
  control account, `ControlAccountsAgree` fails (`payments.js:255`). A payment that names one bill twice checks each part alone (`payments.js:191`).
* An expense without a vendor that names bills settles them without a lock or a check (`expenses.js:152`); the page clears them with the
  vendor (`ExpensesPage.jsx:373`, `:612`). An application by hand that names one advance twice checks each entry against what the advance
  had before both, and nothing keeps `remaining_amount` from falling below 0 (`vendorAdvanceService.js:173-187`). Neither is in `Payables`.
* The single-invoice form of a receipt settles without a lock and without an allocation
  row, and takes its amount off the outstanding of all (`receipts.js:281-300`).
* `customer_advances` is written and never read; allocating entries to invoices does not touch `customers.outstanding`, nor does an
  entry or a manual line of a receipt that credits the receivables account (`receipts.js:203-211`), so the two drift apart by what
  these credit (`credited`; `outstanding = receivable` fails in `Receivables`).
* After a failed update of the flag columns the handler carries on, but PostgreSQL has aborted the transaction
  (`journalEntries.js:414`).
* Editing a bank deposit replaces the lines of its posted entry without touching balances
  (`bankDeposits.js:280`), and reversing one sets a status the type does not have, so it never succeeds (`bankDeposits.js:352`).

**Fixed assets**

* Two runs that overlap depreciate an asset twice, past its salvage value, and nothing refuses a second run of the same
  period (`overlap`), against the comment at `depreciationRuns.js:244-245`.
* Cancelling a run after the disposal of one of its assets takes the charge back from
  an account the disposal has already cleared (`CancelsDisposed`).
* The reversal of a run is posted to the asset's cost centre of today, against `docs/cost-centre-feature.md:70-71`.
* Accumulated depreciation entered with an asset is never posted.

**Read path**

* A computation that overlaps an invalidation stores what it read before it (`cache.js:105`), and a second computation is
  started: "compute exactly once" (`cache.js:60`) is untrue after an invalidation.
* Equal events within two seconds are dropped with their invalidation (`eventDispatcher.js:144`).
* Errors are replayed, as status 200, for the two seconds a recent answer is kept.
* The close of a leader that has been answered takes away the list of the next leader of that URL, whose
  waiters are told 503 (`requestDedup.js:42`); a flush forgets the waiters of a list (`app.js:310`). The model has both.

* A leader that answers after its 408 takes the list of the next leader of its URL and deletes it, and then `res.json` throws because the
  headers are sent: the waiters on that list are never answered, and no timeout is armed for them, as `requestTimeout` is mounted after the deduplication
  (`timeout.js:13`, `app.js:63`, `:90`, `requestDedup.js:34-39`; `lost` in `ReadPath`).

**Connections**

* Four early returns release a connection inside an open transaction
  (`depreciationRuns.js:253`, `:255`, `:267`; `jeAllocations.js:207`). `Connections` shows what follows: the next user of the connection works in that
  transaction, or the row stays locked until the connection is ended.

**Real-time updates**

* "Clear everything on logout" (`SocketContext.jsx:124`): the socket a logout closes has its close event still to come,
  whose closure has the old token (`:95`) and sets a timer; the page opens a socket with that token a
  second later. The timer of `connect` (`:40`) is not cleared either. (`token = 0 => ~IsLive` fails in `Realtime`.)
* The close event of an earlier socket that comes after the next one has opened shows the page as
  disconnected, and its hooks leave their rooms; nothing sets `isConnected` again before the next connection (`:92`).
  It also clears the interval that pings the new socket (`:93`). If the network then loses that connection silently, the page does not learn of it until it sends
  something, and stays offline (`Noticed` in `StaysOnline`).
* `useManufacturingSync` and `useProcessMasterSync` share a room (`useModuleSync.js:50`, `:59`), and the
  one that leaves unsubscribes the other (`RoomsAgree` with one `Room` for two hooks).
* `refreshUser` is a new function in every rendering of `AuthProvider`, so each of them closes the socket and
  opens another (`AuthContext.jsx:161`, `SocketContext.jsx:109`); events in between are lost, and nothing asks for them later.
* The idle timer is 30 minutes; its comment and message say 15 (`AuthContext.jsx:83`, `:90`).

## 6. What is not modelled

* **Growth cycles, bank deposits and reconciliation**: the cycle history is
  written beside the actions of `ShopFloor` and never decides one; a deposit is an
  entry of `Ledger` with a document, of which only creating and editing ever succeed, and editing does in one step what
  `PostedStays` forbids; reconciliation keeps a copy of what the user matched.
* **Bills that both journal entries and payments settle**: the code computes their
  balance in two ways that contradict each other, so there is no property of the whole to check.
* **Jobs and presence**: Bull's queues, with a fallback that runs a job at once; presence is the list of open sockets, broadcast every 15 seconds. Redis, which the cache
  and the sockets use when `REDIS_URL` is set, is external. What an event makes a page reload is left out of `Realtime`.
* **Authentication, roles and permissions**: checks within one request.
* **Master data, cost centres, reports, dashboard, search**: single rows written by one statement, and queries.
* **The client**, apart from its socket: it keeps no state of the system; what its pages can send is what the models take as inputs.
* Of the modelled components: logs, measurements, costs, descriptive fields, and the routes
  that only read. `PROJECT.json` says for each component what is left out.
