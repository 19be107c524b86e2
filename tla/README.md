# Car-Stock: models, checks and proofs

A TLA+ development of the showroom system in `src/`: what its API promises about cars, sales and
money when several people use it at once, what TLC checks of it on small instances and what TLAPS
proves for all sizes.

All line numbers are of this commit. `sales.service.ts:1078` and the like are files under
`src/apps/api/src/modules/<area>/`.

## 1. The system

One PostgreSQL database, one Bun/Elysia API process over Prisma, a React client, and an updater
container. The API serves any number of requests at once; a request is a TypeScript `async` function
that is suspended at every `await`. There is no application-level lock: what protects a row is the
transaction (`db.$transaction`, READ COMMITTED unless it says otherwise), the conditional
`updateMany`, and the unique indexes.

Almost every handler has the same shape: read rows with `db.*`, check them, compute what to write,
then write in a transaction that does **not** check again. Between the two anything may happen. That
is the hard behaviour of this system, and the reason for the models.

| Component | State | Operations | Correct when | Where modelled |
|---|---|---|---|---|
| Sales and cars (`sales`, `stock`) | `sales.status`, `sales.stock_id` (unique), `stock.status`, `deletedAt`, `soldDate` | createSale, updateSale, updateSaleStatus, deleteSale, assignStock, createStock, updateStockStatus, deleteStock, convertToSale, deleteVehicle (purges soft-deleted cars) | a car is on one sale at most; a car is held exactly while a sale links it, in the status its sale calls for; a sale moves only forward; a delivered sale has the car it delivered | `SaleStock` |
| Balance and receipts (`payments`, money fields of `sales`) | totalAmount, fees, depositAmount, paidAmount, remainingAmount, the payment rows | createPayment, updatePayment, voidPayment, createSale, convertToSale, updateSale, deleteSale | paidAmount is the sum of the receipts in force, remainingAmount follows from it, nobody overpays | `PaymentLedger` |
| Number sequences (`number_sequences`) | one counter per prefix, year, month | `generate*Number`, `generateCustomerCode`, contract numbers | numbers are unique and a counter never goes back | `NumberSequence` |
| Quotations | status, version chain, the sale made from it | create, update, status, convertToSale, createNewVersion, delete | one sale per quotation at the quoted price, status follows its graph | `Quotation` |
| Interest periods | rows of `interest_periods`, `interestRate`, `stopInterestCalc`, the implicit stretch of a car without rows | materialise, change rate, stop, resume, initialise, delete a row, recalculate; the list and the detail page read | at most one row is open, none while stopped; stopping loses no interest; opening a page changes none | `StockInterest` |
| Stock debt | debt, paid, remaining of a car, its payment rows | initializeDebt, recordDebtPayment | the payment rows chain to the debt: paid + remaining = debt | `StockInterest` |
| Campaigns, formulas | status, window and models of a campaign, formulas per model, tag and frozen subsidy of a sale | create, duplicate, update, delete, add and remove a model, retroactive tagging, auto-tag | no covered sale is left untagged, no tagged sale drops out of the report, the subsidy is that of the tag | `CampaignTags` |
| Vehicle catalogue | models | create, update, deleteVehicle | no live car or sale loses its model | `CampaignTags`, `SaleStock` (deleteVehicle) |
| Docker updater (`src/apps/updater`) | checkout, images, containers, database, dumps, lock file, status file | update, self-update, rollback, nightly dump | one pipeline at a time; a rollback restores the code, and the schema while it has its dump; success means one version everywhere; every run ends | `Updater` |
| Portable updater (`src/portable/windows/updater`), backup scheduler | `app\`, `releases\`, dumps, lock, status | update, rollback, backup | one script at a time; a failed update leaves a release running on its schema; the status settles | `PortableUpdater` |
| Finance engine | none (pure) | price and instalment formulas over floating point | equals worked examples | not modelled |
| Customers, users, settings, bank accounts | one row per operation | create, update, delete | no shared state between rows | not modelled |
| Permissions, auth | session tokens | login, role checks | they only refuse requests: every behaviour left is one the models already have | not modelled |
| Reports, analytics, PDF, web client | none of their own | reading and rendering | - | not modelled |

How they meet: a sale, its car, its receipts and its campaign tag are rows that different services
write. `convertToSale` of a quotation writes all of the first three. `deleteSale` releases the car and
unlinks the receipts. Deleting a vehicle model purges its soft-deleted cars and unlinks their sales. The interest of a car ends at the
`soldDate` that the sales service stamps. The two updaters stand outside: shell and PowerShell
scripts that stop and replace the API itself, started over HTTP or by hand, where commands fail
half-way and machines restart.

## 2. Modules

| Module | What it is |
|---|---|
| `UnitLedger` | abstract specification of the showroom: each car is held by at most one sale; it is taken, swapped, handed over, given back |
| `SaleStock` | the sale and stock tables and the handlers that write them |
| `SaleStockProofs` | type correctness, unique links, the invariant behind the agreement of the two tables, and that `SaleStock` implements `UnitLedger` |
| `PaymentLedger`, `PaymentLedgerProofs` | the balance of one sale and the receipts against it |
| `NumberSequence`, `NumberSequenceProofs` | the counter behind one kind of document number and its three generators |
| `Quotation`, `QuotationProofs` | quotations from draft to sale |
| `StockInterest`, `StockInterestProofs` | the interest rows and the debt of one car |
| `CampaignTags`, `CampaignTagsProofs` | campaigns, their models and formulas, and the tags of sales |
| `Updater`, `UpdaterProofs` | the scripts of the updater container |
| `PortableUpdater`, `PortableUpdaterProofs` | the PowerShell updater of the portable Windows build |
| `MC...` | for each of them, the bounds and the symmetry for TLC |

The modules of the API share no variables, because their components share only a few columns;
where they meet, each models the handler as far as its own state goes (`convertToSale` is in
four of them).

### SaleStock and the code

`saleStatus`, `saleStock` are `Sale.status` and `Sale.stockId`; `stockStatus` is `Stock.status`;
`deleted` holds the cars with `deletedAt` set; `soldBy[k]` is the sale whose hand-over stamped
`soldDate` and `actualSalePrice` on car `k`. `inflight[w]` is what request `w` has read: it stands for
the local variables of the handler between its first `await` and its transaction.

Every handler is `Begin<Handler>` (reads and checks) and `Commit<Handler>` (transaction). What the
commit writes comes from the snapshot in `inflight`, as in the code; the checks it repeats are those
the code repeats: the conditional claims (`Sellable` in `CommitCreateSale`, `CommitReassign`), the
unique index (`LinkAllowed`), the existence of the updated row. `FailRequest` is every way out
without writing. The handler's several reads are one step, and so is the transaction: its statements
are blind writes on rows it keeps locked and claims PostgreSQL re-evaluates on the locked row, so two
transactions on the same rows behave as if run one after the other. `updateSale` is two pairs, by
whether the payload's car differs from the one read (`updateSaleStock`) or repeats it
(`updateSaleResend`; the form sends every field on every save).

`SameRowOverlap` is the one switch. TRUE is the code as it is: any two requests overlap. FALSE leaves
out requests that address the *same sale* while one is in flight, and a manual AVAILABLE/DEMO
change of a car that another request has named; requests on different sales still race for the same
cars. It is an assumption about the users, not about the code.

`DeleteVehicle` removes any soft-deleted cars (status `PURGED`) and the links of their sales. Which
model a car or a sale has is left out, because it does not constrain this: a conversion links a car of
any model, and `updateStock` (`stock.service.ts:516`) changes the model of a held car. So a sale may lose
even the car it has delivered, and `DeliveredOwnsItsUnit` says that it is lost in no other way. In
`UnitLedger` the purged cars are `gone`, by `StrikeOff`.

Left out: notes shared by sale and car, finance lines, history and activity rows, the rest of
`updateStock` (it cannot write a status). The campaign tag and the vehicle model of a sale, with what
`deleteVehicle` refuses because of them, are in `CampaignTags`.

### PaymentLedger and the code

One sale: receipts of different sales share no row except the receipt counter. `total`, `fees`,
`deposit`, `paid`, `remaining` are the columns of the sale (`fees` is the sum `buyerFees` makes of
three), `pay` the payment rows with their `sale_id`. Amounts are whole satang; the types of a receipt
are those in `CAR_PAYMENT_TYPES` and the rest.

`createPayment` runs Serializable on one sale row, so what commits is one step on the current row;
its friendly pre-check is the `Begin`. `updatePayment` and `voidPayment` check the receipt first, then
their READ COMMITTED transaction updates the payment row (and locks it), reads the sale
(`ReadBalance`), and writes an absolute paidAmount and remainingAmount (`Commit...`): three steps, and
a receipt issued between the last two is lost from the balance. `updateSale` computes the balance
before its UPDATE: two steps. A correction always carries amount and type, the payload of the form; a
payload with only one of them leaves the other column alone. `SaleOverlap` FALSE allows only new
receipts to overlap each other.

Left out: the status of the sale (no payment handler looks at it), withholding tax, bank fields,
receipt numbers (`NumberSequence`).

### NumberSequence and the code

One counter: the rows of `number_sequences` with one prefix, year and month; `kind` says of which
document, and so which generators draw from it (`generatorsOf`). There should be one row,
but the unique key is (prefix, year, month), and with a NULL month PostgreSQL does not enforce it
(`MonthIsNull`). `step`, `found` and `number` are the local variables of a request that draws a number
and then inserts its document, whose number column is unique (`filed`).

The code has three generators. `Upsert` (quotations, payments, contracts, stock) is one
`INSERT ... ON CONFLICT DO UPDATE`, one step. `Find`, `SerialCommit` (sales) is a Serializable
transaction: it commits only if the row or the gap it read is as it was. `Find`, `RereadCreate`,
`RereadWrite` (customers, and the deposit receipt of convertToSale) are statements of their own with
no transaction. The deposit receipt shares its counter with the receipts of payments.
`RereadOverlap` FALSE leaves out requests that draw while a reread is under way; TRUE is the code.

Left out: the text of the number, the rows the seed script inserts on an empty database.

### Quotation and the code

`status`, `quoted`, `discount`, `final`, `saleId` are the columns; `madeFrom[s]` is the quotation whose
conversion made sale `s`, `salePrice[s]` its totalAmount. Handlers are `Begin` and `Commit` pairs as in
`SaleStock`; a create checks nothing another request could change and is one step. `writes` says which
of quotedPrice and discountAmount a form carries: the other one enters finalPrice as it was read.
updateQuotation reads the row twice before it writes, for the status and for the prices; the model
reads it once. The controller does not accept CONVERTED as a status, so ACCEPTED to CONVERTED is
only convertToSale. `QuoteOverlap` is the switch, as above.

Left out: version numbers (nothing acts on them), vehicle, colours, notes, `validUntil`. No code
expires a quotation by date; EXPIRED is set by hand.

### StockInterest and the code

One car: no handler touches the interest of two. `start`, `sold`, `rate`, `calc`, `debt` are columns of
`Stock` (`calc` is `stopInterestCalc` with `interestStoppedAt`); `periods` and `payments` are the rows
of the two tables. Handlers are `Begin` and `Commit` pairs whose request carries a `Snapshot` of the
car and its rows; deleting one row and delivering the car are one step. `CommitMaterialize` looks
again, as `materializeImplicitHistoryPeriod` does under its row lock; `initializeInterestPeriod` is two
commits, since the code writes in two statements without a transaction. `BeginPayDebt` splits the
payment as the code does for AUTO, INTEREST_ONLY and PRINCIPAL_ONLY. `NextDay` moves `today`. `BeginInitialize`
asks what the code asks, that there is no row; `BeginInitializeDebt` accepts a debt of 0 and starts one
of 0 again.

Four readers compute the interest of the car, each in its own way: `Displayed` the list
(`resolveStockInterestDisplay`), `Detailed` the detail page, `Counted` the statistics, `Summarised` the
debt summary. They differ where the code does: the list counts the days between start and end
whichever comes first, the detail page shows nothing when the start is later; the detail page and the
statistics run an open row until today even of a sold or stopped car; the statistics count a paid-off
car only while it has rows; the debt summary takes the remaining debt for a car without rows and the
row's principal for one with them. So nothing is claimed of two readers against each other, only of
each of them before and after a step.

`Days` is the distance of two dates, as in `daysBetween` (`Math.abs`). Money is whole, interest is
principal times rate times days; the constant `Cost` is the cost that the principal base selects,
`Starts` the days that an order or arrival date may be, one ahead of today among them, `Financed` whether the car
has a finance provider. `Overlap` FALSE lets the requests on the car follow each other.

Left out: the profit report, `financePaymentDate` (nothing reads it), the purge of the rows with their
car, and the bulk endpoints, which call the same handlers car by car. The requests that a car's form
sends twice (a second stop of a stopped car) are allowed, and nothing is claimed of them.

### CampaignTags and the code

`campaign` has status, window and models (`campaign_vehicle_models`), `priced` the models that have
formulas, `sale` the columns that decide a tag: `car`, `model`, `tag` (`campaignId`), `subsidy` (of
which campaign the frozen snapshot is). `car` is a car's model and whether it is soft-deleted.
`Effective(s)` is the model a sale is counted under: that of its car, or its own. The report
(`Reported`) silently leaves out a sale whose model its campaign no longer has.

`createSale`, `updateSale`, the `update` and `delete` of a campaign, and `deleteVehicle` read and then
commit. After an activation or a new model, `tagRetroactiveSales` reads its candidates
(`BeginTagging`) and writes them one by one, by id (`TagSale`). `Overlap` FALSE leaves out requests
that touch the same rows: two on one sale, two on one campaign, one on a sale with one on a campaign,
and anything beside `deleteVehicle`; edits of different campaigns still overlap, in the proofs with
any number of workers.

Left out: the arithmetic of formulas, reordering, the amounts of the report, and a change of
`createdAt` by `updateSale`. A campaign that has ENDED treats tags as a DRAFT does, so the runs use the
latter. `updateStock` and `deleteStock` are refused for SOLD cars; the model allows them for any.

### Updater and the code

`head`, `image`, `running`, `db` are the checkout, the images, the containers and the schema, each known
by the commit it is of (`EmptyDb` and `NoDb` are what a rollback's DROP and CREATE leave); `backups`
what the `.dump` files hold; `lock` whose pid `/tmp/update.lock` holds; `run[r]` where a script stands (`pc`), how it was
started, its shell variables (`SELF_UPDATED`, `IMAGES_BUILT`, `DB_CHANGED`, `ROLLBACK_COMMIT`,
`BACKUP_FILE`). Each command that changes something is a step that may fail: `update.sh` is `CheckLock`
to `Healthy`, its `rollback()` the `Undo...` steps, `rollback.sh` the `Rollback...` steps. `CheckScripts`
copies changed scripts and re-executes; the re-executed script comes back to `CheckLock` with the
first one as its parent. `RestartUpdater` ends all runs and leaves the files and a stale lock, any
number of times.

A backup that succeeds rotates (`Rotated`), and `Moved` is where a file that a run names is then, or
`Gone`. One that fails stops there (`set -eo pipefail`) and leaves its files unrotated: a part of a dump
(`Torn`), or a whole one if the SQL dump failed (`LeftBehind`). A rollback looks whether its dump is
there (`Present`), skips the restore if not (`nodump`) and reports completion all the same; a dump that goes
later, or is torn, makes `pg_restore` fail. `ScheduledBackup` is crond's, `make backup` and POST /backup
in one; a dump is written in one step. The commit and the file of a manual rollback are chosen when
`rollback.sh` reads them.

`Overlap` FALSE keeps a second request out of the instant between the test of the lock and its
writing; `Entries` says how runs are started, `MaxDumps` how many files failing
backups pile up. Left out: logs, the retries of the health check, and a new process that gets the pid
in a stale lock.

### PortableUpdater and the code

`app` is the tree in `app\`, `releases` those in `releases\<version>`; a tree may be `Gone` or `Torn`
(half-copied or half-removed), a schema `Torn` (half-migrated). `run[r]` is where `update.ps1` stands:
`ReadVersion` reads `$current` before the lock is tested (`TestLock`) and written (`WriteLock`); Prepare
to Finalize are the steps of `Invoke-Update`; `Undo...` is `Restore-AppTree`, entered by the inner
recovery of the migration and the health check, and by `Recover`, the outer catch, to which everything
else falls, what follows the health check included. `Request` is the API: it writes `running` before
it launches the script. `Crash` is a power failure: it ends all runs, may tear what is being written
or removed, and leaves the lock, which expires two hours later (`LockExpires`). `EndUntold` is a script
that ends and leaves the status: a throw before the lock, or a last status that cannot be written;
`MaxCuts` bounds the two together. The dump that `-RestoreBackup` names may be any file.

A failed update can end in three ways, and `FailedUpdateRestores` names them. The release that was found
runs on its schema. Or `releases\<current>` held something from before - half a folder that a failing
removal tore, or another release that a stale version number put there - and the recovery
(`update.ps1:455`) copies that over the intact `app\`. Or the new release had passed its health check,
what came after it failed, and the outer catch finds it healthy and leaves it running. It speaks of
updates that found one release running and whose reading of the version was still right under the
lock: a script started during another's last steps reads a version that is replaced before it gets the
lock (185, 198), and recovers what nobody found.

`Named` says that a rollback is given a version that is there; `Overlap` as in `Updater`. Left out:
downloads, logs, staging, `releases\<v>-failed-<time>` (nothing reads them), and runs of more than two
hours, whose lock another one may steal.

## 3. Runs

Passing runs:

| Run | Question | Bounds | Distinct states |
|---|---|---|---|
| `orderly_sales` | with requests on one sale in order, do the two tables agree, do claims book only cars on the floor, does a delivered sale keep its car, and do the tables implement `UnitLedger`? | 2 sales, 2 cars, 2 requests in flight, symmetric | 309,141 |
| `orderly_ledger` | receipts issued at once, everything else in order: is the balance right? | 2 receipts, amounts {1, 2}, totals {2, 3}, deposits {0, 1, 3}, 2 requests | 288,822 |
| `numbers_in_turn` | numbers of every kind, nothing overlapping a reread: is each drawn once, from one row? | 3 requests, 2 row ids, `MaxNumber` 4, the four kinds of counter | 8,774 |
| `orderly_quotations` | requests on one quotation in order: one sale, the quoted price, a link to the right sale? | 2 quotations, 2 sales, 2 requests, prices {2, 3}, discounts {0, 1} | 4,036 |
| `orderly_interest` | a second running period only from `initialize`, a debt that adds up, a stop that loses nothing, a detail page that changes nothing by being opened? | 1 car, 2 days, 3 rows, 2 payments, dates today and yesterday, start on day 0 or 1 or missing, rate 1, cost 4, amount 2, debts of 0 and 2 | 570,746 |
| `campaigns_in_order` | does activation tag all it covers, does an edit keep the report and the formulas, is the subsidy that of the tag? | 2 campaigns, 2 models, 1 car, 1 sale, 1 worker, one window, DRAFT and ACTIVE | 634,033 |
| `docker_updates` | one pipeline, a rollback that restores, success that is whole, runs that end, with every command failing and the container restarted? | 2 runs, 2 commits of which the second changes the scripts, `MAX_BACKUPS` 1, 2 dumps, any number of restarts, every way in that takes the lock | 163,334 |
| `portable_updates` | one script, a failed update that ends in one of three ways, a status that settles, with every command failing and a power failure? | 2 runs, 2 releases, 1 power failure or untold end | 441,597 |

Why the bounds are enough. Two sales and two cars are the least for a swap, a double booking and a
re-sold car, and two requests the least for a race; the properties speak of pairs of sales and single
cars. With two receipts, totals of 2 and 3 and amounts of 1 and 2, both receipts can fit, one can
exhaust the balance, and the pair can exceed it; a deposit of 3 exceeds the smaller price. A counter
needs a third request for one number to be drawn beneath two others; two row ids are what two inserts
into a gap can make. A quotation needs two sales to be sold twice, and two prices for an edit to be
seen. Three rows hold a materialised stretch, the one that follows it and its successor; two payments
are a partial one and the one that pays off; yesterday's date makes a stretch empty or reversed, a start on
day 1 is ahead of today, a debt of 0 is started again, and a debt of 2 is paid by one payment while one of the cost 4 takes two. Two campaigns can compete for a sale, and two models differ on the sale's and the car's side;
an update of the one campaign beside another is left to the proof. Two runs are the least for two
pipelines, two versions for a rollback to have somewhere to go; one dump that is kept is the least that
a nightly backup can rotate away under an update, and a second file is what a failed backup leaves.

What no passing run covers is what its switch leaves out. The switches are assumptions about the
users, not about the code, and the next table and paragraph say what happens without them.

Runs that disagree with the text of the code (each checks one statement the repository makes):

| Run | The statement | What happens |
|---|---|---|
| `double_void` | "paidAmount is the single source of truth ..." (`sales.service.ts:770`) | two voids of one receipt subtract it twice (`payments.service.ts:514`) |
| `campaign_model_removed` | "Guard against orphaning already-tagged sales by removing the vehicle model they were attached under" (`campaigns.service.ts:382`) | `removeVehicleModel` (644) deletes the row without the guard, and a tagged sale leaves the report |
| `updater_self_update` | "If any step fails, automatic rollback is triggered" (`docs/auto-updater-setup.md:151`), "Allow if lock holder is our parent" (`update.sh:142`) | a re-executed `update.sh` finds the lock held by its grandparent and exits, new code checked out, nothing built, status still running |
| `portable_unnamed_rollback` | "Turn a launch failure into a status the UI can show, instead of a phantom 'running'" (`system.service.ts:336`) | the page names no version, `Invoke-Rollback` throws (`update.ps1:134`) before it writes a status |

More statements fail in the same way, without a run of their own; each shows when the named switch of
the named configuration is turned:

* `SaleStockOrderly.cfg`, `SameRowOverlap = TRUE`: "Cannot change status of cancelled or completed sale"
  (`sales.service.ts:1029`, written by id at 1078; `LifecycleFollowed`); "Re-sending the same stockId is a
  no-op for inventory" (`:719`, 941; `ResendIsNoOp`); "RESERVED / PREPARING / SOLD are driven by the sales
  module" (`stock.service.ts:548`, 578; `HeldUnitsAreLinked`).
* `NumbersInTurn.cfg`, `RereadOverlap = TRUE`: "Receipt numbers are sequential and never reused"
  (`Requirement.md:1339`; `convertToSale` writes back the counter it read, `quotations.service.ts:37`).
* `QuotationOrderly.cfg`, `QuoteOverlap = TRUE`: "Quotation - Reservation 1:1" (`Requirement.md:1308`; two
  conversions that both read ACCEPTED, `quotations.service.ts:671`), and the accepted price
  (`Requirement.md:1326`; `SoldAtQuotedPrice`).
* `LedgerOrderly.cfg`, `SaleOverlap = TRUE`: a voided receipt is edited (`payments.service.ts:391`),
  and `PaidFollowsReceipts` fails. And, with no switch, "Invariant: remainingAmount = totalAmount + totalFees -
  paidAmount" (`sales.service.ts:768`) is not what `createSale` writes when a deposit was agreed that
  nobody has paid (510); `BalanceExplained` allows for that.
* `StockInterest`, with no switch: `initialize` opens a row on a stopped car without clearing
  `stopInterestCalc` (`interest.service.ts:865`), which the web page offers exactly then
  (`interestActions.ts:34`); it is the exception that `OnlyInitializeRunsTwo` names, and a resume after it
  makes a second open row. `InterestOrderly.cfg`, `Overlap = TRUE` with two workers: `DebtBooks`,
  `OnlyInitializeRunsTwo`, `StoppingKeepsInterest` and `ReadingIsNeutral` fail. A debt of 0 may be
  started again after payments of interest towards it (1136); `DebtBooks` allows for that.
  Not stated as properties: interest paid is never taken off the interest due (comment at
  `interest.service.ts:1519`, accrual at 1234), a rate change on the day a period starts gives a row
  that ends before it starts and counts one day (`2026-06-16-interest-custom-stop-resume-date-design.md:24`
  wants start <= end <= today), a partial payment on a car without rows drops what it had accrued, a
  rate change after one returns the principal to the full cost, and what the readers above show of one
  car differs.
* `CampaignsOrderly.cfg`, `Overlap = TRUE` with two workers: "Sales already tagged to another campaign
  are left alone" (`campaigns.service.ts:495`, tagged by id at 538). And "the no-overlap rule ...
  guarantees at most one match" (`sales.service.ts:473`) contradicts "no overlap guard"
  (`campaigns.service.ts:373`); the model takes the latest of several.
* `UpdaterOneAtATime.cfg`, `Overlap = TRUE`: two update requests both pass the test of the lock;
  `OnePipeline`. With `make rollback`, which knows no lock, `OnePipeline` fails as well. Not stated as
  properties: "fail hard if restore fails" (`update.sh:91`) against a rollback that logs and reports
  completion, and a manual rollback that takes the latest dump of any kind (`rollback.sh:78`), which may
  be torn, or the nightly one of a database between CREATE and restore.
* `PortableUpdater`, with no switch: a leftover `releases\<current>` that a failing removal tears replaces
  the intact `app\` in the recovery (`update.ps1:455`, `docs/portable-windows-contract.md:304`); an update
  that fails after its health check says `failed` with the new release running (419-446). Both are among the
  outcomes `FailedUpdateRestores` allows. `PortableOneAtATime.cfg`, `Overlap = TRUE`: `OnePipeline`. Not
  stated as properties: a second run that finds the lock busy overwrites `running` with `error`, and a
  `pg_restore` that fails twice leaves the site down.

### Fairness and deadlock

Only the updaters have liveness properties: the API promises nothing about when a request ends. Their
`FairSpec` is weak fairness of `ScriptStep(r)` for each run: a script that is running gets on, which
the operating system provides, and each of its commands returns, with success or with an error; the
scripts bound their waiting with timeouts and retries. Nothing is assumed of requests, failures,
restarts, the nightly dump or the expiry of the lock. `EveryRunEnds`: no run waits for a lock, and no
recovery goes round in circles. `StatusSettles`: while the power stays on, `running` is followed by
the outcome; a power failure leaves `running` behind, as the code does. Where a specification stops,
it is because every id has been used (`CHECK_DEADLOCK FALSE`).

## 4. Proofs

All theorems are for any number of rows, requests, amounts, versions and runs.

`SaleStockProofs`

* `TypeCorrect`, `LinksUnique`, `SoldCarsAreStamped`: with any overlap. The unique index carries the
  second, the stamping rule of DELIVERED and COMPLETED the third.
* `OrderlyTablesAgree`, `OrderlyStatusesAgree`, `DeliveredKeepsItsUnit` (ASSUME
  SameRowOverlap = FALSE): the agreement of the tables is not inductive, because a commit writes what
  was read. The strengthening `OrderlyInv` adds that a request's snapshot of its sale is still the row
  (`SnapshotsFresh`), which in turn needs that no two requests in flight collide (`NoCollision`) and
  that requests are shaped as their handler makes them (`RequestsShaped`). A delivered sale without its
  car has had it purged.
* `ClaimsBookTheFloor`: any overlap, every handler in use; the exceptions the property names are the
  conversion of a quotation and a save that repeats the car it read, which link without a claim.
* `ImplementsUnitLedger` (SameRowOverlap = FALSE): each step of `SaleStock` is a step of `UnitLedger` or a
  stutter under `heldBy`, `handedOver`; it uses `OrderlyInv`, since a stale commit would move a car
  behind the abstract ledger's back.

`PaymentLedgerProofs`

* `LedgerTypeCorrect`: any overlap.
* `PaymentsKeepTheBalance` (no updateSale, any overlap): paidAmount and remainingAmount are written
  together from one read of the sale, so they match even where an update is lost.
* `OrderlyBalance`, `PaidTracksReceipts` (ASSUME SaleOverlap = FALSE): from
  `OrderlyLedger`, which says the snapshot of the one request that is not a createPayment is fresh.
* `PaidIsTheReceipts` (SaleOverlap = FALSE): paidAmount is the sum of the receipts. A step changes one
  receipt (`PaidTracksReceipts`), and by `SumChanges` the sum moves by the difference; a deleted sale
  stays deleted (`DeletedStays`), and at the start there are no receipts (`SumOfNone`). `ReceiptsFinite` assumes that
  finitely many receipts are ever issued, without which there is no sum.

`NumberSequenceProofs`

* `NumbersAreDrawnOnce`, `OneCounterRow`, `CounterOnlyGrows`, `SequenceTypeCorrect` (under `Orderly`:
  RereadOverlap = FALSE, or a kind of document no reread numbers): the invariant adds that a number
  drawn or on a document is not above the counter, and that a reread under way still sees the counter
  as it is. For sale numbers `Orderly` holds as the code is.

`QuotationProofs`

* `QuotationTyped`, `LinksPointBack`: any overlap.
* `OrderlyQuotationsSellOnce` (ASSUME QuoteOverlap = FALSE): the invariant `OrderlyQuotations` adds that what a request read of its
  quotation is still so (`AllFresh`) and that no two requests are on one quotation (`NoCollision`). A
  quotation that is not CONVERTED then has no sale, so an ACCEPTED one may be sold, and its prices are
  those accepted.

`StockInterestProofs`

* `InterestTyped`: any overlap.
* `OnlyInitializeBreaks` (ASSUME Overlap = FALSE): a handler closes the one row it saw open, so the
  property needs that the rows are still those it saw. `Turns` adds that one request is in flight at
  most (`Single`), that its snapshot is the rows (`Current`), and what each handler has checked of it
  (`Asked`). From there each step keeps `OneOpenPeriod`, but for the first period of a stopped car.
* `DebtIsItsPayments` (Overlap = FALSE): `Books` adds to `DebtBooks` that a debt that has not started owes
  nothing and has no payments (`DebtStarted`), and that the split a request in flight has computed
  adds up to what was left when it read (`BookFits`). A debt of 0 takes payments of interest alone, so
  starting it again contradicts none of them. It uses `CostIsPositive`, which the schemas of
  `createStock` and `updateStock` enforce: a payment starts the debt at the cost of the car.
* `ReadingChangesNothing` (Overlap = FALSE, and `NoFuture`: no request is dated after the day it is made):
  the row that the detail page writes is the period that the list, the statistics and the debt summary
  had implied. `Past` adds that a calculation was stopped on a day that has been, and that what the
  page has found still holds when it writes. With dates ahead it is false, as TLC shows: a debt paid off
  as of tomorrow stops the interest tomorrow; its rows are deleted, and what the page computes of it
  today it writes after midnight. The exceptions are the code's: the statistics leave a paid-off car out
  until it has rows, and take a sold car's open row to today.

`CampaignTagsProofs`

* `CampaignsTypeCorrect`, `EditsKeepFormulas`: any overlap. The first holds the foreign keys together
  through `deleteVehicle` and `delete`; the second holds however stale the set of models that
  `diffModelSet` starts from, because a row that is there is never created again.
* `SubsidiesFollowTags`, `ActivationsTagAll`, `UpdatesKeepReports` (ASSUME Overlap = FALSE, any number of
  workers): `Orderly` adds that requests in flight touch different rows (`Apart`), and that what each
  has read or checked still holds although others go on (`AllFit`): the orphans it looked for are still
  none, the candidates that are left are among those it has to tag, the subsidy it computed is of the
  tag the sale will have.

`UpdaterProofs`

* `UpdaterTyped`: any overlap, any way of starting a run. That a run names no file beyond those there
  are, through every rotation, is the part that is not a type.
* `OnePipelineAtATime`, `RollbacksRestore`, `SuccessesAreWhole` (ASSUME Overlap = FALSE, and no `make
  rollback`): `Orderly` adds who holds the lock at
  each step of a script, through re-execution and stale locks (`Locks`), what the steps before have made of
  checkout, images and schema (`Shape`), and, for an update that found one version and whose rollback
  has met no failure, that what it has still to restore is what it has changed, and that its commit is
  the one it found and its dump too, wherever rotation has moved it, or gone (`WayBack`).

`PortableUpdaterProofs` (ASSUME Overlap = FALSE)

* `PortableTyped`, `OnePipelineAtATime`, `FailedUpdatesRestore`: `Portable` says who has the lock (`Keys`),
  that what runs is a whole tree (`Whole`), and, of an update that was sound and has met no failure of its
  recovery, where the tree that was found is at every step (`Shape`), and that its schema is in the
  database or in the dump (`WayBack`).

The sums are folds over a function (`SumFunction`) or functions over the indices of a list
(`InterestOf`). Induction theorems that take the property as an operator cannot be used here, so
what is needed of a sum is proved once by its smallest counterexample: a smallest set of rows for which the fold is
not unfolded one row at a time (`SmallestSet`, `SumUnfolds`), and the least index at which the two lists
differ (`Least`, `AddsUpAgree`). From there `SumTake`, `SumSame` and `SumChanges` are about any finite set.

Only model-checked are liveness (`EveryRunEnds`, `StatusSettles`), which is out of the prover's reach;
`LifecycleFollowed`, `ResendIsNoOp` and `StoppingKeepsInterest`, whose proofs would assume away the overlap that
endangers them and then repeat the handlers case by case; and what the models say where requests overlap, beyond the theorems above
that allow it. `OneSalePerQuotation` is a part of what `OrderlyQuotationsSellOnce` proves. `SoldIsStamped`,
`CounterNeverGoesBack` and `FinalPriceIsNet` are proved and have no run.

## 5. Not modelled

* The finance engine: pure floating-point arithmetic, for which TLC has no numbers; its unit tests
  compare worked examples. The same holds for the arithmetic of campaign formulas.
* Customers, users, settings, bank accounts: one row per operation, kept apart by unique columns and
  foreign keys (a customer with sales is not deleted, whatever its count said); the customer code is in
  `NumberSequence`. Company settings are found or created: two first saves may leave two rows.
* Authentication and permissions only refuse requests: the models let any request happen.
* Reports, analytics, PDF and the web client read and render. They are most of the lines of the
  repository, and the reason why the models cover a small share of it; what the web client sends is an
  input of the models.
* Timers: the pruning of backups by age and the cached update check in `system.service.ts`.
* The version number of quotations (`quotations.service.ts:747`): two requests can make the same one,
  but nothing acts on it.

## 6. Plan

Every component with state that several actors write is modelled and has proofs. What would add most
next: `CampaignTags` joined with `SaleStock` for the claim of a car and the tag of its
sale in one transaction; an abstract single-installer specification that both updaters implement.
