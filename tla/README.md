# backbone-pos: a TLA+ verification project

backbone-pos is the point-of-sale module of a retail backend: a Rust library over
PostgreSQL that runs cash-register shifts, rings and tenders tickets, replays tickets a
client sold offline, recognises paid tickets through billing, payment and inventory, and
closes the shift against the counted drawer.  Paths below are relative to the repository.

## 1. The system

The hand-written core is `PosWriteService` (`src/application/service/pos_*.rs`) over
the repositories in `src/infrastructure/persistence/`.  The service itself is stateless, one
throttle ring apart: all shared state is rows, and every write verb is one transaction on a
connection of its own.  Around it stands a generated layer, written from the schema files:
an entity, DTOs, a generic CRUD service with rules, a repository, migrations and a seeder for
each of eleven tables.  It has no logic of its own either, but the same fact (which columns there
are, which may be empty, which a request may set) is written down in a dozen places of it, by
hand-adjusted generators that may drift apart; and it writes the same rows as the verbs.

| Component | State | Operations | What makes it correct |
|---|---|---|---|
| Shift (`pos_write_service.rs`, `pos_drawer.rs`) | `pos_opening_entries`, `pos_closing_entries`, `pos_cash_movements` | `open_session`, `record_cash_movement`, `x_report`, `close_session` | one open shift per register; nothing lands on a closed shift; no draft is left in one; the closing entry is the drawer at the instant of the close |
| Ticket (`pos_sale.rs`, `pos_tender.rs`) | `pos_invoices`, items, `pos_payments` | `ring_sale`, `ring_sale_priced`, `add_tender` | the header agrees with its tenders; change is cash; one draft per table; the recognition trigger is staged exactly when a ticket becomes paid up |
| Offline replay (`pos_sync.rs`) | the same rows, by `client_uuid` | `sync_from_ui`: create, update, refund | one ticket per client uuid; a ticket stays in its shift; a refund has one parent |
| Recognition (`pos_recognition.rs`) | ticket status and the ids of invoice, settlement and delivery note | `recognize_sale`, `return_sale` | each leg booked once and in order; the ticket never shows more than the books hold; each event at most once; stock leaves once; a sale is not stuck |
| Ports (`pos_ports.rs`) | owned by billing, payment, inventory, tax, accounting | `raise_and_post`, `settle`, `issue`, `credit_note`, `refund`, `compute_document`, `book_cash_variance` | external; may refuse, may book and not answer |
| Manager PIN (`pos_manager_pin.rs`) | `pos_manager_pins`, an in-memory throttle ring | `set_pin`, `verify_pin` | parallel guesses never exceed the attempts allowed; one live credential per manager |
| Money (`pos_compute.rs`, `pos_discount.rs`, `pos_cart_pricing.rs`) | none | `compute_ticket`, `fold_order_discount`, `round_to` | lines add up to the header; no line is priced below zero |
| Generic surface (`domain/entity`, `presentation`, `application/validator`, `migrations`) | the row of any table, through one of its columns | create, read, PUT, PATCH, the in-process builder; three mounts | the rules of a service cover the CHECKs, NOT NULLs and triggers of its table, which is left to refuse only keys, references and numbers too wide; an edit stores what it says and nothing else; a status moves only as a verb moves it |
| Seeders (`src/seeders`, `src/bin/pos-seeder.rs`) | which tables are seeded | a run over all seeders or some, `--force` | a row finds its parents, whatever runs came before |
| Receipt (`pos_receipt.rs`) | none | `receipt`: three reads | the receipt of a finalized ticket is the ticket |
| Trigger outbox (`pos_tender.rs`, `pos_events.rs`) | an outbox row when a schema is configured | stage, relay, publish | a paid-up ticket is eventually recognised |
| Stale-session alert (`pos_session_alert.rs`) | `stale_alerted_at` | `alert_old_sessions` | at most one alert per shift |
| Request pool (`request_pool.rs`) | connections | every verb | requests that hold one connection and take another do not starve each other |

How they interact.  Verbs share rows, and PostgreSQL's row locks are the only thing that
keeps them apart: a tender locks its ticket `FOR UPDATE` and then its shift `FOR SHARE`; a
ring, a replay and a cash movement take the shift `FOR SHARE`; a close takes it `FOR UPDATE`
and then reads tickets without a lock; the return ticket's foreign key takes
`FOR KEY SHARE` on the shift.  Recognition holds no row lock: a transaction-scoped advisory
lock on the ticket spans calls to billing and payment, and every statement of it commits by
itself.  A tender or a replay that pays a ticket up stages `PosTenderCompleted`, whose delivery
(at least once) calls recognition.

Hard behaviours: interleavings of verbs on one ticket and one shift; reads without a lock that
are used statements later (recognition, the drawer sums, `has_open_session`); a saga over three
services that do not deduplicate, under refusals, lost answers, crashes and a lost lock; repeated
and concurrent deliveries; replays of a ticket whose recognition is under way.  `PROJECT.json`
lists each with its line and the property that watches it.

## 2. Modules

| Module | Models |
|---|---|
| `PosCounter` | The verbs on one till's rows at the grain of SQL statements: open, ring, tender, replay (create and update), cash movement, the row side of recognise and return, close |
| `PosCounterInv` | The inductive invariant of `PosCounter`, in named layers |
| `PosCounterProofs`, `PosCounterSafetyProofs`, `PosCounterRowsProofs` | TLAPS: type correctness of `PosCounter`; what its locks guarantee; what its committed rows keep |
| `PosMoney` | Rounding, order discount, line nets, tax redistribution, header: the arithmetic of a ticket |
| `PosSync` | Offline replays of sales and refunds by client uuid, with the money and the tender rows they write, overlapping with the till, the outbox relay and crashes; `EXTENDS PosMoney` |
| `RetailSale` | What the retail seam promises of one sale: the books move one way, each leg once |
| `PosRecognition` | `recognize_sale` and `return_sale` on one ticket, statement by statement and port call by port call; implements `RetailSale` |
| `PosClose` | The close of one session from lock to flip: count, variance booking, closing entry, and the retry of a close that died |
| `PosManagerPin` | `set_pin` and the verification of a PIN: throttle, row lock, lockout, upsert |
| `PosTables` | The generated layer as data: per entity, the columns of each of its parts |
| `PosRows` | The generic surface over one row, beside the verbs that write it; `EXTENDS PosTables` |
| `PosSeeds` | `pos-seeder` over the eleven seed files; `EXTENDS PosTables` |
| `PosAlert` | `alert_old_sessions` run by several hosts |
| `PosReceipt` | The three reads of `receipt` beside the verbs that write the ticket |
| `PosRecognitionProofs` | TLAPS: type correctness of `PosRecognition`, what its books keep, and that it implements `RetailSale` |
| `PosSyncProofs` | TLAPS: what the rows, the receipts and the answers of `PosSync` keep |
| `PosManagerPinProofs` | TLAPS: the invariants and the safety properties of `PosManagerPin` |
| `PosMoneyProofs` | TLAPS: the sums, roundings and headers of `PosMoney` |
| `PosBackOfficeProofs` | TLAPS: the same for what happens away from the till: `PosClose`, `PosRows`, `PosSeeds`, `PosAlert`, `PosReceipt`, and the five of them side by side |
| `MCPosCounter`, `MCPosSync`, `MCPosRecognition`, `MCPosClose`, `MCPosManagerPin`, `MCPosBackOffice` | Instances for TLC: symmetry, the replays a client sends, and the composition of `PosClose`, `PosRows`, `PosSeeds`, `PosAlert` and `PosReceipt` in one run |

### PosCounter

A worker is a request being served.  `session`, `ticket`, `tenders`, `movements`, `closing` and
`triggers` hold *committed* rows; what a transaction has read or written and not committed is in
the worker's `req`.  `ticketLock`, `sessShare`, `sessExcl` and `advisory` are the locks.  `pc`
names the next statement; each verb is a `...Begin`/`...Lock` action that takes its first lock,
the statements another request can come between, and a commit.  Statements that nothing can
separate observably (the reads under a lock already held, the insert of lines and tenders, the
header update) are one action with the commit.  `Refuse` is the refusal an index or a guard gives
at the last statement, `Abort` any other end of a request: a lost connection, a wrong PIN, a port
that declines.  A request that would be refused before it holds or changes anything is not begun.

Abstractions: a basket is its rounded total; a ticket's tenders are summed per method; what a
drawer statement sums is kept as the rows it read, which tells apart more than the sum does;
`record_cash_movement` adds or takes an amount.  The one-open-shift slot index and the
one-draft-per-table index are those of the migrations.  Ids are never reused.

### PosRecognition

One ticket, several deliveries and return requests.  `ticket` is the row, `invoice`, `settlement`
and `notes` the documents of the three services, `guard` the advisory lock.  Every statement and
every port call is an action.  A port may refuse (nothing booked) or book and have its answer
lost; the settle adapter of the seam tests is two writes without compensation, which is the
second case.  No port deduplicates a forward call, as the code's comments and ADR-001 say;
reversing twice changes nothing.  `Faults` selects what may go wrong: `decline`, `lost`, `crash`,
`guard` (the idle connection holding the advisory lock dies and the request goes on), `replay`
(an offline replay rewrites the draft).  Checks that refuse before anything is booked (missing
accounts) are left out, and so is everything about lines but the amount they add up to.

`RetailSale` is the promise: invoice, settle, show paid, refund, credit, show returned, each once
and in that order.  `BooksOf` maps the documents to it, and sends any second invoice or settlement
to a value no step of `RetailSale` reaches.

### PosClose

One session.  `drawer` is what its rows say it holds, `Trade` stands for every verb that holds the
session shared and changes it, `ledger` is the accounts behind `PosCashVariancePort`, which is
obliged to keep the first journal of a session.  A close locks, counts (drawing a closing id for
this attempt), books when the difference is not zero, and writes entry and flip in one
transaction; it may be refused, lose the ledger's answer, or die.  `PosCounter` justifies the one
amount: `CloseRecordsTheDrawer` shows that the four sums of `compute_drawer` are one consistent
drawer.

### PosManagerPin

Several requests verify or set PINs of several managers.  `cred` holds the credential rows, `lock`
the row lock on a manager's live one, `ring` the throttle of the one process (the only state the
service keeps in memory), and the clock moves at any time.  A verification reads and locks, and
then records its outcome and commits; the two are separate actions, so a request can be overtaken
between its lockout check and its record.  `set_pin` verifies its proof in a transaction that ends
before the write.  `Composed` says whether the composing service has installed the unique on live
credentials that the tenancy migration dropped here; the run has it.  A PIN is an opaque value;
strength and hashing are left out.

### PosMoney and PosSync

Amounts are integers in mills (a tenth of a cent), so that a sub-cent tender and a rounding to
the register's unit are exact.  `PosMoney` has the operators `compute_ticket` is made of, with
rounding half away from zero as `money` does it.  The tax engine behind its port may answer with
nets that differ from the lines' by a redistributed cent; `Computed` is the set of answers.

A request of `PosSync` carries a whole ticket: uuid, customer, basket, discount and tenders, or
the uuid of the sale it refunds.  Each half of the verb writes in one transaction under the
ticket's row lock and is one action (`Create`, `Update`); the identity read (`Lookup`), the
reads of a refund, the reversal at the owners of the books, the flip with its return ticket, and
the publishing of the event after the commit are actions of their own.  `AddTender` is the till
beside the replays; `Relay` the outbox, delivering at least once; `Consume` the in-process
subscriber; `Crash` takes what is in memory.  The uniques are those of the migrations: the
receipt number, minted from the uuid, always; `client_uuid` only where a composing service
declared it (`UuidUnique`, off in the runs: two first replays of one uuid must then meet at the
receipt number).  Sessions, tables and row locks of the same verb are `PosCounter`'s.

### PosTables, PosRows and PosSeeds

`PosTables` is read off the generated code: for each of eleven entities, the columns of its struct,
builder, patch, request bodies, response, table, rules, CHECKs and foreign keys, each from the
file that holds it, and the unique indexes of all the tables.  Nothing in it is derived from anything else in it, which is the point: the
properties of `PosRows` compare these lists.

A behaviour of `PosRows` looks at one column of one entity (`focus`) and at one mount; all
columns of all entities and the three mounts are initial states.  Clerks create, read, replace
and patch; a generic service reads the row, changes it, checks its rules and stores the whole row
later (`Start`, `Store`), and the module's verbs write in between (`VerbInsert`, `VerbWrite`,
`VerbMove`).  The framework underneath (`backbone-core`, `backbone-orm`) is not in this
repository; it is taken at its weakest: a read and a whole-row store, with no lock between them.
So a generic edit may put back a value a verb has overwritten since, in columns other than the
status, which the trigger of the table guards.  A PATCH of an unknown key or an ill-typed value is
ignored in silence by `apply_patch` and does not appear here.  A value is one of a few classes:
good, empty, beyond its bound, null, filled by a default, written by a verb; and three that only
the table knows, for which no rule of a service has a word (`Unruled`): a key another row holds
(`taken`: a receipt number, a table with a draft, a register with an open session, a session with a
closing entry), a reference to no row (`stray`) and a number of more digits than its `NUMERIC` has
(`wide`).  A POST of a used receipt number, or into a session there is not, passes the service and
is refused by the table; so is the ring or the opening that meets an index, which is what
`PosCounter` relies on.  The values are seen as they stand when the row is stored: for one that
was good when it was sent and is refused later, the request fails (`GiveUp`).  The unique indexes
are those the migrations leave in place; the ones on `client_uuid` and on the manager of a PIN were
dropped (`20260912100000_strip_tenancy.up.sql`) and belong to the composing service.  What no
PostgreSQL value can hold (a NUL in a text, a date out of range) is left out.

`PosSeeds` runs the seeders in the order the code sorts them in, filtered or not, forced or not,
failing at the first error, dying between two files.  The seed files of the repository are
templates with comments only; a deployment's are assumed to refer only to rows of the files, on a
database nothing else wrote to.  (`seed_order.yml` lists another order, which would not satisfy
the foreign keys; the seeders do not read it.)

### PosAlert and PosReceipt

In `PosAlert` each host claims with `FOR UPDATE SKIP LOCKED`, latches, commits and publishes one
alert after another; sessions age, close and are locked by tills meanwhile.  The latch is a key of
the row's metadata that the entity's own type does not know, so that a generic edit stores the
metadata without it: `Edit` starts a new epoch, and what is promised is one alert per epoch.  A
host that dies after its commit has lost its alerts; nothing repeats them.

In `PosReceipt` the header, the lines and the tenders are read by three statements; rings, replays,
tenders, recognition and returns commit between them.  Amounts are whole cents.

## 3. Runs

| Run | Shows | Bounds |
|---|---|---|
| `counter` | No draft in a closed shift, the closing entry is the drawer at the close, a closed shift is frozen but for returns, one open shift per register, one draft per table, tickets stay in their shift, and every fact a request relies on between two statements still holds | two requests of any verb, two registers, two shifts, two tickets, a table |
| `live` | Header, change and trigger agree with the tenders; no deadlock or starvation between requests that hold and want locks | two requests, one ticket, two shifts, free and priced totals, under-, exact and overpayment, cash and card |
| `paid` (violation) | A replay during recognition leaves a paid ticket that is not fully tendered | |
| `sync` | One ticket per uuid, headers that tell their rows, one return per sale, answers that stay true, finalized tickets frozen; a paid-up ticket has its event staged and is recognised | two requests, three sale replays of two uuids and a refund, tenders of a cent, a unit of five cents, discounts, tax, sub-cent tenders |
| `sync_halves` (violation) | Sub-cent tenders replayed, then a tender at the till: a paid-up draft whose event was never staged | |
| `recognition` | With refusals, retries, racing deliveries and replays the saga implements `RetailSale`, stock leaves once, and a sale that stays fully tendered is recognised and relieved, or returned | two requests, two of each document, two amounts |
| `recognition_faults` | Under all faults the ticket never shows more than the books hold, and each event is published at most once | the same, one note |
| `double_settle` (violation) | A crash between settle and the flip settles twice | |
| `receivable` (violation) | Decline, replay, retry: settlement and invoice of different amounts | |
| `back_office` | Close: one journal per session, no difference left unbooked, the entry is the drawer, a journal that names it books its difference.  Rows: tables refuse what was let pass only for a key, a reference or a width, edits say what they do, states move forward.  Seeds: parents are found.  Alert: once per epoch.  Receipt: exact once the ticket is finalized | see below |
| `close_crash` (violation) | A retried close leaves a journal that names no closing entry | |
| `manager_pin` | Parallel guesses and PIN changes: every wrong guess counts, a lockout is not lifted from behind, one credential per manager | two requests, two managers, two PINs, two attempts allowed |

The five violations are disagreements between the code and what its documents and comments say;
`PROJECT.json` quotes the lines.  The split of the passing runs by faults says how far each
guarantee reaches: a lost answer, a crash or a lost lock may book a leg twice, and
still never makes the ticket show what the books do not hold.

Bounds.  Two requests reach every pair of verbs, and every conflict of locks in the code
is between two.  Two shifts are the old and the new one a rescue moves between; two tickets contend
for a table and let a close meet the draft of another.  `Totals` and `Amounts` are chosen so that
under-, exact and overpayment and a total of zero occur.  `MaxPaid`, `MaxMoved`,
`MaxTriggers`, `MaxTenders`, `MaxRows` and `MaxEdits` cap what would grow forever and only disable
further requests.  In `PosRecognition` two invoices, settlements and notes suffice to show a second
one; when ids run out a port can only refuse.  In `sync`, the baskets are the smallest that take a
discount with a remainder, a line priced from a cart, a tax and a rounding up to the unit, and the
tenders (three times 0.334) the smallest whose rows and sum round apart; two tickets hold the sale
and its return, or two sales.

`back_office` composes five modules that share no state: a behaviour chooses a desk and follows
it, so that its states are the sum of theirs.  The close has two requests, three closing ids and a
ledger that refuses, loses answers and dies; the rows have two clerks over every column of every
entity; the seeds every choice of files that holds the parents of its rows (two
entities without parents or children always seeded), the alert two hosts, three sessions and a batch of
two, so that a batch leaves a session over; the receipt two baskets, two coins, two tender rows.

Deadlock is not checked for `PosCounter`, `PosSync`, `PosManagerPin` and `MCPosBackOffice`, where
the system may rest: ids and budgets run out, shifts close.  `live` covers requests that wait for
one another.  `PosRecognition` is checked for deadlock.

Fairness.  `PosCounter!FairSpec`: a request under way goes on whenever it is infinitely often
able to (strong fairness of its steps).  PostgreSQL grants locks to waiters in
order, so a waiter is not passed over forever; nothing makes a client send a request.
Connections stay up in this run (`NextUnbroken`), since an abort would end every wait for the
wrong reason.  `PosSync!FairSpec`: the relay keeps draining the outbox (weak fairness of each
staged ticket's delivery); no request, no in-process subscriber and no restart is owed a step.
`PosRecognition!FairSpec`: a served request goes on (weak fairness), the trigger is
delivered again (strong fairness; the outbox delivers at least once and a failed recognition is
an error to its relay), and a port asked again and again eventually accepts (strong fairness of
the accepting calls only; nothing is assumed of return requests, nor of who is served).

## 4. Proofs

TLAPS proves, for every value of the constants.

Of `PosCounter`, for every number of requests, registers, shifts, tickets and tables:

- `TypeCorrect`: `Spec => []TypeOK`.  `TypeOK` alone is not inductive: a statement indexes
  the rows by the ids in `req`.  `Typed` adds `RequestsNameRows`, that a request past its first
  statement names the rows it works on.
- `DraftsOnlyInOpenSessions`: `Spec => []NoDraftInClosedSession`.  A close reads drafts once, and
  without locking a ticket; that no draft appears before it commits needs the locks of every
  other request.  `ReadsInvariant` proves the layers of `PosCounterInv` it rests on: locks a
  request counts on are its own and exclude each other (`LocksAreHeld`), ids about to be inserted
  are unused (`IdsAreFresh`), and what was read under a lock still holds (`ReadsStillHold`).
- `TicketsStayInTheirSession`: `Spec => TicketKeepsItsSession`, an action property.  The rescue
  arms of a replay would move a draft out of a closed shift; since the shift of a
  draft is always open they are never taken for a live draft.
- `OneOpenSession` and `OneDraft`: one open shift per register, one draft per table, whatever
  races for them.  An insert or a rewrite tests the index against the committed rows; nothing else
  opens a shift or seats a draft.
- `ClosedStaysClosed`: the action property `ClosedSessionIsFrozen`.
- `EntryIsDrawerAtClose`: the closing entry of `CloseRecordsTheDrawer`, row for row.
- `HeadersAgree` and `TriggeredAtCrossings`: paid amount and change are those of the tender rows
  and the change is cash; the trigger is staged at every crossing and nowhere else.
- `RequestsMayRely`: all layers of `PosCounterInv` at once.

The argument is organised by writers rather than by actions: `StepKinds` and `EndingFinishes`
sort the steps, `LocksStep` shows the locks right after each, `SessionWrites` and `TicketWrites`
say which request may change a shift or a ticket and what it then holds, and `OthersReads` shows
that nobody else invalidates what a request has read.  Two more invariants stand on it.
`CountsInv` holds the sums a close has read so far: while it counts, the paid tickets, tenders and
movements of its shift rest (`DrawerRests`).  A recognition needs a draft there, and the close has
found none; a return needs the foreign key's share of the shift, and everything else its lock,
and the close holds both off.  `MoneyInv` holds the
header of every ticket to its tenders and the sums a tender or a replay has read to the rows
(`OwnSums`): whoever sums holds the ticket's lock, so nobody else writes its money
(`OthersMoney`), and `MoneyStep` shows each of the few writes of money fits.  The assumptions are those of
`PosCounter`: `None` is no id, totals are natural numbers, amounts positive.

Of `PosRecognition`, for every number of requests, amounts and deliveries:

- Under every fault: `TypeCorrect`; `BooksAreNamed` (`TicketNamesItsBooks`) and `ToldOnce`
  (`ToldAtMostOnce`).  The first rests on `Carried`, that what a request or a ticket names is in the
  books, and on `Grows`, that the books lose nothing; the second on there being one flip: the request
  that publishes is the one that found a draft.
- While no answer, no process and no lock is lost (`NothingLost`: only declined calls and replays):
  `StockRelievedOnce` and `ImplementsSale`, that recognition and return implement `RetailSale`
  step by step.  The hypothesis cannot go: the run `double_settle` shows a request that dies
  between `settle` and the flip settling twice.  `SaleInv` adds to `BooksInv` what each place of a
  request says of the books while it holds the advisory lock (`Serves`), that every document in
  the books is the one the ticket or the one request at work names (`Accounted`), and that a credit
  follows a refund (`ReversedInOrder`).  `StepsAreSteps` maps each action to the step of
  `RetailSale` it takes, or to a stutter.

Of `PosSync`, for every number of requests and tickets, and all replays, baskets and tenders:
`RungOnce` (`OneTicketPerUuid`), `UndoneOnce` (`ReturnedOnce`), `FinalizedStays`
(`FinalizedIsFrozen`) and `AnswersStayTrue` (`AnswersHold`).  Each write is one of four (`Moves`):
a sale inserted, a draft altered, a paid sale undone with the return ticket beside it, or none.
`Receipts` ties the rows together: the receipt number is minted from the uuid of a sale, or from
the id a return undoes, and is unique, which is all that keeps two first replays apart where no
unique on `client_uuid` is declared.  `Knows` says what a request has read and may still use, `Tells`
what an answer says; both stay true because ids never change and no ticket becomes a draft again
(`Persists`).  `AnswersStayTrue` needs that a client gives every ticket a uuid of its own
(`UuidsNameTickets`): an answer to a sale names the ticket it found under the uuid, and a refund
sent under a sale's uuid would find the sale.

The money of `PosSync` is a layer on top, for any baskets, discounts, rates and tenders whose
amounts are numbers and a rounding unit of whole cents (`MoneyAssumption`; a unit is stored with
two decimals).  `RowsAreGood` says of every row what one compute and its tenders explain:
`HeadersTellRows` (`HeaderTellsItsRows`) and `TypeCorrect` (`TypeOK`) follow.  `PaidUpTold`
(`PaidUpIsTold`, with an outbox) needs in addition that a draft's stored paid amount is never
behind what its rows add up to (`Covers`): otherwise a tender could pay a ticket up that the verb
does not see crossing.  Its hypothesis `RowsGainNothing` is that rounding a replay's tenders one by
one gains nothing on rounding their sum.  In whole cents it always holds (`WholeCentsSumUp`), and
the replays of the run `sync` satisfy it, the tenders of 0.334 included; the run
`sync_halves` has replays that do not, and there the property fails.

Of `PosMoney`, for any amounts: a sum does not depend on the order a fold takes its elements in
(`AddsAgree`), adds what is appended (`SumOfMore`) and stays in whole cents (`SumOfCents`); a
rounding is at most half a step away (`NearestIs`).  `SpreadKeepsTheHeader`: however the tax engine
spreads its cents over the lines, the header is the same.  `CartNetIsKept`: a line rung from what
the cart pricer answers costs what it said.  `DiscountsPriceNothingBelowZero`: a discount the fold
accepts, which compares exact amounts, prices no line below zero after rounding, so that the
refusal of a negative net never follows it.  A fold is recursive, and the library's induction cannot be
used; the proofs take the least subset, or the least length, on which the claim would fail
(`LeastSubset`, `CountingUp`).

Of `PosClose`, for every number of close requests, counts, trades and faults: all four of its
properties in the run `back_office` (`BookedOnce`, `NothingLeftUnbooked`, `EntryMatchesDrawer`,
`JournalMatchesEntry`).  None of them is inductive: they rest on `CloseInv`, which says what a
request under way knows.  It is the only one and holds the session (`LockIsHeld`); its
difference is still the one between its count and the drawer (`CountStands`); a difference it is
about to write is in the ledger (`Pending`); and a journal that names its closing id is its own
(`Traced`).  The ledger is assumed to keep the first journal of a session, the obligation the port
states.

Of `PosManagerPin`, for every number of requests, managers, PINs and every policy:
`GuessingIsSlow`, `LockIsRespected`, and, if the composing service's unique is installed,
`OneCredential`.  `PinInv` holds the two facts they rest on: a request that has passed the lockout
check still holds the lock of that credential, whose lockout still ends before the instant it
remembers (`Recording`), and the counter and the lock of a credential are those of the wrong
guesses compared (`HistoryAgrees`).  `Writers` says who may write a credential, `StepEnters` how a
request gets to its record, and `LockKeepsWritersAway` that no step does both to one credential.

`TypeCorrect` proves the shapes of `PosManagerPin` on the way.

Of `PosAlert`, for every number of sessions and hosts and every batch limit: `AlertsOnce`.  That
nothing was published twice says nothing about what hosts still hold.  `AlertInv` adds that two
hosts never hold one alert (`HeldOnce`); that what a host claimed and has not latched is unlatched
and of the session's present epoch, that what it has latched is latched still or of a past epoch,
and that neither was published (`Fresh`); and that what was published is latched still or of a past
epoch as well (`Latched`).
The claim gets its alerts alone because of the locks of the others (`Locked`) before their commit,
and because of the latch after it.

Of `PosReceipt`, for every set of baskets and tenders: `PaidReceiptIsExact`.  Its invariant says
that the header always agrees with the rows (`HeaderFits`), and that a slip that starts with the header of a finalized ticket holds, of the parts it has read,
what the ticket holds (`Kept`): what is read after the header cannot have changed, since nothing that is not
a draft changes but by a status or a link.  Reading the header last would break it.

Of `PosRows`, for every column of the eleven entities, every mount and any number of clerks:
`RulesAgreeWithTables`, `EditsAreKept` and the action property `StatesMoveForward`.  The first says
that the tables refuse what was let pass, and what the verbs insert, only for a key another row
holds, a reference to no row or a number too wide; it does not say that they refuse nothing.  What the
generated layers must agree on is five facts about the lists of an entity: the rules ask for what
the table asks for (`RulesFit`), what an edit carries is assigned and shown or protected
(`EditsFit`), the moves of a state are the verbs' (`MovesFit`), an insert names what has no default
(`InsertsFit`), and enumerations are closed (`ValuesFit`).  They are proved entity by entity from
`PosTables`; the rest holds of any entity that fits.  A regenerated entity that drifts breaks one
of these lemmas, and the lemma says where.  `RowsInv` says that a job that was let pass is one the
table takes, but for what no rule looks at, and does what it says, and `CellMoves` how any write moves the column.

Of `PosSeeds`: `ParentsAreFound`.  `SeedsInv` adds that in a run over all seeders what has a file and is not
to do any more is in its table; `ParentsGoFirst` that the seeder of a parent has the smaller
number, read off the foreign keys of the tables.

`DesksKeepTheirShape` is the type correctness of the five side by side, as the run `back_office`
composes them.

Model-checked only: `SaleCompletes`, `PaidUpIsRecognised` and `EveryRequestAnswered`.
Liveness under fairness is beyond the prover and stays with TLC.

## 5. Not modelled, and the plan

Every invariant and action property of a passing run is a theorem.  What is left to do:

- A refinement for the ticket of `PosCounter`: that its header, tenders and trigger are those of an
  abstract ticket whose tenders are added one at a time.

Seen while modelling, and in no run:

- `pos_sync.rs:20-22` says the lineage of a refund cannot change; a refund replayed under its uuid
  with another parent is not refused, since nothing records which parent it was first sent with.
- Two racing refunds of one sale both answer `created`: the action is told by a status read before
  the lock.  One return ticket is written all the same (`ReturnedOnce`).
- The return ticket stores an adjustment of zero next to the sale's grand and rounded totals.
- A receipt number is made of twelve hex digits of the client uuid; the models take different uuids
  to have different receipt numbers.
- A ticket whose total rounds to zero never crosses and is never recognised by its trigger.
- `pos_session_alert.rs:40-42` says a rerun alerts nothing twice; that holds between two generic
  edits of the session.
- The receipt of a draft may be torn: header of one state, rows of another.  So may an X-report.
- The profile's status has moves in the table's trigger and no verb that takes them.

Left out for good: tenancy, which the composing service installs in front of every statement; HTTP
decoding, permissions and the mapping of errors to status codes (no state); the layout of a slip;
the overflow of `NUMERIC(p, s)` columns; PIN strength and hashing; soft delete, restore, bulk and
upsert of the generic service, which live in the framework; the exported types, which no code
builds; the event store (`infrastructure/event_store`), which is outside the build: no module
declares it and its `event_envelope` is missing; and the order of connections in the request pool
(`request_pool.rs`), whose size and acquire timeout are the composing service's.
