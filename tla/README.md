# A TLA+ model of ondc-transit-bpp

ondc-transit-bpp is a provider (BPP) on the ONDC network for public transport.
It sells three kinds of thing over Beckn messages: single-journey tickets and
passes of two city operators (BMTC, BMRCL; the TRV11 half), and reserved seats
on KSRTC intercity coaches (the reserved half). Paths below are relative to the
repository; `store.ts` alone is `src/reserved/store.ts`, `order.ts` is
`src/reserved/order.ts`, and so on.

## 1. The system

### The reserved half

| part | state | operations |
|---|---|---|
| `store.ts` | tables `seat_locks` (HELD, BOOKED, EXPIRED, RELEASED), `bookings` with the order as a document, `booking_seats`, `refund_quotes`; `lastManifestSweepAt` of the process | `sweepExpiredHolds`, `acquireHold`, `confirmBooking`, `applyCancellation`, `updateStoredOrder`, `saveRefundQuote`, `sweepManifests`, and reads |
| `order.ts` | `confirmations`, the confirms in flight in this process | `search`, `select`, `init`, `confirm`, `status`, `cancel` (quote and commitment), the manifest pushes |
| `seatstate.ts` | none | who sits where and which seats are for women only |
| `refund.ts` | none | slabs, refund and retained share in paise |
| `db.ts` | the current connection, `inTransaction`, `transactionQueue` | `withTransaction`, statements, reconnect after a dropped stream, migrations |
| `fleetManifest.ts` | none here; the simulator keeps the last manifest of a departure | PUT and DELETE with a timeout |
| `handler.ts` | none | validates, answers synchronously under a deadline or by a callback |
| `calendar.ts`, `fares.ts`, `concession.ts`, `money.ts`, `manifest.ts`, `occupancy.ts`, `rand.ts`, `catalog.ts`, `domain.ts` | none | pure functions: dates in IST, prices, the passenger manifest, the simulated occupancy, message layout |
| `http.ts` | the last catalogue fetched and the instant it was asked for | `services`, `service`, `seatMap`, `fareTable`, each from the cache, a fetch or the fixtures |
| `fixture.ts`, `integrity.ts` | read-only data | joining the fixture files, the checks of a catalogue |

A rider's journey is search, select (a hold with a published end), init,
confirm (payment is already made), status, cancel. Every request is a chain of
awaits. `select` reads an instant, takes a snapshot (which sweeps), then
acquires a hold with the instant it read before. `init` and `confirm` sweep,
read the newest hold of the transaction, compare it with the manifest, read the
claims for the gender lock, render the order (another sweep), and `confirm`
then moves the hold's rows to BOOKED and inserts the booking, and starts a push
to the fleet simulator that nobody awaits. Several processes may serve one
database. Inside a process transactions queue behind each other; reads outside
a transaction do not, and use the same connection.

### The TRV11 half

| part | state | operations |
|---|---|---|
| `src/orders/store.ts` | in memory: catalogues by transaction, orders by id, pass credentials | `cacheCatalogue`, `selectedOffers`, `save`, `get`, `findByTransaction`, `savePassCredentials`, `findPassCredentials` |
| `src/orders/service.ts` | `confirmations` | `select`, `init`, `confirm`, `status` |
| `src/trv11/settlement.ts`, `totp.ts`, `pass.ts` | none | whether a pass settles a ride, codes, validity windows |
| `src/app.ts`, `src/protocol/` | none | routes, acknowledges, builds the callback and dispatches it later |
| `src/sources/`, the other `src/trv11/` files | none | journey sources, message building |

A request is acknowledged at once and answered later, so requests of one
transaction overlap even in one process.

### What is hard, and what makes each part correct

* Seat locks: steps of several buyers and processes in any order, stale
  instants, replacement holds, partial cancellation and resale. A berth has one
  live claim, a hold moves as one, seats, locks and statuses agree, a refused
  request changes nothing.
* Order service: state read before an await and used after it, confirms sent
  twice, a process that dies between commit and answer. An answer names a
  booking of its own transaction, a sale comes out of a hold that was running
  when the confirm looked.
* Handler: a deadline that answers while the work goes on, statements that fail
  or never return, callbacks that are posted once. Whoever waits is answered,
  and a buyer who was told nothing useful finds the sale by asking again.
* Cancellation: two commitments at once, a slab boundary or the quote's lapse
  in between. Refunds are written once, add up, and are what was quoted.
* Retention: a sweep against a cancellation that rewrites the same document.
* Database handle: the stream dies in a transaction, COMMIT's answer is lost, a
  ROLLBACK is refused, a read reconnects under a transaction. Success means all
  of it is durable, and no transaction goes on in another's.
* Data source: a request looks up service, map and fares one by one while the
  dataset is replaced, slow or down. What is kept is not too old, what was
  published can be bought at the published price.
* Start: several processes of different builds migrate one database and may die
  half way; on a hosted database the start's own first write may cost it its
  transaction. What is on record was done once and in order; everybody comes up.
* Fleet pushes: they overtake each other and may hang. Once quiet the simulator
  shows what is booked.
* TRV11 orders: a late search replaces a catalogue, confirms overlap, ids meet,
  passes end at a midnight of some month. One final order per transaction, at a fare quoted
  to it; a ride is settled only by a valid pass.

PROJECT.json lists these hazards one by one with the line where each bites.

## 2. The modules

| module | models | composed with |
|---|---|---|
| `SeatSale` | the promise: every berth is free, held for one transaction until an instant, or sold to one | - |
| `ReservedStore` | `store.ts`, the transactions that move claims | refines `SeatSale` (`ImplementsSeatSale`) |
| `ReservedStoreProofs` | theorems about `ReservedStore` | extends it |
| `ReservedOrder` | `order.ts` select, init, confirm; `seatstate.ts` | extends `ReservedStore` and drives its actions (`ImplementsStore`) |
| `ReservedHandler` | `handler.ts`, `protocol/dispatch.ts` | extends `ReservedOrder`: each step of a request with what becomes of its connection |
| `ReservedOrderProofs` | theorems about `ReservedOrder` and `ReservedHandler` | extends `ReservedHandler` and `ReservedStoreProofs` |
| `ReservedCancellation` | `order.ts` cancel and status, `refund.ts`, the quote and retention parts of `store.ts` | one booking; its `Apply` is `ReservedStore!ApplyCancellation` with the money |
| `ReservedCancellationProofs` | theorems about `ReservedCancellation` | extends it |
| `ReservedCatalogue` | `calendar.ts`, `fares.ts`, `concession.ts`, `integrity.ts`, `fixture.ts`, the stops of `catalog.ts`, the item ids of `domain.ts` | operators, no state |
| `ReservedSource` | `http.ts`; the lookups and the prices of search and select in `order.ts` | extends `ReservedCatalogue` |
| `ReservedSourceProofs` | theorems about `ReservedSource` | extends it |
| `ReservedMigrations` | `openReservedDatabase` and `migrationsUnder` of `db.ts` | the start of each process, before anything above |
| `ReservedMigrationsProofs` | theorems about `ReservedMigrations` | extends it |
| `ReservedDatabase` | `db.ts` | the atomicity the other modules take for granted |
| `ReservedDatabaseProofs` | theorems about `ReservedDatabase` | extends it |
| `FleetManifest` | `fleetManifest.ts` and the pushes of `order.ts` | one departure |
| `FleetManifestProofs` | theorems about `FleetManifest` | extends it |
| `TransitOrders` | `orders/`, `settlement.ts`, `totp.ts`, the window of `pass.ts`, the asynchrony of `app.ts` | - |
| `TransitOrdersProofs` | theorems about `TransitOrders` | extends it |

`MC*` modules give the constants their values.

**ReservedStore.** A berth is a seat of one dated departure, the key of the
unique index on live locks. All rows of a hold are inserted by one statement
sequence in one transaction and share transaction, instants and booking, so
`holds` keeps those per hold id and `lock` the state of each row. Each action
is one `withTransaction` block: `SweepExpiredHolds`, `AcquireHold` (keep,
refuse or place), `ConfirmBooking` (refuse, repeat or place),
`ApplyCancellation`. A refusal is UNCHANGED because the code throws inside the
block. `StoreNext` lets any caller pass any instant up to the clock.

**ReservedOrder.** `req[r].pc` is the await a request stands at, `req[r].now`
the instant it read; one action per stretch between two awaits. `confirmations`
is the map of each process. `Crash` empties it and loses the requests. `Search`
and `Cancel` are what else touches the tables. Seats the simulation sold are
the constants `Seeded`, `SeededFemale`; the booking window is `SaleCloses`.

A request that is not addressed to this seller, or whose payments have the wrong
status, is refused before it reads anything (`Received`, the input's `sound`).

**ReservedHandler.** `http[r]` is the exchange of a request: `open` until it is
answered 200, 500 or, at its deadline, 504; or `acked` with 202, then `posting`,
`posted`, `undelivered`, or `silent` when neither the answer nor the last resort
passes its schema. `Serve` is a step of `ReservedOrder` with `Respond`, because
the promise chain from the work's last await to the response has no other await
in it. `Fault` is a statement that throws: the buyer gets an internal error,
whatever earlier statements committed. `Deadline` leaves the work running.
`http[r].sale` is a history variable, the sale there was when the request
arrived. Whether a body passes a schema is a choice (`Malformed`,
`Unspeakable`); a last resort counts as an answer.

**ReservedCancellation.** `seat`, `booking`, `order` are the three places a
booking lives in, written by transactions of their own. Reading a booking is
two steps, the row and then the seats, as in `findBooking` and `bookingFromRow`.
Money is in paise with the code's rounding; `Instants` are minutes chosen on
both sides of a slab boundary and of a quote's lapse.

**ReservedCatalogue** and **ReservedSource.** A service, a seat map, a fare table
and a catalogue are records; ids are model values, a date is its day number,
instants are minutes and a day has `Day` of them. Service and item ids are texts:
sequences of the parts between their hyphens, each with the kind of characters it
has, which is what the expression of `parseReservedItemId` looks at. A search
writes an item's id (`ReservedItemId`), an order has it read back (`Matches`,
`ParseReservedItemId`) and is refused when it does not match. A date in a text is
one part. `req[r].stage` is the lookup a
request waits for; `ask` is the entry of `catalogue()`, `fetch` the await of the
response, and `Serve` runs to the next lookup or to the answer, because nothing
in between is awaited on the data. `used`, `after`, `failed` and `heldAt` are
history: which catalogues a request was served from, what was over when it came,
the check that refused it, and when the dataset last held each catalogue. An
error answer and a body that fails the checks are one thing, a catalogue that is
not sound. A lookup by id is the first of a list (`First`), and `todo`, the
candidates a search has before it, is the set of their indices in the list of
services, taken in the order of the list. What `search` and `select` do to the tables is in `ReservedOrder`.

**ReservedMigrations.** `proc[p].pc` goes through `opened`, `migrating`,
`begun`, `changed`, `recorded` and round again until nothing is missing, then
`up`; `failed` is the `catch`. The database has one writer (external); a
statement that meets another's lock fails, as do a change of tables that have it
already, wholly or in part, and one of tables that are not there. The database is
local or hosted (`remote`). `Start` makes `schema_migrations` outside any
transaction (`db.ts:739`), and on a hosted database that may leave the connection
`spoiled`, as `store.ts:224` describes: the next BEGIN reports success and opens
nothing (`open` is FALSE), the statements of the file and the row of the record
stand as soon as they have run, a file that fails in the middle leaves the
statements before it (`CutShort`, `half`), and COMMIT fails (`NothingToCommit`).
Whether a CREATE that finds its table there already spoils a connection is not
known and left open. `OffRecord` is what was done to the tables and is not on
record.

**ReservedDatabase.** An operation is call, server, answer and, if the stream
was dead, reconnect and retry. `Serve`, `Drop`, `Reap` and `AnswerLost` are the
server as the comments of `db.ts` describe it (external); `AnswerRefused` is an
ordinary error on a stream that lives. A ROLLBACK may be refused like anything
else: `db.ts:544` rethrows the error with the flag up, `runTransaction` swallows
it (`db.ts:696`), and the transaction stays open on the server (`kept`) until its
stream is replaced or the server discards it; meanwhile each BEGIN is refused.
`astray` records that a read outside a transaction interfered with one, or that
the opening's bare write left the first connection spoiled.

**FleetManifest.** A push notes its instant when it starts, reads the seats
later, and sends; the simulator takes a PUT that is strictly newer and forgets
everything on DELETE (external, as `order.ts` describes it).

**TransitOrders.** The steps of search and confirm between awaits, quotes and
status in one step. Time is in instants, a day is `Day` of them, a code is the
pair of a secret and a time step. Days are counted on, and a calendar
(`MonthStart`) says on which of them each month begins: a pass is good for its
day, for `WeekDays` days, or up to the same day of the next month, which is the
first of the month after that where the next one is too short (`MonthEnd`).

## 3. The runs

| run | checks | bounds |
|---|---|---|
| `store` | no double claim, holds move as one, seats, locks, status and bookings agree, one booking per transaction, nothing lost on refusal, replacement of holds, refinement of `SeatSale` | 2 transactions, 3 ids, 2 seats of one departure and 1 of another, clock 0..1, hold of 1 tick |
| `order` | a confirm is answered with the booking of its transaction and one is in flight at a time, sales from running holds, refusals only for live claims, no man beside a simulated woman | one scenario of two: 2 selects and 2 confirms, 2 processes, 2 transactions, 3 berths on 2 departures; or select, init and 2 confirms of one rider, every manifest, a simulated seat, a sale that closes, a process that dies at any await |
| `handler` | a repeated confirm finds the sale, every connection is answered though the database hangs, every ack is followed up if it does not; the requests drive the tables as `StoreSpec` allows | 1 select, 2 confirms of one transaction, a process that answers on the connection and one that posts and may die, any statement may fail, deadline and hold of 1 tick |
| `cancel` | refunds frozen, as quoted, and the ledger adds up: the booking's refund is the sum of its seats' and the backlog the rest; names come back only by a rewrite that had read them | a status, two quotes and two commitments for one seat, the whole booking or a foreign seat, instants on both sides of 72 h and one past retention, a process that dies |
| `source` | the cache is never too old, a missing map or table only across catalogues, what was published is sold under its id and at its price, every request ends | a search and an order after or beside it, two catalogues and a broken one, a service id with a hyphen and a date in it, a class with a digit, an item id that does not parse, one release, fixtures, 3 instants and all later ones |
| `migrations` | what is on record was done once and in order, nothing is built on a change that is off the record, nobody serves on a schema that lacks or outruns its build, everybody comes up unless such a change is there | 2 processes, a local or a hosted database, builds of one and of three migrations and one with a hole, 2 faults, 1 change of build |
| `database` | all or nothing, success means durable, no nested BEGIN and no raised flag when idle but after a refused ROLLBACK, nobody joins what one left open, every call ends | 2 transactions of 2 writes, 1 read, 2 faults, a first connection that is spoiled or not |
| `fleet` | the simulator is current when quiet, pushes end | 2 seats, 3 pushes, 3 instants |
| `transit` | one final order, fare quoted here, settled by a valid pass, no late refusal, every request ends | 4 requests, 2 operators, 2 apps, 2 ids, passes of a day, a week of 2 days and a month, a day of 2 instants; sales from the third and last day of a month on, before a month of one day |
| `late_sale`, `gender_race`, `refund_recomputed` | violations, section 6 | a confirm sent twice to two processes, neighbours, and one boundary |

Why the bounds are enough. Every property is about at most two actors meeting
on one object, or about one actor and a fault. Three ids in `store` are a hold,
its replacement and a competitor, or a booking, its partial cancellation and
the resale; three berths are two seats of a hold and one on another coach,
where a hold can lapse unswept. A clock of two instants with holds of one tick
gives a live, a just expired and a stale view of the same hold. Two faults in
`database` let a reconnect fail as well. In `order` the four requests of the first
scenario are two pairs that contend for a berth, with the second transaction
choosing to be the first one again; `MCOneScenario` keeps the scenarios apart.
In `source` the sale of one coach closes and that of another opens within the
clock, a fetch may take as long as the timeout, and a second release would only
repeat the meeting of two catalogues. In `migrations` one fault is enough for
each place a start can be cut off; the second cuts off the start that finds what
the first one left, while the other process races it. In `transit` the clock
ends after the short month, in the middle of the month a pass could wrongly
spill into. Ids, transactions and the two seats are interchangeable in
`store` and nothing refers to one of them, so the symmetry is sound; it is not
used where liveness is checked.

In `handler` a request is taken in by the process with the deadline only while
the bound on the clock lets the deadline come; a retry after a 504 goes to the
other process.

Deadlock is checked in `store` and in the `order` runs, where a search can
always sweep. The other runs have finitely many
requests and end: their configurations switch it off and liveness properties
stand in where the code waits for something.

Fairness. In `ReservedSource` the event loop runs what is due (`Due`, the enabling
condition of `Ask`, `Land` and `Abort`, until one of the three is taken: `Runs`, as
no other step moves a request that has arrived) and the clock moves, for the abort
is a `setTimeout`; the dataset need not answer. In `ReservedMigrations` the steps
of a start are fair, because statements return or throw, and an exited process is
started again, as its host does. `Step` of `TransitOrders` and the steps of a call
in `ReservedDatabase` are weakly fair: Node runs every continuation whose promise has settled, the driver settles every promise
(`db.ts` retries once and throws, the server answers or drops the stream), the
journey source and the QR encoder settle. `Settle` of a push is fair because of
its `AbortController` timeout. `HandlerSpec` assumes only what the runtime gives:
the clock moves, `Deadline` (a `setTimeout`) fires and `Dispatch` ends
(`AbortSignal.timeout`); that statements return is the premise of
`EveryAckIsFollowedUp` and is not assumed by `EveryConnectionIsAnswered`, whose
point is that they may not. Nothing is assumed of arrivals, crashes, faults, the
network, or the simulator's answers.

Each property of a passing run has a mutant in PROJECT.json: an operator named
after the original with a suffix (`Taken_BookedOnly`, `MayRetry_Always`) that
makes the mistake the property is there to catch.

## 4. What is proved

Eight modules hold theorems; PROJECT.json lists the ones a reader should know of
and the property each states. Every theorem is about the specification the runs
check, without its fairness, and holds for every value of the constants that the
assumption of its module allows. Each inductive invariant was checked by TLC on
the bounds of a run of its module before it was proved (where it speaks of all
naturals, over the first few of them).

### The store

`ReservedStoreProofs`: any sets of transactions, departures and ids, any finite
set of berths, any hold length. `StoreAssumption` says that berths are finite and
on a departure, that the hold length is a positive natural, and that NULL is none
of the ids.

* `StoreTypeCorrect`, `NoDoubleSale`, `HoldsMoveAsOne`, `SeatsAndLocksAgree`,
  `CancelledWhenEmpty`, `OneOrderPerTransaction`, `OneHoldRuns`: the invariants
  of the `store` run;
* `NothingLostOnRefusal`: the action property `ReleasedOnlyByReplacement`;
* `StoreImplementsSeatSale`: the refinement of `SeatSale`.

The properties are not inductive one by one. `BookingsMatchLocks` needs to know
that a booking is named by one hold only and that a HELD row names none, or a
confirm could make another booking's seats appear; `NoDoubleSale` needs that an
unused hold id has no rows, or placing a hold could revive old ones. `StoreInv`
adds these: `PlacedHolds`, `BookingIds`, `UnusedBookings`. The argument, one
lemma per transaction:

1. Sweeping and releasing only take rows out of HELD, a whole hold at a time
   (`SweptLapses`, `FreedLapses`), and any such change keeps the invariant
   (`LapseKeepsInv`): this covers the sweep, a kept hold and the first half of a
   placed one.
2. A hold is placed on berths no live row is on, under a fresh id
   (`PlaceHoldInv`).
3. `confirmBooking` counts rows. Because a hold's rows are HELD together, the
   count equals the manifest's only if every row is still HELD
   (`StillHeldMeansAll`, where finiteness of the berths is used), so all become
   BOOKED under a booking whose seats are those rows (`PlaceBookingInv`).
4. A cancellation releases the locks of its own booking on the berths it
   cancels and nothing else (`ApplyCancellationInv`).
5. Everything that is refused is rolled back (`StutterInv`).

`OneHoldRuns` needs more: that row ids grow with every hold (`RowidsGrow`) and
that of a transaction's holds, placed in the order of their instants, only the
newest is HELD (`NewestLives`). Both are in `SaleInv`.

The refinement reads the state of a berth off its one live row (`ClaimIs`, which
rests on `NoDoubleSale`). A sweep lapses holds whose end has come
(`SweepLapses`), a placed hold takes free berths and returns those of the hold it
replaces (`PlaceHoldTakes`), a confirm sells (`PlaceBookingSells`), a
cancellation gives back (`CancellationReturns`); `StepIsASale` puts them together.

### The order service and its handler

`ReservedOrderProofs`: any requests, processes, restarts, simulated occupancy and
closing times (`OrderAssumption`, `HandlerAssumption`: the constants have their
types).

* `RequestsDriveTheStore` (`ImplementsStore`): the requests, whatever they carry
  from one await to the next, only do to the tables what `StoreSpec` allows. So
  all that holds of the store holds of the service: `ServiceNeverSellsTwice` and
  `ServiceImplementsSeatSale` are drawn from it.
* `ConfirmsAreOnce`, `SalesComeFromHolds`, `SimulatedWomenAreRespected`: the
  invariants of the `order` run; `RefusalsAreForLiveClaims`: its action property.
* `HandlerDrivesTheStore` and `RetriesFindTheSale`: the same refinement, and
  `RetryFindsTheSale`, under `HandlerSpec` with failing statements, deadlines,
  callbacks and restarts.

`OrderInv` says what a request still has at the await where it uses it. `Holding`:
between its check and its booking a confirm goes by a hold of its transaction and
departure, with exactly its seats, that ran at its instant. Others step in
between, so this has to be stable: a placed hold keeps its transaction, departure,
end and seats, and a booking its transaction, whatever the store does (`Grows`,
one lemma per transaction of the store). `InTheMap`: the confirm at work on a
transaction is the one the map of its process names, which makes `ConfirmedOnce`
inductive. `Seemly` carries the verdict of the gender lock on the simulated
seats, which nobody can change, from the check to the sale (`SoldBy`); for seats
that are booked meanwhile it does not hold, which is the run `gender_race`.
`RequestsKept` shows that the other requests keep all this under a step that only
grows; the rest is one lemma per action.

`HandlerInv` adds that a confirm of a transaction that had its sale when it came
is still before its lookup, or has been answered with that sale, or with an
error that is not about the hold (`Retried`): it never gets to look for a hold,
because it reads the booking first and bookings stay (`BookingsStay`).

### Cancellation and retention

`ReservedCancellationProofs`: one booking of any seats, any requests, processes
and instants (`CancellationAssumption`: seats are finitely many, fares are
naturals, there is an instant). `CommitmentsArePaidAsQuoted` (`PaidAsQuoted`),
`NamesStayDropped` (`OnlyARewriteBringsNamesBack`), `LedgerAlwaysAddsUp`
(`LedgerAddsUp`) and the action property `RefundsAreFrozen` (`CancelledSeatsStay`).

A commitment is paid from what it computed when it applied, after two awaits.
`CommitsAreQuoted` says that from `apply` on its target and slab are those of the
quote it names, and `QuotesStand` that a quote, once saved, is the refund of its
seats at its slab and is not saved again. In this invariant sums of money stay
closed: an amount is a member of the set of values the sums take.

For the ledger they are opened. `Ledger` says that a row carries the refund of the
slab it was cancelled at and none before, and that the booking has a figure from
the first cancellation on, which is the `SUM` over its rows. Only `Apply` and
`ClearNames` touch the rows; `Apply` always cancels, or finds cancelled, at least
one seat, so that the figure is there exactly when some seat is gone. From
`Ledger` to `LedgerAddsUp` it is arithmetic of sums: zeros may be left out
(`SumOverAPart`), so the figure is the sum over the cancelled seats; and sums add
up term by term (`SumOfSums`), where fare, fee and toll of a cancelled seat are
its refund and what is retained (`SharesAreWhole`). The sums are folds of the
community modules, whose value depends on a `CHOOSE`n order. That it does not
matter (`AnyTermFirst`) and that the folds exist at all (`SumsExist`) is proved by
well-founded induction over the subsets of a finite set, with the good subsets as
a set (`SubsetInduction`): in this form no operator has to be instantiated.

### The database handle

`ReservedDatabaseProofs`: any transactions, readers, statements and faults.
`TransactionsTakeTurns`, `CommitsAreDurable` and `TransactionsAreAtomic` state the
invariants of the `database` run.

`DbInv` ties four things together: the queue (`InTurn`: the transaction under way
is its head), the connections (`StreamsInOrder`: only the last is alive, and only
a live one has a transaction open), the flag (`Flagged`) and the statements that
have arrived (`Opened`: those on an open transaction are one caller's, from the
first without a gap). A refused ROLLBACK leaves a transaction nobody owns: on
such a connection (`kept`) nobody is past BEGIN (`Abandoned`), because a BEGIN
that succeeds there found no transaction and ends that state. So
`OneTransactionAtATime` excepts it from its first two parts, `NeverBeginsInside`
and `FlagIsClear`, and its third says what protects the data then: nobody adds to
or commits what another left open (`NeverJoined`). `WholeIsDurable` follows at COMMIT because no statement is
skipped. `AllOrNothing` holds only while no read outside a transaction replaces
the connection under one and the first connection was not spoiled when it was
opened, so `Undisturbed` is conditional on `astray`: then the
flag stays up from BEGIN to the end (`Protected`), so a dropped stream ends the
transaction instead of being retried.

### Fleet pushes

`FleetManifestProofs`: any finite set of seats and any number of pushes and
instants. `SimulatorIsCurrent` states `ManifestIsCurrent`.

The property is about the moment nothing is on its way; the invariant has to say
what will be true then. `NewestTells`: as soon as no committed change waits for
its push, the newest push either has still to read the seats, or its request with
the right count is on its way, or it has arrived and whatever else is under way
says the same or is older (`Told`). It needs the order of a seat's change and its
push (`ChangesInOrder`), that instants are of the past (`Instants`), and that a
request has the instant of its push (`Traffic`).

### TRV11 orders

`TransitOrdersProofs`: any requests, operators, apps, offers and passes.
`NoRefusalAfterPayment`, `OnePaymentOneOrder`, `SoldAtAQuotedFare`,
`PaidByAValidPass` (invariants of the `transit` run) and `OrdersStay`
(`OrdersAreFinal`). `TransitAssumption`: days and periods are positive, fares are
naturals, passes and offers are different items. `CalendarAssumption`: no month is
empty, and the calendar goes two months further than the clock.

A confirm decides before it encodes its ticket and saves after. `Encodes` says
what it still has then: it is the one in the map for its transaction, the
transaction has no order, and what it is going to save is sound (`Sound`: quoted
to this transaction, settled by a pass that was valid at its instant). A search
that replaces the catalogue, another order and the clock keep this
(`StaysSoundToBe`). `Passes` traces every credential to the order it was minted
for, which turns the window a code was checked against into the days that pass is
good for (`WindowIs`, `WithinDrift`). `Covers` says which those are without the
end the code computes; for a month it takes `MonthEndCovers`: before that end lie
the rest of the month and, of the next, the days before the day of the sale, which
are all it has when it is too short to have that day.

### The catalogue source

`ReservedSourceProofs`: any catalogues, fixtures, requests, time to live and
timeout. `CacheStaysFresh` states `CacheIsFresh`, `NothingIsMissingInside` states
`MissingOnlyAcrossCatalogues`, `WhatIsPublishedIsSold` states `PublishedIsSold`.
`SourceAssumption`: names are told apart, times are naturals; `ContentAssumption`:
the lists of a catalogue are arrays with no hole, and a service id has at least a
character (the schema's `minLength`) and, unsaid, no line break; `InputAssumption`: what parsing
and the schemas leave of a request, a whole day, a count, a list of seats. That
the numbers of a catalogue are whole is not assumed: `integrity.ts` checks it.

For the cache the invariant is about fetches. What a fetch brings, the dataset
held when or after it was begun (`Fetching`), and what is kept, at or after
`fetchedAt` (`Kept`): that is why the catalogue is dated by the question and why
a slower fetch that overwrites a newer one does no harm. Releases and time only
move the last instant a catalogue was held forward (`HeldForGood`).

For the references, a request at its second or third lookup is at a service of a
catalogue it was served from (`Chosen`). In a catalogue that passed the check the
map and table of each service are carried (`ReferencesAreCarried`, from
`ValidReservedCatalogue`), so one that is missing was looked for in another
catalogue, and two that differ make more than one (`TwoAreMoreThanOne`).

For the sale of what was published the invariant (`SaleInv`) follows a search and
then an order. The candidates a search is left with run on its date and are not
too far ahead (`Searching`); what it has published, if it has met one catalogue at
most, is a service of that catalogue with the fare of the whole run in that
catalogue's own table (`Publishing`); and the searches an order came after are
over, so that nothing they published changes any more. The last instant on which a
sale opens is passed once and for all (`StaysOnSale`), which is why the order may
be told that it is too late and never that it is too early. The item's id is read
back to the service, date and class it was made of, for every class
(`IdsAreReadBack`). An order that meets
the same catalogue finds the same service under that service id, since ids do not
repeat (`NoTwoAlike`, by counting: `NoDuplicates` compares a cardinality with a
length); then its stops are served (`PublishedStopsServe`), its whole run has the
published cell, and its total is the published price less a discount that is off
by half a paisa at most (`PriceAsPublished`). `SaleInv` is not inductive without
`SourceInv`, which says what a request has met and where it is.

### The migrations

`ReservedMigrationsProofs` proves `SchemaIsOnRecord` (`EachMigrationOnce`) and
`ServesOnItsSchema` (`ServingIsOnSchema`) for any processes, builds and
migrations, and any number of failures, crashes and deployments. The assumption
is `MigrationsAssumption`: the numbers of a build's files are positive and
finitely many, and no process is named None.

Neither property is inductive: a process writes a migration it computed from a
read made before it had the lock. `MigrationsInv` says what it still knows when
it writes. The migrations carried out are 1..n, in order, and those on record
1..n, or 1..n - 1 on a hosted database (`InOrder`). A process on its way
has a build 1..m and has read 1..k of those on record, so the next one it finds
missing is k + 1 (`NextVersion`). The change finds its tables untouched, and those
it alters there, only if everything before it is on record, nothing is half done
and k = n (`FitsMeans`). In a transaction the lock it took keeps n where
it is until it commits (`ChangeOpenInv`, `OthersKnow`), and the commit makes
1..n + 1 of it (`CommitInv`). Without one n has moved at once (`ChangeBareInv`),
and no other change fits the tables until that one is on record, so whoever is
between its change and its record is alone (`Alone`, `RecordBareInv`); if it fails
there, or in the middle of the file (`CutShortInv`), the database stays as it is
for good. That is why a change off the record is always the last, which is what
`SchemaIsOnRecord` can promise of a hosted database. A failure, a crash or a
deployment only forgets (`StoppedInv`, `FailedInv`).

### What is left to TLC

* Liveness, which needs fairness and ENABLED: `EveryConnectionIsAnswered`,
  `EveryAckIsFollowedUp`, `EveryRequestEnds` (of `ReservedSource` and of
  `TransitOrders`), `EveryCallSettles`, `EveryProcessServes`, `PushesSettle`.
* The three properties that documents state and the code does not have (section 6):
  a run refutes each.

Every invariant and every action property that a passing run checks is a theorem.

## 5. What is not modelled

* What the JSON schemas of `handler.ts` and `app.ts` accept, and the routes of
  `app.ts`. Search, status and cancel through `handler.ts`: their work is
  modelled (`Search`, `ReservedCancellation`), its delivery is not.
* The prices of `ReservedSource` beside the holds of `ReservedOrder`: the two are
  not composed. A `select` whose concession has no rate places its hold and is
  refused afterwards (`order.ts:403`), which neither module shows.
* The simulated occupancy (`occupancy.ts`, `rand.ts`: a seeded draw, taken as a
  constant), `money.ts`, the layout of messages, names and contacts of a
  manifest, configuration: text and read-only data.
* What the fixtures' JSON schemas accept: a catalogue of a model is well-formed,
  and the checks of `integrity.ts` are what refuses it.
* Refusals of the TRV11 `baseOrder` that look at nothing but the message and
  change nothing: BPP-ADDRESS-MISMATCH, PROVIDER-NOT-FOUND, DUPLICATE-ITEM,
  MIXED-CATEGORY-ORDER, those of concessions, PRICE-OVERFLOW.
* An item id with a date that is no day of the calendar: it parses, and
  `midnightMilliseconds` takes it for another day or throws (`calendar.ts:39`).
  No search publishes one.
* Uncommitted reads. `db.ts:98` explains that a read outside a transaction may
  see rows of an open one of the same process. The models read committed state.
* The pass route of KSRTC (`passHandler.ts`): it answers on the connection from
  the same `TransitOrderService`, so what it may do to orders and passes is what
  `TransitOrders` does for an operator.
* Deployment, schemas, fixtures, scripts.

## 6. Where documents and code disagree

Checked by a run that TLC refutes:

* `late_sale`. `confirmBooking` does not look at `expires_at`, so a confirm
  whose hold ends after its check is sold if nobody swept in between and refused
  if somebody did. `order.ts:1124` and `docs/reserved-intercity.md:1211` rule
  that out.
* `gender_race`. The gender lock is evaluated before the booking transaction
  and not again: two confirms of neighbouring seats both pass.
* `refund_recomputed`. The second of two overlapping commitments cancels
  nothing and still answers a refund computed at its own slab, against the
  comment at `store.ts:934`.

Seen on the models, stated in the hazards and not kept as runs:

* Two selects of one transaction may leave two live holds: the newest hold is
  chosen by `created_at`, which is read before the wait for the database
  (`store.ts:434`; `docs/reserved-intercity.md:1126` says one live hold per
  transaction). `HoldsAreReplaced` states what holds: with instants in commit
  order there is one.
* A second confirm from another process that comes after the first has
  committed is told HOLD-EXPIRED: the row count at `store.ts:801` fails before
  the unique index the comment at `store.ts:872` relies on.
* The stored order is rewritten in a second transaction (`order.ts:770`). Two
  cancellations may write in the other order, and a crash between leaves an
  ACTIVE document on a cancelled booking. A rewrite that read names before the
  retention sweep puts them back, and the sweep does not find them again.
* `findBooking` reads the row and the seats separately (`store.ts:690`): a
  repeated cancellation may be answered seats of after and a refund of before.
* A retention sweep that fails is not retried until the interval is over
  (`store.ts:1068` notes the time first).
* A read that finds its stream dead replaces the connection under an open
  transaction and clears the flag (`db.ts:483`); the transaction's next
  statements then run outside any transaction, which the class comment
  (`db.ts:453`) says cannot happen. The same befalls the first transaction of a
  process whose opening left the connection spoiled (`db.ts:739`).
  `AllOrNothing` holds for every other behaviour.
* After a ROLLBACK the server refused on a live stream the flag stays up and every
  BEGIN fails, until the stream is dropped or the transaction discarded: an outage
  of writes, in which nothing is mixed up.
* A manifest DELETE has no `asOf`, so an older PUT may follow it, and of two
  pushes in one millisecond the simulator drops the second; the comment at
  `order.ts:1400` says order is always restored.
* A concession is taken off the order's quote (`order.ts:986`) and not off the
  base fare stored with its seats (`order.ts:532`), from which the refund and
  the share owed to the corporation are computed: a rider who travels free under
  a full concession is quoted a refund of a share of the undiscounted fare. No
  document says what such a seat refunds.
* The comment on `openReservedDatabase` (`db.ts:709`) says that a failure half way
  through a migration "leaves neither the change nor the record of it". The bare
  CREATE TABLE of `db.ts:739` is a write of the kind that, by `store.ts:224` and
  `tests/reserved/no-bare-writes.test.ts:20`, leaves the next BEGIN on Turso
  without a transaction: the change may then stand without its record
  (`OffRecord`), and every later start fails on it until somebody repairs the
  database by hand. Even where nothing else fails, the COMMIT of that first
  migration does, and the process has to start once more. `SchemaIsOnRecord` and
  `EveryProcessServes` state what holds on a local database, and what is left of
  it on a hosted one.
* An old build that is running, or that has read the versions already, when a
  newer one migrates goes on: the refusal of `db.ts:762` ("a newer schema read by
  older code is refused rather than tolerated") is made once, at the start.
* The fetched catalogue is checked as the fixtures are, but a stop of a service
  carries its own town there (`integrity.ts:176` looks at the id of a point only):
  a service may be found under a town its boarding point is not in.
* `http.ts:36` says that "a select and the confirm that follows it are priced
  against the same catalogue". Within the time to live this is so only while no lookup falls back
  to the fixtures and no slower fetch lands; a request can even mix catalogues.
* A TOTP code is accepted one step before and after its own, so for more than
  the thirty seconds of the comment at `totp.ts:14`.

## 7. Plan

Done: all modules of section 2, and theorems for every invariant and action
property of the passing runs.

Next, in this order:

1. Uncommitted reads: `ReservedOrder` with the reads of `confirm` seeing a
   transaction in progress.
2. The prices of `ReservedSource` composed with the holds of `ReservedOrder`: the
   hold a refused concession leaves behind (`order.ts:403`).
