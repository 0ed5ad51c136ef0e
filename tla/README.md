# Bus booking platform: specifications, model checking and proofs

TLA+ specifications of the bus-booking platform (`src/`, TypeScript: NestJS
services, Postgres, Redis, RabbitMQ), TLC configurations for small instances
and TLAPS proofs of theorems about every instance. `PROJECT.json` maps each
definition to the lines it stands for, and lists runs, findings, hazards and
theorems; this file is the explanation.

## 1. Inventory

| Component | State | Operations | Talks to |
|---|---|---|---|
| Web client (`apps/web`) | form, idempotency keys, countdown | search, hold, pay, look up an order | gateway, HTTP |
| API gateway (`apps/api/api-gateway`) | none | forwards HTTP to RPC queues, timeout, rate limit | trip, booking, payment by RPC |
| Booking: reservations (`booking-service/src/reservations`) | Postgres `Reservation`, `Passenger`, `OutboxEvent`; writes `Seat`, `Trip` | `create`, `beginPayment`, `compensateCheckout`, `lookup`, `findById`; consumers `onPaymentApproved`, `onPaymentFailed`; crons `expireHolds` (10 s), `healOrphans` (30 s) | hold store, outbox |
| Booking: hold store (`booking-service/src/redis`) | Redis: hold, seat and idempotency keys with TTL, sorted set of due ids | `tryCreate`, `refresh`, `delete`, reads | Redis |
| Booking: outbox (`booking-service/src/outbox`) | rows: `attempts`, `publishedAt`, `poisonedAt`; the flag `flushing` | `enqueue` (in the caller's transaction), `kick`, cron `flush` (1 s) | bus |
| Domain bus (`*/messaging/rabbitmq.service.ts`, four copies) | fanout exchange, one queue per consumer, dead-letter exchange and queues | `publish`, `subscribe`, `handleConsumedMessage` | all services |
| Payment: checkout saga (`payment-service/src/payments`) | Postgres `Payment`, `CheckoutSaga` | `run`: open the window, charge, publish, compensate | booking by RPC, bus |
| Trip: seat projection (`trip-service/src/events`) | the same `Seat` table | `onReserved`, `onConfirmed`, `onReleased` | bus |
| Trip: search (`trip-service/src/trips`) | none (reads `Trip`, `Seat`) | list, seat map | gateway |
| Notification (`notification-service`) | none | a mail per event | bus, SMTP |
| Shared packages, docs site | none | types, metrics, tracing | |

What is hard here:

- **No lock spans a handler.** A seat's state is spread over four families of
  Redis keys and three tables. A handler reads one, awaits, and writes
  another; RPCs, bus consumers and two crons do so at once. Only a
  `$transaction`, one statement, or one Redis command or pipeline is atomic.
- **Time.** Keys expire on their own, `expiresAt` is compared with clocks at
  different moments, and `refresh` moves it.
- **Partial failure.** Every await may throw and no handler undoes what it did
  before, except for the two explicit undos in `create`.
- **Delivery.** Payment events come at least once; a decline is delivered by
  RPC *and* by event; an approval may come after the window closed.

What makes each component correct:

- reservations: one seat is never sold twice; a sold seat stays sold; an ended
  checkout stays ended, a confirmed one stays confirmed; a live hold keeps its
  seat; one `seat.confirmed` per sale; every held seat is sold or comes back;
  every checkout ends.
- hold store: at most one live hold per seat and per idempotency key.
- outbox: every committed event is published at least once, or poisoned after
  five failures; a published row is not published again once it is marked.
- bus: each subscriber sees each published event it is interested in, or it is
  in a dead-letter queue.
- saga: at most one open or approved payment per reservation; a charge is
  followed by `payment.approved` or stays visible as `FAILED post_charge`; a
  declined checkout is compensated.
- projection: does not undo what Booking decided; what Booking sold is sold
  in the end.
- notification: a ticket goes out for every sale and for nothing else.
- web client and gateway: the screen claims nothing that is not so, comes to
  say how the reservation ended, and a retry neither charges nor books again.

## 2. Modules

| Module | Contents |
|---|---|
| `HoldStore` | Redis state and one operator per command or pipeline of `HoldStoreService` |
| `Booking` (EXTENDS `HoldStore`) | `ReservationsService`, its tables, its environment; properties |
| `ReservationLedger` | what Booking promises about reservations, sales and sold seats, as an abstract specification |
| `MCBooking` | symmetry, and the restricted specifications of `booking_acquire` and the violation runs |
| `BookingProofs` | theorems about `Booking` |
| `BookingAcquireProofs` (EXTENDS `BookingProofs`) | theorems about `AcquireSpec`, the part of it that takes seats |
| `BookingLedgerProofs` (EXTENDS `BookingAcquireProofs`) | `ReleasedOnce`, and that `Booking` implements `ReservationLedger` |
| `OutboxRelay` | `OutboxRelayService.flush` and its callers |
| `EventLog` | what the outbox promises, as an abstract specification |
| `MCOutboxRelay` | which event follows which |
| `OutboxRelayProofs` | theorems about `OutboxRelay`, the refinement of `EventLog` among them |
| `CheckoutSaga` | `CheckoutSagaService.run` and `compensate`, and what they see of Booking and the bus |
| `MCCheckoutSaga` | one reservation, symmetry, the specification without restarts |
| `CheckoutSagaProofs` | theorems about `CheckoutSaga` |
| `FanoutBus` | `RabbitMqService`: exchange, queues, acks, nacks, dead letters, lost channels |
| `FanoutBusProofs` | theorems about `FanoutBus` |
| `SeatEvents` (EXTENDS `FanoutBus`) | Booking, `SeatEventsConsumer` and `NotificationsService` on the bus, for one seat |
| `MCSeatEvents` | the deployments, and which bounds are met one by one |
| `SeatEventsProofs` (EXTENDS `FanoutBusProofs`) | theorems about `SeatEvents` |
| `WebCheckout`, `MCWebCheckout` | the booking page, the gateway's timeout, and what the page can see of Booking and Payment |
| `WebCheckoutProofs` | theorems about `WebCheckout` |

### HoldStore

`holdKey`, `seatKey`, `idemKey` and `expiring` are the four key families of
`KEY` (hold-store.service.ts:6-11). `seatOf` and `keyOf` are the immutable
fields of the JSON document; `expiresAt` is reduced to `due`: the last written
`expiresAt` has passed. `EX ttl` is set together with `expiresAt` and from a
moment no earlier, so a key may vanish once its owner is due, never before, and
keys vanish in any order (`HoldKeyLapses`, `SeatKeyLapses`, `IdemKeyLapses`).
`Refresh` and `Delete` write what the caller remembers, without looking at
what is stored: so does the code.

### Booking

A running handler is a record in `task`: `pc` names the awaited command it will
issue next, `on` its subject (a hold, or a seat in the sweep), `saw` what it
remembers of an earlier reply. An action is one command and the code after it
up to the next await.

| Code | Actions |
|---|---|
| `create` 129-286 and `tryCreate` | `StartCreate` (lookups), `CreateLock` (UPDATE Seat), `CreateIdem`, `CreateReplay`, `CreateSeat`, `CreateUnidem`, `CreateHold`, `CreateUndo`, `CreateCommit` (transaction) |
| `beginPayment` 321-416 | `StartBegin`, `BeginTouch`, `BeginHold`, `BeginRefresh`, `BeginInsert` |
| `onPaymentApproved` 458-570 | `StartApprove`, `ApproveHold`, `ApproveConfirm` (transaction), `ApproveDrop` |
| `onPaymentFailed`, `compensateCheckout` 572-643 | `StartCompensate`, `CompCancel`, `CompHold`, `CompOrphan` |
| `releaseHold` 774-820 | `ReleaseDelete`, `ReleaseCommit` (transaction) |
| `expireHolds` 645-686 | `StartExpire`, `ExpireHold`, `ExpireForget`, `ExpireCheck`, `ExpireMark` |
| `healOrphans` 691-772 | `StartHeal`, `HealHold`, `HealExpire`; `StartSweep`, `SweepKey`, `SweepCheckout`; `FreeSeat`, `FreeTrip` |
| environment | `Decide` (a payment event or compensation RPC is sent), `Elapse`, `ElapseRow`, `ElapseCopy` (time), `KeyLapses` (Redis), `Aborted` (a command fails, or the process dies) |

Decisions worth knowing:

- A message once sent stays in `verdict`; it may be delivered any number of
  times, also by two handlers at once. Both verdicts may be sent for one
  reservation (a retried checkout); `DecidedOnce` in `MCBooking` excludes that
  where a violation must not rest on it.
- Each id, row or seat of a cron's batch is a handler of its own. Ticks of
  `@nestjs/schedule` overlap when one is slow, and the batch is read before its
  entries are worked on, so the model has the interleavings of the code and
  some between entries of one batch that need two ticks. `LIMIT 100` and
  `take 50` are not modelled.
- `getByIdempotencyKey` is two GETs read as one; the two lookups at the head of
  `create` are read together (rows are never deleted, so this loses nothing).
- `Conflicts` is the table's three unique constraints: id, `idempotencyKey`,
  and the partial index of the migration 20260905220000 that allows one
  PENDING_PAYMENT row per seat. A collision of the random `orderCode` is left
  out. The catch of P2002 in `onPaymentApproved` (540-549) is left out: the
  only insert in that transaction has a fresh random id.
- One trip, its seats AVAILABLE at the start. Seats the seed script marks SOLD
  take no part; a seat it marks HELD is in the state an aborted `create`
  leaves, which the runs reach.
- Calls that write nothing (`lookup`, `findById`, refused calls) have no
  action. Passenger data, prices, labels, metrics and logs are left out.
- `Seat` is also written by the trip service's projection of the seat events;
  `Booking` is the service without it, `SeatEvents` has both.

### ReservationLedger

What is left of Booking without Redis, handlers, retries and time: a reservation asks
for a seat, opens, is confirmed, is closed, and its seat is given back; two counters say
how often its sale and its release were announced, and a set which seats are sold.
`Booking` maps onto it (`Ledger`) by the status of the row (`LedgerStatus`: EXPIRED and
CANCELLED are both "ended"), the events committed to the outbox and the seats SOLD; an
unpaid hold has no row and is "none". What the code promises depends on what may interleave,
so there are three specifications, each implying the one before:

- `LooseSpec`, whatever interleaves: one confirmation, announced with the change of
  the row; a confirmed row may still be closed (finding 2), a release be announced again.
- `Spec` (`KeepsLedger`), one handler at a time: a confirmation is final, a release
  is announced once. It implies `ConfirmedIsFinal`, `ReleasedOnce` and `SoldIsFinal`.
- `StrictSpec`, while no seat is given back: every confirmation sells a seat that was not
  sold before.

### OutboxRelay and EventLog

| Code (`booking-service/src/outbox`) | Actions |
|---|---|
| `enqueue` in the caller's transaction, `enqueueStandalone` | `Enqueue` |
| `kick`, `onCron`, the flag | `Enter` |
| `findMany` pending, `orderBy createdAt`, `take` | `Read` |
| `rabbit.publish` | `Publish` |
| `updateMany` of `publishedAt` | `Mark` |
| the catch: `attempts + 1`, `poisonedAt` | `Record` |
| `finally` | `End`, in every action that may throw |
| environment | `LoseChannel`, `Restart` |

- A call of `flush` works on the copies `findMany` returned (`rest`); `attempts`
  is written from the copy, as `row.attempts + 1` is in the code.
- `createdAt` is taken in the transaction and is not the order of commits.
  `Enqueue` therefore takes any unused stamp, but a larger one than those of
  `After[r]`, the events whose transactions ended before that of `r` began
  (`seat.reserved` and `seat.confirmed` of one reservation).
- A statement of the relay may fail (`Fault`). When `Mark` fails the row may have
  been written all the same, its reply lost; the catch counts it as a failed
  publish either way.
- `RabbitMqService` opens its channel once, in `onModuleInit`: a lost channel
  stays lost until a restart, so a poisoned row is the normal end of every
  event enqueued meanwhile. `publish` waits for no confirm; whether the broker
  got what the channel took is not the relay's business: that is `FanoutBus`.

`EventLog` forgets rows, stamps, batches and channels: an entry is open until it
is closed or poisoned, may be sent again while it is open, and each failed try
counts. `OutboxRelay` maps onto it by `entry` (from `published`, `poisoned` and
`Committed`) and `tries` (`attempts`).

### CheckoutSaga

A running call of `run` is a record in `call`: `pc` names the awaited command it
will issue next or whose reply it waits for, `reply` the reservation's status as
`beginPayment` returned it, `tries` the failed publishes, `caught` whether
`compensate` was called from a catch block, where its own failure leaves `run`
and does not reach the catch around the charge. `payment` and `saga` are the two
tables, by `idempotencyKey`, which is unique in both.

| Code (`checkout-saga.service.ts`) | Actions |
|---|---|
| lookups 62-80 | `Start`, `FindActive` |
| saga row 82-103 | `Upsert`, `FindSettled` |
| `beginPayment` 105-118, 233-267 | `Ask` in the two above, `BookBegin` (Booking), `GiveUp`, `Open`, `FailWindow` |
| confirmed already 120-132 | `FindApproved`, `Replay` |
| payment row 134-147 | `Create`, `Link` |
| charge 149-194 | `Charge`, `Charged` |
| `publishWithRetry` 335-349 | `PublishApproved`, `PublishFailed`, `PublishFails` |
| end 180 | `Complete` |
| catch 215-228 | `Recheck`, `PostCharge`, `Unwind` |
| `compensate` 297-333 | `Compensate`, `BookCompensate` (Booking), `GiveUp`, `Compensated`, `CompFailed` |
| environment | `BookEvent`, `LoseChannel`, `Restart`, `Fault` |

- A key is used for one reservation (`resOf`). Any key is accepted; the web
  client's `pay-{reservationId}` is the instance with one key per reservation.
- The gateway's answer (`forceFail`) is chosen at `Charge`; where it is read
  makes no difference before.
- A request in `inbox` may be served at any time or never. A caller that gave up
  is struck out of its request (`from = None`), which may still be served:
  that is a timeout in the saga and a success in Booking. `GiveUp` also stands for
  an error reply, a refused reservation and one whose `expiresAt` has passed.
- A statement may throw without effect or with it (the reply was lost).
- `Booking` here is the status a checkout sees: HELD, PENDING_PAYMENT, CONFIRMED,
  or ENDED (expired, cancelled, gone), each handler one step. It expires windows
  and receives each event any number of times. Its own interleavings are in
  module `Booking`, where the saga is `Decide`.
- `Restart` drops all calls; nothing in the service resumes a saga.
- `overlapped` is a history variable: the reservations for which two calls of
  `run` ever ran at once. Five of the properties are stated for the others
  (`Alone`). The condition is necessary, also with one stable key: two calls with
  the same key both find no payment, `createPaymentRow` hands the row of the
  first to the second (283-291), and the second charges again or turns APPROVED
  into FAILED, for the update is by id alone.

### FanoutBus

The four copies of `RabbitMqService` differ in nothing, so there is one module. The
exchange is a fanout and gives every bound queue a copy of every event in one
order: the events form one `log`, and a queue `q` is `copies[q]`, what became of its
copy of each.

| Code (`messaging/rabbitmq.service.ts`) | Actions |
|---|---|
| `onModuleInit` 54-80 | `Start` |
| `publish` 82-110 | `Publish` |
| `subscribe` 112-156 | `Arrival`, `Window` |
| `handleConsumedMessage` 158-219 | `Handle` (handler and ack), `Reject` (the two nacks), `Orphan` (the handler ends after its channel) |
| environment | `Drop` (connection or process) |

- `publish` waits for no confirm: an event may be lost (`Fault`).
- A message whose key the handler did not ask for is acked unread; it is `ignored`
  from the start, because nothing depends on when.
- Up to `Prefetch` handlers of one queue run side by side; they end in any order.
- The inner catch nacks (202) and throws; the outer catch nacks again (216). The
  broker answers a second nack of one delivery tag by closing the channel, and
  nothing reopens it. `Reject` therefore closes it, and what was unacked goes back
  to the queue while its handlers may be running (`orphans`).
- The dead-letter exchange is a fanout as well: a message one queue rejects lands
  in the dead-letter queue of each service that runs.
- A service that never ran has no queue and misses what is published (`missed`).

### SeatEvents

One seat, its holds, the outbox in order, the payment events, and three queues:
`booking_domain`, `trip_domain`, `notification_queue`.

| Code | Actions |
|---|---|
| `create` 129-286 | `Lock`, `Undo`, `Make` |
| `beginPayment` 321-416 | `Open` |
| updates by id at 608, 668, 706 | `EndRow` |
| transaction of `releaseHold` 774-820 | `Release` |
| UPDATE of `healOrphans` 691-772 and of the orphan branch 617-629 | `Free` |
| `onPaymentApproved` 458-570, `onPaymentFailed` 572-643, from the queue | `OnPaymentApproved`, `OnPaymentFailed` |
| `OutboxRelayService` | `Relay` (send and mark, send without mark, poison) |
| `CheckoutSagaService`, publishing | `Settle` |
| `seat-events.consumer.ts` | `OnReserved`, `OnConfirmed`, `OnReleased` |
| `notifications.service.ts` | `TicketsFor`, `NotificationHandles` |

- An action of Booking is one statement or transaction that writes Postgres. Redis
  and what a handler remembers are left out: between its reads and its writes
  anything may happen, so a guard keeps only what stays true once it was (a row
  written by id exists; a window is opened before it ends). Any number of
  handlers interleave, and all that the findings and remarks below describe can
  happen: a row overwritten after its confirmation, a sweep in the middle of a create,
  the release of a checkout that has just begun, two live holds. Which of these orders the code really
  produces is the subject of `Booking`; what holds here holds in all of them.
- `sales` remembers the confirmations that were committed, for the row may be
  overwritten afterwards, and `lost` the events that left the outbox and reached no
  queue. EXPIRED and CANCELLED are both `ENDED`, and both reasons of
  `seat.released` one event: no handler of the seat tells them apart.
- The compensation by RPC is `EndRow`, `Release` and `Free` without an event.
- Of the mails only the ticket is kept. The others go to a fixed address or say what
  no property is about.
- `Handled(q, i)` is the end of a handler with its effect, acked or orphaned;
  `Reject` may lose the effect or (followed by `Orphan` of a window that was not
  acked) repeat it.

### WebCheckout

`shown` is the reservation on the screen, `reserving`, `polls` and `click` the calls
under way: for creating, for the countdown and for each press of "Pagar agora". A
reply is kept in its call until the page takes it, so replies arrive in any order.

| Code (`apps/web/src`) | Actions |
|---|---|
| `use-create-reservation.ts`, `seat-map.tsx`, `use-trip-seats.ts` | `Select`, `Show`, `Refetch` |
| `use-reservation-countdown.ts` | `Poll`, `ShowPoll` |
| `checkout-panel.tsx`, `use-create-payment.ts` | `Press`, `Submit`, `ShowGet`, `Finish` |
| gateway, `rmq-client.service.ts` and controllers | `GiveUpCreate`, `BookAbandoned`, `GiveUpPay`, `ServePoll`, `FailPoll`, `ServeGet`, `FailGet` |
| `create`, `findById`, `getSeats` | `BookCreate`, `Answer`, `SeatsAnswer` |
| `CheckoutSagaService.run` | `Run`, `OpenPayment`, `Charge`, `Abort` |
| `onPaymentApproved`, `healOrphans`, time | `Confirm`, `Drop`, `Expire` |

- One seat of the map. The page keeps one idempotency key per seat, so there is one
  key; `made` numbers the holds Booking makes for it.
- The seconds left are by the browser's clock. The form is shown whenever the status
  allows it, whether or not Redis agrees.
- The form is validated asynchronously between the press and the call, and only the
  call disables the button: a second press may fall in between (`hurried`).
- A run whose caller has given up goes on. The steps of `run` that write are kept
  apart where two runs can meet; `CheckoutSaga` has the others.

## 3. Runs

Bounds: `Holds` (create requests that get past the lookups), `Seats`, `Keys`,
`Workers` (handlers running at once), `MaxBegins` (beginPayment calls per
hold), `MaxFailures` (aborts). All runs but the liveness one use symmetry.
Deadlock is not checked: once the bounds are used up the model has nothing
left to do.

| Run | Instance | Shows |
|---|---|---|
| `booking_races` | 1 hold, 2 workers, 2 begins, 1 abort; 1.2 M states | `ConfirmedOnce`, `SoldIsAnnounced`, `SoldIsFinal`, `EndedStaysEnded` in every interleaving |
| `booking_serial` | 2 holds, 2 keys, 1 worker, 1 `beginPayment` per hold, no abort; 0.63 M states | `TypeOK`, `ReleasedOnce` and `KeepsLedger` (the refinement of `ReservationLedger`) when handlers do not interleave |
| `booking_acquire` | 3 holds, 2 seats, 2 keys, 2 workers, 1 `beginPayment` per hold, no abort, `RivalSpec`; 0.32 M states | `NoDoubleSale`, `ConfirmedSeatIsSold`, `SeatMutex`, `HoldKeepsSeat`, `CountCoversMarket` while nothing gives a seat back |
| `booking_recovery` | 1 hold, 1 worker, 2 begins, 2 aborts, `FairSpec`; 35 K states | `SeatsComeBack`, `CheckoutsEnd` |
| `outbox_relay` | 3 events (two of one reservation), 2 calls, batch of 2, 2 attempts, 2 faults, `FairSpec`; 33 K states | `ImplementsLog`, `CopiesAreFaults`, `InOrder`, `EventsSettle`; deadlock is checked |
| `checkout_saga` | 1 reservation, 2 keys, 2 calls, 2 faults; 1.2 M states | `CompletedIsAnnounced`, `CompensatedIsServed`, `OnlyThrowsSkipCompensation`; without overlapping calls `OneActive`, `ChargedIsVisible`, `ConfirmedIsPaid`, `PaidNotCompensated` |
| `two_payments` | 1 reservation, 2 keys, 2 calls, no fault | violation of `OnePayment` |
| `seat_events` | 2 holds, 1 release per hold, prefetch 2, 2 unsent events, 1 fault, two deployments; 116 K states | `TypeOK`, `NothingVanishes`, `RepeatsAreClosings`, `TicketsAreSales`, `SalesAreTracked`, `SoldStaysSold`; under fairness `ConfirmedGetsTicket`, `SaleReachesSeat` |
| `web_checkout` | 2 clicks, 1 poll, 2 holds, 2 GETs after a payment, 1 fault, `FairSpec`; 147 K states | `TypeOK`, `TicketIsReal`, `ChargedOnce`, `OneCheckoutPerKey`; under fairness `ScreenSettles` |
| `double_sale` | 2 holds, 2 workers, `OrderlySpec` | violation of `NoDoubleSale` |
| `expiry_overwrites_sale` | 1 hold, 2 workers, `OrderlySpec` | violation of `ConfirmedIsFinal` |
| `declined_twice` | 2 holds, 1 worker, `DeclineSpec` | violation of `HoldKeepsSeat` |

Why the bounds suffice. A hold is one request; two holds on one seat are every
kind of rivalry over it. Two workers give every pairwise race; the
properties of `booking_races` are proved for any number of them. Two begins give the
refresh of a checkout under way, after which a row's `expiresAt` and a copy
read by a cron may be older than the hold's. In `booking_recovery` one abort
falls in the request and another in the cron that repairs it.

`booking_acquire` needs a second seat. With one, nothing gives a seat back under
`AcquireSpec` and the first request to pass `UPDATE "Seat"` keeps it, so that every
later one stops there. Seats meet in `availableSeats` and in the Idempotency-Key: a
request that has taken one seat and finds the hold of another under its key puts its
seat back (212-221, `CreateUndo`), in the middle of the other's create, checkout or
sale, and the third request can take what it puts back. `RivalSpec` is `AcquireSpec` with
verdicts as the saga sends them (`DecidedOnce`). In the other Booking runs
one seat is used: what they check is about one reservation, one seat and its
announcements, or fails with one seat already; with two holds the count goes through its clamp
at zero.

In `outbox_relay` three events and a batch of two make an event wait for the
next batch, two attempts poison with the two faults that are allowed, and a
second call meets the flag.

In `checkout_saga` two calls give every race of two requests and, one after the
other, the retry of a checkout that failed, with its own key or another; a
request left behind by the first may be served during the second. With two
faults a call can lose both what it wanted to write and its compensation, or
die and fail again in the retry. Reservations do not interact in the saga, so one
is enough; the proofs cover any number.

In `seat_events` the second hold lets a message about the first come late, and live beside the
first. With prefetch 2 a message overtakes another; two unsent events
let the relay reorder. Three conditions of `MCSeatEvents` keep apart what can be met one by one.
With a second hold there is no fault, one of the two is released and one has the
checkout (`SecondHold`): what a late message does to a later hold needs no fault, and what a fault
does needs one hold. With a fault or a second hold Payment has one answer (`OneOutcome`). Trip and
Notification do not touch each other's state, so each runs with Booking alone, the
other's queue then being that of a service that never ran, and with Notification there is one
hold and no release, for a mail depends on neither (`ForMails`). Two buyers of one seat are left
to the proofs, which have none of these limits.

In `web_checkout` two clicks are a double click, or a click and its retry after a
timeout; the timeout itself is not counted as a fault. One poll at a time and the two GETs
after a payment make three replies that race for the screen. With two holds the
page's key can be used again after its first hold is gone. The fault is a failed GET,
a request to create that is given up, or a run that throws.

`booking_serial` allows no abort: with one it has 3.0 M states, and TLC needs too long for the
step property; nor does `booking_acquire`. The theorems about their properties have any number of
aborts, and `booking_races` has one.

The split between the Booking runs is itself a result. `ReleasedOnce` and `KeepsLedger`
hold with one handler at a time, even with aborts, expired keys and
contradictory verdicts, and are proved; interleaving alone is what breaks them.
`SeatMutex` is no such property: one handler at a time is enough for two live holds of
one seat (remark *Two live holds*). With `HoldKeepsSeat`, `NoDoubleSale` and
`ConfirmedSeatIsSold`, which fail with one handler as well (the sweep frees the seat of a
PENDING_PAYMENT row whose window is over before the row is expired; a late approval then
confirms it), it holds in the part of the service that only takes seats.

### Findings

1. `double_sale`: a release that read its facts before a checkout began frees
   that checkout's seat, a second customer takes it, and both payments are
   confirmed. `docs/architecture.md:88` promises the contrary.
2. `expiry_overwrites_sale`: `update` by id in `expireHolds` (668),
   `healOrphans` (706) and `compensateCheckout` (608) overwrites CONFIRMED; the
   seat stays SOLD and the ticket is sent. `updateMany` with
   `status: PENDING_PAYMENT`, as in `onPaymentApproved`, would not.
3. `declined_twice`: the saga compensates a decline by RPC and by event. The
   second delivery finds CANCELLED and no hold, takes the branch for orphans
   (617-629) and frees the seat by id, although another customer holds it by
   now. The comment at 586 calls the operation idempotent.

4. `two_payments`: the check for an active payment (70) and the creation of the
   row (275) are separate statements with an RPC between them, and only the key
   is unique. `docs/architecture.md:90` promises at most one PENDING or APPROVED
   payment per reservation; it holds only for calls that do not overlap
   (`OneActive`, proved).

### Remarks

Behaviour met while modelling that no run is spent on; the models have it.

- *Compensation.* `run` asks for a compensation when a payment is refused or a
  `try` block around the charge throws. A failure of `setSaga` at 109 (window open) or at 147
  (outside of every `try`) ends the checkout without one, although
  `docs/architecture.md:62` draws one for every error after `beginPayment`; after
  147 a PENDING payment is left that answers all later requests. So does a restart
  there. `OnlyThrowsSkipCompensation` shows that there is no other way.
- *Dead letters.* `docs/architecture.md:95` and rabbitmq.service.ts:44 speak of a
  `{queue}.dlq` of one's own; through the fanout each of them gets the rejected
  messages of all services, and nothing consumes them.
- *The second nack* closes the channel of the service, for publishing as well; the comment
  at 216 expects it to be harmless. Only a new start of the process
  subscribes again.
- *Late releases.* A delayed `seat.released` of an earlier hold frees the seat of the
  present one (consumer 73-85), without any fault: the consumer compares the seat's
  status and not its hold. If the new hold is then paid for, `onPaymentApproved`
  finds the seat AVAILABLE, confirms all the same (519-524), and the seat is for sale
  until `seat.confirmed` is projected. A sweep, a stale release and a repeated compensation lead
  there as well. `SalesAreTracked` says that until then the confirmation is on its way
  (or forfeited), and `SaleReachesSeat` that the state ends.
- *Two live holds.* `tryCreate` sets the seat key before the hold key, so it lapses first, if
  only by milliseconds. In between the sweep may free the seat and a new hold take it; a second
  `beginPayment` of the first hold then still finds its hold key and its PENDING row,
  compares no expiry, and refreshes the hold: two live holds of one seat, with one
  handler at a time (`MaxBegins = 2` with one worker). Three holds do it with no
  `beginPayment` at all: the expiry of the first calls `delete`, which takes away the seat
  key of the second without a look at whose it is (hold-store.service.ts:134), and frees the
  seat by id; a third hold finds seat and key free.
- *A reserved screen for ever.* When an unpaid hold is gone `findById` answers 404,
  which the countdown ignores: the page shows RESERVED with 0:00 and polls on. The same
  happens never to a checkout, which has a row (`ScreenSettles`).
- *"Escolha outro assento"* is shown for CANCELLED and EXPIRED, but the map stays
  disabled as long as there is a reservation (booking-client.tsx:127).
- *The retry of a lost create* (use-create-reservation.ts:17) is hard to reach: the map
  is fetched again after the error, and the seat, held by the lost request, cannot be
  clicked.
- *Double click.* "Key estável por reserva: double-click / retry não cria 2º
  pagamento" (use-create-payment.ts:36) is right about the row. Two runs at once with
  that key share the row (`createPaymentRow`, 283-291) and both charge;
  `ChargedOnce` says when two runs meet, and that nothing else charges twice.
- *Timeouts.* The gateway waits 15 s; the saga alone may wait longer for Booking and the
  retries of its publish. The page then shows an error beside a
  payment that goes through; the error text stays when the ticket appears.
- `findById` answers RESERVED for a CONFIRMED row until its hold is deleted; the
  client never sends `forceFail`, so its "Pagamento não aprovado" cannot appear.

### Fairness

`FairSpec` assumes that a handler that runs proceeds (`WF(Proceed)`: the event
loop runs every continuation, a command that never returns is an abort), that
time passes and Redis drops expired keys, and that the crons tick for ever:
each due id, each due row and each HELD seat that a tick keeps finding is
taken up again and again. The last is strong fairness only because the model
gives a cron a worker from a bounded pool; in the code a tick needs none.
Nothing is assumed of customers, of the saga or of message delivery.

`OutboxRelay!FairSpec` assumes that a call of `flush` that runs proceeds, and
that the cron calls `flush` every second. Commits, faults and restarts are not
fair.

`SeatEvents!Fairness` assumes that, while the channel of a service is open, its
handlers end one after the other and, in Booking, the relay's cron goes on. Nothing is
assumed of Booking's other statements. A channel that is gone stays gone (`Start` is not
fair: no restart policy is configured), and the liveness properties say so in their conclusions.

`WebCheckout!Fairness` assumes the browser's timers, the promises that follow a
reply, that GETs are answered (or fail), and that a hold ends. Payment may never answer, a confirmation may never come, and
nobody has to click.

## 4. Proofs

`BookingProofs` proves, for every set of holds, seats, keys and handlers and
all bounds (assumptions: `None` is not an id, the set of seats is finite, the
bounds are numbers):

- `TypeCorrect`: `Spec => [](TypeOK /\ SubjectOK)`. `SubjectOK`, that a handler
  works on a minted hold, or on a seat when it sweeps, is what makes `TypeOK`
  inductive: without it `seatOf[task[w].on]` need not be a seat. One lemma per
  handler, on top of four lemmas about how a handler moves.
- `SoldSeatsStaySold`: `Spec => SoldIsFinal`.
- `EndedCheckoutsStayEnded`: `Spec => EndedStaysEnded`.
- `ConfirmedAtMostOnce`: `Spec => []ConfirmedOnce`.
- `SoldSeatsAreAnnounced`: `Spec => []SoldIsAnnounced`.
- `ConfirmedStaysConfirmed`: `Spec => ConfirmedIsFinal`, if there is one handler.

All but the first rest on `WritersOnly`: a step changes `Seat`, `Reservation` or
`OutboxEvent` only if it is one of eleven named actions, so that each proof
looks at those. `SoldSeatsAreAnnounced` further needs that a minted hold keeps
its seat (`KeepsStep`), and `ConfirmedStaysConfirmed` that what a handler about to
end a checkout has read is still so (`SeesOpen`).

`BookingAcquireProofs` proves, under `AcquireSpec`, again for any number of holds,
seats, keys, handlers and aborts, that `AcquireInv` always holds (`AcquireInvariant`).
A hold takes its seat (`Taken`) from `UPDATE "Seat"` on, while its create runs, while it
lives in Redis, has a row, or a `beginPayment` is about to write either. The parts:

- `OneTaker`: a seat is taken by one hold at most. It gives `NoDoubleSale` and
  `SeatMutex`.
- `TakersHold`: what is taken is off the market. It gives `HoldKeepsSeat`, is what lets
  `CreateLock` preserve `OneTaker`, and lets `ApproveConfirm` find the seat held, hence
  `ConfirmedSeatIsSold`.
- `OneCreate`: a hold is created by one handler and does not live before it is written;
  so the undo of a create gives back no seat that another hold has taken.
- `Counted`: `availableSeats` covers the market and every create that has passed
  `UPDATE "Seat"`, each of which may put a seat back or pay for one. It gives
  `CountCoversMarket`.

`BookingLedgerProofs` proves, from the same assumptions on the constants:

- `LedgerIsKeptLoosely`: `Spec => Ledger!LooseSpec`, for any number of handlers. `LedgerStep`
  sorts the steps of `Booking` into the actions of the ledger and stutters. It needs
  `RowsSeen`: what ends a checkout by id has a row to end.
- `SeatsAreReleasedOnce`: `Spec => []ReleasedOnce`, if there is one handler. `ReleasedOnce`
  is not inductive: nothing in `releaseHold` looks at what was announced. `ReleaseInv`
  adds that a hold in Redis, or one a handler has found there and is about to release or put
  back (`WillRelease`), has not been released, and that a handler about to commit a release
  has deleted its hold. With two handlers these parts fail, and so does the property: two
  compensations that have both read the hold release it twice.
- `LedgerIsKept`: `Spec => KeepsLedger`, if there is one handler. `SeesOpen` (of
  `BookingProofs`) makes every `Close` the close of an open reservation, `ReleaseInv` every
  `Return` the first.
- `LedgerIsKeptStrictly`: `AcquireSpec => Ledger!StrictSpec`, any number of handlers. A seat
  to be confirmed is taken (`TakersHold`), so it is HELD or SOLD. Were it SOLD, then to an
  announced hold (`SoldIsAnnounced`), whose row is no longer open (`ConfirmedOnce`); but it
  would be this very hold (`OneTaker`), whose row is.

`OutboxRelayProofs` proves, for every finite set of events, every order between
them, all batch sizes and all bounds:

- `RelayInvariant`: the inductive invariant `IInv`. Its parts: `TypeOK`;
  `OneFlush` (at most one call runs, and only with the flag set), which is what
  makes copies trustworthy; `FreshCopies` (the `attempts` of a copy are those of
  the row), without which a record of a failure could take attempts back;
  `Ordered` (stamps are distinct and respect `After`) and `BatchInOrder` (if a row
  of the batch is left, so are its unsettled predecessors), which give `InOrder`;
  `Settled` (what is published was sent, what is not poisoned is below the limit);
  `CopiesPaid`, `CopiesAreFaults` with the copy that is about to be marked
  counted apart.
- `RelayTypeCorrect`, `NoFreeCopies`, `EventsInOrder`: `TypeOK`,
  `CopiesAreFaults` and `InOrder` always hold.
- `RelayImplementsLog`: `Spec => ImplementsLog`, every action of the relay is the
  action of the log it stands for or a stutter.

`CheckoutSagaProofs` proves, for every set of reservations, keys and calls (they
may be infinite) and every number of faults, that the inductive invariant `IInv`
always holds (`SagaInvariant`), and from it `TypeOK`, `SettledIsFinal` (a payment that is
approved or declined is never changed, where calls do not overlap) and all properties of
`checkout_saga`. Its parts:

- `Callers`: a request somebody waits for is that of the call that waits.
  Without it a reply could put a call anywhere.
- `Announced`: a call about to complete has published or was told CONFIRMED, and
  Booking confirms only what was announced. It gives `CompletedIsAnnounced`.
- `Served`: a call that was told of the compensation finds the window closed; it
  stays closed. It gives `CompensatedIsServed`.
- `OneCall`: where calls do not overlap one call works on a reservation, so that
  what it read is still true when it writes. `AllKnow` then says what a call at
  each point knows of its payments and its saga (`Knows`); it gives `OneActive`,
  `SettledIsFinal` and `PaidNotCompensated`.
- `AnnouncedIsPaid` and `NotHidden` carry this past the end of the call; they give
  `ConfirmedIsPaid` and `ChargedIsVisible`.
- `AllTrack`, beside `IInv`: a call that asked for a compensation, or found the
  reservation paid, did so, and before its window it has no reply. It leaves only
  throws to the steps that end a call otherwise (`OnlyThrowsSkipCompensation`).

One lemma per action, on top of lemmas about how a call moves and what it writes.

`FanoutBusProofs` proves, for every set of queues, events and interests, every
prefetch and number of faults, that the inductive invariant `IInv` always holds
(`BusInvariant`). Its parts: `BusTypeOK`; `OrphansAreDown` (only a closed channel leaves
handlers behind); `AllKept`, which for each copy bounds the effects it had by the
closings, counting the handler that may still be running, and ties its state to
the dead-letter queue. `NothingVanishes` and `RepeatsAreClosings` follow.

`SeatEventsProofs` shows first that every step of the system is a step of the bus or
leaves it alone (`StepsAreBusSteps`), hence `Spec => BusSpec`, and cites the two bus
theorems. On top of `IInv` and `TypeOK` the invariant `SInv` has three parts. `Truth`: every event,
in the outbox or in the log, says what was committed (`True`): `seat.confirmed` is about a
sale, `payment.approved` about a hold Payment has approved; tickets are about sales, and the row
of a sale is CONFIRMED or was overwritten. It gives `TicketsAreSales`. `Tracked`: the
confirmation of every sale is in the outbox, lost or in the log, for the transaction that makes
the sale appends it, and the relay takes an event out only to route it, to put it back or to lose
it. `Delivered`: where a copy of a confirmation was handled, the seat is SOLD (no statement and no
handler takes that back) or the ticket is mailed. With the bus's invariant, by which an acked copy was
handled and an ignored one not asked for, the last two give `SalesAreTracked`.

The proof sorts what Booking does into `Writes`; three lemmas say what such a step
does to the types, to the outbox and to rows that are open no more, and from them it preserves
the invariant whether it comes from a handler of the bus or not. `SoldStaysSold` follows from the
same lemmas. Holds, releases, unsent events, prefetch and faults are arbitrary.

`WebCheckoutProofs` proves, for any number of clicks, polls, holds and faults, that the
inductive invariant `IInv` always holds (`WebInvariant`), and from it `TypeOK`,
`TicketIsReal`, `ChargedOnce` and `OneCheckoutPerKey`. Its parts:

- `Placed`: calls about a reservation are under way only with one on the screen, those
  that make one only without. So a late reply is about the reservation that is shown.
- `Truthful`: no reply under way and nothing on the screen says CONFIRMED of a
  reservation Booking has not confirmed; what Booking has confirmed was approved and
  charged.
- `OneHold`: the page's key has one live hold, and its own if there is a checkout.
- `OneClick`: without a double click or a timeout one click is under way, and a run of
  the saga belongs to a click that waits for it.
- `OneRun`: unless two runs met, one runs at a time and finds nothing charged.

That every call of `run` ends is not checked: liveness over the states of
`checkout_saga` takes TLC too long, and in a smaller instance only the timeouts of
the RPCs, which the model assumes, would be at work. Liveness is out of the prover's
reach and stays with TLC (`SeatsComeBack`, `CheckoutsEnd`, `EventsSettle`,
`ConfirmedGetsTicket`, `SaleReachesSeat`, `ScreenSettles`). Every invariant and
every action property of the passing runs is the statement of a theorem. What the violation
runs refute is a theorem only in a part of the system: `NoDoubleSale` and `HoldKeepsSeat` under
`AcquireSpec`, `ConfirmedIsFinal` with one handler, `OneActive` in place of `OnePayment`.

## 5. Not modelled, and what could come next

- Redis together with the bus: `SeatEvents` has every order of Booking's statements, those
  included that the keys in Redis exclude. `Booking` composed with the bus command by
  command is beyond TLC for two holds.
- `LIMIT 100` and `take 50` of the crons (hazard at 733): with more than 100 held
  seats that cannot be freed yet, a seat may wait; no bound small enough for TLC shows it.
- Trip search, order lookup, `findById` of payments, health: they keep no state.
- The search form, the order page, validation and input masks of the form, the city list.
- Metrics, tracing, DTO types, the documentation site, mail texts, SMTP.
- That every call of `run` ends (liveness over a smaller saga).
