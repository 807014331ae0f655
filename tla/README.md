# Verification of payments-boilerplate

TLA+ modules for the way of money through this repository, from a request or a
provider event at the HTTP boundary, over inbox, outbox, broker and consumer, to
orders, payments and attempts, and for what stands around it: the rate limiter, the
settings and the life of the two processes.  TLC checks small instances; TLAPS
proves the central results for every value of the constants.

Paths below are relative to the repository root.

## The system

A payments backend of two processes that share PostgreSQL and RabbitMQ and run
in any number of copies:

```
client --- POST /orders, /checkout ---> api ---> orders, payments, payment_attempts
provider - POST /webhooks/stripe -----> api ---> webhook_events + outbox_events   (one transaction)
                                                       |
                         worker: relay  <--- lease ----+
                                   | publish, confirm
                                   v
                               RabbitMQ: payments.webhooks  <---- TTL ---- retry tiers
                                   |                                          ^
                         worker: consumer pool --- transient failure ---------+
                                   |                --- terminal / budget ---> DLQ
                                   v
             webhook_events + orders + payments + payment_attempts            (one transaction)
operator - POST /webhooks/events/{id}/reprocess ---> webhook_events + outbox_events
```

### Inventory

| component | state it keeps | operations | what is hard | what makes it correct |
|---|---|---|---|---|
| outbox relay (`internal/application/outbox`, `repositories/outbox.go`, `db/queries/outbox.sql`) | `outbox_events`: status, attempts, lease owner and deadline, next attempt | lease a batch, publish with confirm, settle (published, retry, failed) | several relays, two clocks, a pause longer than the lease, lost confirms and lost database replies, a crash in the middle of a batch | published only if a queue took the message; nothing abandoned that could be encoded; no concurrent publication of one message; only the holder settles; every message is settled in the end |
| transition matrix (`domain/payments/transition.go`) | none | `Decide` | events in any order and more than once | total over the states reached, idempotent, never drops a success |
| payment aggregate (`repositories/payments.go`, `repositories/events.go`, migration 00002) | `orders`, `payments`, `payment_attempts` and their partial unique indexes | open a payment and an attempt, attach a session, apply an outcome | checkout racing events, matrix and WHERE clauses written twice | paid iff succeeded; one active payment and attempt; settled is final |
| event consumer (`internal/application/consumer`, `rabbitmq/consumer.go` `handle`) | `webhook_events`: status and attempts; queue, retry tiers, DLQ | process, record failure, republish, ack | redelivery, duplicates, commit whose reply is lost, channel closed under a worker, budget | applied at most once; a pending event still has a message; a failed one is visible; every event closes |
| consumer session (`rabbitmq/consumer.go` `Run`, `consume`) | channel, prefetch slots, worker pool, error buffer | open, dispatch, end, drain, stop | two nested selects, workers that exit, shutdown | no silent slot leak; drain and shutdown finish; an error ends the session |
| webhook reception (`internal/application/webhooks`, `repositories/webhooks.go`) | `webhook_events`, `outbox_events` | store pending, store ignored | concurrent arrivals of one event, provider retries | event and message exist together, once |
| operator replay (`repositories/operations.go`) | the same rows | list, reprocess | replay while a worker or a relay is still busy with the event | no second effect, no lost event |
| checkout (`internal/application/payments`) | none of its own | create or resume a hosted session | idempotency keys, provider call between two transactions | one live session per order, replay returns the same session |
| orders (`internal/application/orders`) | `orders` | create once per key | concurrent keys, int64 amounts | one order per key, no overflow |
| AMQP connection and publisher (`rabbitmq/connection.go`, `publisher.go`) | connection, channel, returns buffer | publish, reconnect | shared socket deadline, a stale return blamed on the next message | nil only after a confirm with no return |
| Stripe adapter (`adapters/payments/stripe`) | none | translate events, create a session | completed is not paid | books agree with the provider |
| rate limiter (`internal/platform/ratelimit`, `transport/http/ratelimit.go`, `clientip.go`) | buckets, LRU list | allow, expire, evict, name the client | clock read outside the lock, headers the sender writes, reclaimed buckets | never more than the rate, never less than owed, announced retries admitted, idle buckets go |
| HTTP transport (`transport/http`) | requests in flight | gate, operations, drain | many requests at once, lost answers | 2xx only after commit |
| configuration (`platform/config`) | the settings | accept or refuse | limits that depend on each other | what the other parts assume of the numbers |
| worker and api runtime (`internal/runtime`) | process life cycle | start, retry, supervise, stop, close | one part dying, a signal at any time, an absent broker | all stop together, nothing outlives its connection |

Observing only, and left out: metrics, logging and traces (their start and stop are
part of the runtime).  Not part of the deployed system: sandbox, migration command,
test tools.

## Modules

| module | models | extends / instantiates |
|---|---|---|
| `AtLeastOnce` | abstract specification of the outbox: delivered before recorded, record final | |
| `Outbox` | the relay cycle of every worker process, the lease statements, the publisher's results, time | instantiates `AtLeastOnce` (refinement) |
| `Transitions` | `Decide` and its four tables, as operators | |
| `Ledger` | the transactions on orders, payments and attempts | extends `Transitions` |
| `Checkout` | a checkout request statement by statement, the provider's session, the consumer in between | extends `Ledger`, refines it |
| `Consumer` | one event's whole life: reception, relay (as `AtLeastOnce`), queues, workers, operator | extends `Ledger`, instantiates `AtLeastOnce` |
| `Dispatch` | a consuming session: dispatcher, pool, prefetch, drain, shutdown | |
| `Publisher` | a publication on the AMQP connection: mutex, deadline, channel, returns buffer, confirmation | |
| `Stripe` | event names, kinds and outcomes, as operators | used by `Checkout`, `Api` |
| `Orders` | validation, catalog and the amount's arithmetic, as operators | used by `Api` |
| `Api` | every operation of the HTTP contract but checkout, statement by statement | extends `Orders`, `Stripe` |
| `Config` | what `config.Load` accepts, as predicates | used by `Runtime`, `RateLimit` |
| `RateLimit` | one limiter of any of the four kinds, its callers and the identity it counts | extends `Config` |
| `Runtime` | both processes from start to exit, the worker around its consumer | extends `Dispatch`, `Config` |
| `OutboxProofs`, `LedgerProofs`, `ConsumerProofs`, `CheckoutProofs`, `ApiProofs`, `PublisherProofs`, `RuntimeProofs`, `RateLimitProofs` | theorems | extend the module they are about; those of `Consumer` and `Checkout` also `LedgerProofs` |
| `MCOutbox`, `MCCheckout`, `MCConsumer`, `MCDispatch`, `MCPublisher`, `MCRuntime`, `MCRateLimit`, `MCApi` | TLC instances | |

`Outbox` and `Consumer` meet in `AtLeastOnce`: the first is proved to implement
it, the second uses its actions in place of the relay.  `Consumer` and `Checkout`
meet in `Ledger`: both are proved to implement it.
`Runtime` composes the consumer's session with the process around it.  `Api` and
`Consumer` meet in the two rows of an event: each has the other's steps as
external or atomic ones (`RelayMoves` and `ConsumerCloses` there, `StorePending`,
`StoreIgnored` and `Reprocess` here).

### Outbox

State: the columns `status`, `lockedBy`, `lockLeft` (locked_until), `dueIn`
(next_attempt_at), `attempts`; per relay the locals of `runOnce` and `publishOne`
(`pc`, `todo`, `cur`, `result`), its publication window `left` and its settlement
timeout `settleLeft`; `accepted`, what queues of the broker have taken.

`Lease`, `LeaseReplyLost` and `LeaseError` are `OutboxRepository.Lease`;
`PublishNext` and `EndCycle` the loop of `runOnce`; `BrokerTakes` and the three
`Publish...` actions `Publisher.Publish`; `Settle`, `LeaseLost`, `SettleError`,
`SettleReplyLost` the function `settle` with the three Mark statements.  A reply
that is lost after the statement committed is an action of its own.

Time is a countdown per deadline and `Tick` decrements all of them, so behaviours
are infinite and the state is finite.  PostgreSQL's clock and the process's
monotonic clock run at the same speed and are never compared as instants, which
is how the code uses them.  `Prompt` is the set of relays that react before their own
contexts end; any other relay may sleep anywhere for any time (a GC pause, a
suspended VM).  A restarted process has a new identity, so `Crash` is for
good and another relay stands for the restart.

### Ledger

`OpenAttempt` and `OpenPayment` are the two ways `prepareCheckout` commits,
`AttachSession` is `SaveSession`, `ApplyOutcome` is `lockAggregate`, `decideEffect`
and `applyEffect`.  `FindPayment` takes no lock, as in `createOrGetActivePayment`:
an attempt may open under a payment that has failed in the meantime.  The
generated ids are the sets `Payments` and `Attempts` with their foreign keys as
constant functions; a row that does not exist yet is "absent".  The statuses
cancelled, refunded and partially_refunded are written by no code and not reached.

### Checkout

A request's `pc` names the next statement of `CreateCheckout` and `prepareCheckout`:
lookup, payment, find, attempt, refind, commit, prepared, provider, attach, save.  Rows
inserted but not committed are in `fresh`; they are invisible to others, and an insert
that would meet one of them waits, as `ON CONFLICT DO NOTHING` does under READ
COMMITTED.  `Commit` writes them to the ledger's tables.  The provider keeps one session
per idempotency key, and a key has one attempt, so `session` is indexed by attempt;
`said` holds the events it has sent, a name and the session's payment_status at the
time, which `Consume` translates (`Stripe`) and applies in any order and repeatedly.  A
session completes paid, or unpaid and is settled by a later event.  `Abort` is every failure that leaves nothing behind, `CommitReplyLost`,
`ProviderReplyLost` and `SaveReplyLost` those that do.  A foreign-key lock keeps the
consumer from a payment under which an attempt is being inserted; nothing keeps it from
one that has only been read.

### Consumer

A worker goes idle, process, (record, retry or dead,) ack.  `Process` commits;
`CommitReplyLost` commits and reports an error; `ProcessError` rolls back;
`ProcessTerminal` is one of `terminalErrors`.  `Record` is `classify` with
`RecordWebhookEventFailure`.  `Republish`, `RepublishFails`, `RepublishUnconfirmed`
are the three results of `republish`.  `ChannelLost` requeues a delivery under a
worker that is still at work, which is what happens to every other worker when one
worker's error closes the session.  `owned` says whether the delivery is still the
worker's to acknowledge.  `Reprocess` is the operator's transaction; it requires the
outbox row to be settled because `ResetOutboxForReplay` otherwise matches no row and
the transaction rolls back.

Left out: message bodies that cannot be read (the relay writes none), the length of
a retry tier's delay, and the observers.

### Dispatch

Messages are counted.  `disp` is the dispatcher's place in `Run` and `consume`: the
outer select, the inner one (`handoff`) with a delivery in hand, the deferred drain,
the backoff.  `errors` is the buffered channel `workerErrors`.  The prefetch is chosen
in `Init` among `Prefetches` and never changes.

### Runtime

`stage` is where `main` and `Run` are; `defers` the stack of deferred closes.  A
process loads its settings, which `Config` accepts or not, opens telemetry, database
and broker (`retry.Do`: an attempt, a timer, until the start-up context is done) and
starts its components.  The worker's are the consumer, whose steps are those of
`Dispatch` under `On`, the relay and the samplers as `loops`, and the health server; the
API has its server alone.  `Signal` may come at any moment, start-up included;
`ServeFails` is the only error that ends the group.  `ServerStops` is `Shutdown` with
its deadline and the forced `Close`.  Handlers left behind by it, or by a server whose
`Serve` failed, are the exception `NothingUsedAfterClose` makes.

### Config

The checks of `Load` and of the API's start as predicates on a record of settings.  They
are what the other modules' numbers rest on: a lease longer than a batch's publications
(`TimeAssumption` of `Outbox`), a prefetch no smaller than the concurrency, a budget of
at least two, a TTL no shorter than any interval.  The runs start from settings of both
kinds, and only the accepted ones get anywhere.

### RateLimit

A caller reads the clock (`Arrive`), waits for the mutex and then runs `Allow`: `expire`,
look-up or `evictIfFull`, `take`.  Time is relative, as in `Outbox`: `age` of a bucket
since its updatedAt, `stale` of a caller's reading, so a reading older than updatedAt
is a negative difference.  Credit is counted in ticks of refill: a token is worth
`TokenInterval` ticks, so sums are exact where the code adds float64: the results hold of it
up to that rounding, which shows at most at the very nanosecond a token is due.  `Resolve` walks
X-Forwarded-For from the right; `Arrivals` enumerates what a client can make of it,
straight or through one or two of our proxies.  The ghosts `owed` and `dated` are two
ideal buckets per client, one for what it must get and one for what it may get at most.

### Stripe and Orders

Pure operators.  `Interpret` is the translation of a stored event, name to kind to
outcome; anything else is `Unreadable`.  `multiply` keeps the integer's width: the check
comes before a multiplication that wraps.

### Api

A request has an operation, an argument and whether it is genuine (key or signature)
and decodable.  `Refusals` is the gate: limiter, decoding, credential.  A request that is
refused, or answered before its first statement, changes nothing and is not enumerated
further.  The others run statement by statement: `InsertOrder`, `FindOrder`;
`StoreEvent`, `InsertMessage`, `CommitEvent`; `LockEvent`, `ResetRows`; and the reads.
Uncommitted inserts make a concurrent insert of the same event wait (`Uncommitted`), row
locks make a second replay, the relay and the consumer wait or skip (`Locked`).  `Fail` is any
statement's error, `ok = FALSE` a statement that commits without its reply,
`AnswerLost` and `Crash` the rest.  The checkout operation is `Checkout`.

### Publisher

`longLived` is chosen in `Init`: `Publisher.Publish` keeps a channel between calls,
`Consumer.republish` opens one for each.  A caller's `pc` goes through `withDeadline`
(lock, connect), `ensureChannel` (check, open, setup), `drainReturns`, send, wait and
`takeReturn`.  The broker's answer travels as `frames` that the driver's reader hands over
in order, a return into the buffer `buf` of one slot, a confirmation into `confirm`.
`ChannelDies` and `ConnectionDies` may come between any two steps; the driver then
refuses the open confirmation and closes the returns channel.  `Warmed` is `Warm`, which
is `Publish` up to the drain.  `Cleared` is the deferred `clearLimit`: a success on a
connection that has died meanwhile may be reported as an error.  `took` and `gave` record what became of the message.

## Runs

| run | bounds | shows |
|---|---|---|
| `outbox_prompt` | 2 prompt relays (one may crash), 2 messages (one unencodable), batch 2, lease 2 ticks, reserve 1, backoff 1 | `ExclusivePublication`, and with fairness `EveryMessageSettles` |
| `outbox_pauses` | the same with one prompt relay, lease 3, backoff up to 2 | `PublishesUnderLease`, `OnlyHolderSettles`, `ImplementsAtLeastOnce`, next to a relay that pauses |
| `checkout_one_order` | 2 orders, 2 payments of the first and 1 of the second, 3 attempts, 2 requests at a time, 2 keys, every event of the provider | `OneSessionPerPayment`, `SameKeySameSession`, `AnswersOwnOrder`, `BooksMatchProvider`, `ImplementsLedger`; of the ledger `PaidIffSucceeded`, `MatrixAgreesWithSchema`, `SuccessNeverIgnored` |
| `checkout_one_session_per_order` | 1 order, 2 payments, 3 attempts, 3 keys | finding 3 |
| `consumer_one_event` | 2 workers, 1 event of any content, budget 2, 1 extra copy, 1 replay | `UnresolvedIsVisible`, `AppliedAtMostOnce`, and with fairness `EveryEventCloses` |
| `consumer_two_events` | 1 worker, a success or an expiry and a failure of one attempt and an unencodable event, budget 2, 1 extra copy, 1 replay | `PendingIsDriven`, `SuccessBooked`, `PaidHasCause`, `AttemptsExplainPayment`, `ImplementsLedger` |
| `consumer_processed_is_final` | 1 worker, 1 event | finding 1 |
| `runtime` | worker and API, 11 settings of which 3 are accepted, 2 workers, prefetch 2 or 3, 3 messages, 1 request | `SlotsAccounted`, `NothingUsedAfterClose`, `NarrowErrorEndsSession`, `BrokerNotRequired`, `ProcessStops` |
| `dispatch_stall` | prefetch 3 | finding 2 |
| `publisher` | 2 callers on one connection, either kind of channel | `NilMeansTaken`, `NoStaleBlame`, `ReaderNeverWaits`, `EveryCallEnds` |
| `ratelimit` | 3 limiters, burst 1 or 2, interval 2 or 3, capacity 1 or 2, TTL 0, 2 or 3, 2 callers that wait up to 2 ticks, an IPv6 client and a proxy | `RateUpheld`, `NeverDeniesWrongly`, `RetryIsAdmitted`, `IdleReclaimed` |
| `api` | 2 handlers, 1 idempotency key with 6 bodies, 4-bit integers, 1 handled and 1 unhandled event, 2 replays | `StoredTogether`, `AckedIsStored`, `OneOrderPerKey`, `AmountsExact`, `ReplayOnlyRepairs`, `EveryEventAccepted` |

Why these bounds are enough for the cases that matter.  Outbox: two relays and a
lease of three ticks (two, where liveness makes the run dear) let one relay lose its lease while publishing and another take
the row over and settle it; a batch of two leaves a lease behind when the window
closes; the exponent is capped where the backoff saturates.  What does not depend on
the numbers is proved for all of them.  Checkout: two payments of one order and two
attempts of one payment are the smallest instance in which an old attempt, a failed
payment and a new one coexist; requests
come one after the other without limit, so two at a time give every race of two; the
second payment is the one opened after the first has failed, and the second order is there
for a key that is used twice.  Requests and keys are
interchangeable, which TLC uses as a symmetry.  Consumer: a budget of two has a first and a last
attempt (the configuration requires more than one); one copy more than the event needs and
two workers give every race of a duplicate with its original.  A replay is enough to have
two generations of one event in the queues.  `MaxCopies` bounds duplicates nobody
asked for (a repeated publication, an unconfirmed republication), never the requeue
of an unacknowledged delivery.  Runtime: two workers can fail together, and prefetch
one above concurrency is the smallest with a delivery in hand and no worker; one request
is enough to outlast a drain.  RateLimit: two readings can be out of order, a skew of two
is longer than a token's interval, and the accepted TTLs include the shortest one; the
fourth limiter is built like the first.  Api: two handlers give every race of two, and
requests follow each other without limit; with four bits a product wraps to a small
positive amount, as it would with 64.
Publisher: messages follow each other without limit, and the mutex keeps all callers but
one out, so two callers show both the operation and the wait for it.

Deadlock checking is off where the system may come to rest: when all attempts are
open and all events are closed, after shutdown, or when every caller waits for the one
that spins in `drainReturns` (see Findings).  The relay, the limiter and the API never
rest, and are checked for deadlock.

### Fairness

* `Outbox`: time advances; a relay that survives keeps taking its steps (`Run` loops
  until cancelled); a lease statement, a publication and a settlement that are tried
  again and again succeed in the end: outages are not for ever.
* `Consumer`, for each event: the same for publication, delivery, the handling of a
  delivery with any result, the recording of a failure, and a confirmed republication (strong fairness,
  because each may fail any number of times first); retry tiers expire and workers
  settle (weak).  Nothing is assumed about `Process` succeeding: the budget is what
  ends the retries.
* `Dispatch`, in `Runtime` and in `dispatch_stall`: goroutines are scheduled, `handle`
  returns because every call in it has a deadline, and Go's `select` picks at random among
  the ready cases, so a case that is ready again and again is taken (strong fairness on the
  select's cases).
* `Runtime`: timers fire, attempts end one way or the other, and a retry loop that finds its
  context done again and again does not always prefer its timer (strong fairness on
  `RetryGivesUp`).  Nothing says that an attempt succeeds, that a request ends or that a
  signal comes.
* `Api`: a handler goes on or fails, and its answer arrives or not (weak); the provider
  sends an event again until it sees a 2xx (strong: the limiter may refuse it many times).
  `EveryEventAccepted` is about deliveries that stop failing: its premise is that from some
  point on no delivery of an event that is still wanted meets an error, a lost answer or a crash.
* `Publisher`: goroutines run, contexts and socket deadlines expire, and a waiter gets the
  `sync.Mutex` if it is free again and again (strong fairness on `Lock`; Go's mutex hands
  itself over to a starving waiter).  A synchronous call without a deadline is answered or
  fails, because heartbeats end a silent connection.  Confirmations may stay out for ever.

## Findings

1. `RecordWebhookEventFailure` (`db/queries/consumer.sql:109`) has no condition on the
   status.  When the commit of `Process` takes effect but its reply is lost, or when a
   duplicate's `Process` fails before it reads the row, and that attempt spends the
   budget, a processed event becomes failed and is dead-lettered although its effect
   is committed.  ADR 0013 says the second pass leaves as a no-op.  The ledger is not
   affected (`AppliedAtMostOnce`, theorem `Idempotent`); the operator sees a failure that
   is none.  When the redelivered copy has been acknowledged in between, that failure is
   in no queue at all, against `internal/application/consumer/ports.go:139`;
   `UnresolvedIsVisible` shows that this only happens to events whose outcome is booked.
2. With `Prefetch > Concurrency`, which the configuration allows, the dispatcher can
   hold a delivery in its inner select when every worker has exited with an error.  It
   then sees neither `workerErrors` nor the closed channel until the process is
   stopped (`rabbitmq/consumer.go:231`).  With the default, prefetch equal to
   concurrency, this cannot happen (`NarrowErrorEndsSession`): every slot is taken by a
   worker or by its error.
3. `createOrGetActivePayment` reads the active payment without a lock
   (`repositories/payments.go:106`).  The consumer may fail that payment before the
   attempt is inserted.  The attempt and its session then open under a failed payment,
   and the next request, finding no active one, opens a second payment with a session of
   its own: two payable sessions for one order, against the "barrier against double
   charging" of migration 00002.  Per payment the barrier holds (`OneSessionPerPayment`).

Seen while modelling, and stated as the exception or the slack of a property, or in the
model, rather than as a run:

* `drainReturns` (`rabbitmq/publisher.go:203`) receives in a loop until nothing is ready.
  When the driver closes the channel after `ensureChannel` has looked at it and before the
  drain, the closed returns channel is always ready and the loop never ends: the relay
  spins with `Publisher.mu` and `operationMu` held, whatever `PublishTimeout` says.
  `EveryCallEnds` shows that this is the only way for a call not to return.
* `Connection.channel` dials again when the connection has died inside `withDeadline`; the
  new transport has no operation deadline (`connection.go:193`).  The call still ends, with
  the driver's own timeouts or the heartbeat.
* `republish` (`rabbitmq/consumer.go:401`) receives from the returns channel without asking
  whether it was closed, so a channel lost right after the confirm is reported as "not
  routed".  The message is then sent again, which the consumer tolerates.
* A clock reading that reaches its bucket late sets updatedAt back (`bucket.go` `take`), and
  the next request is credited for that time again: a client gains the time its requests
  wait for the mutex.  `RateUpheld` counts it (`dated`); nobody ever loses
  (`NeverDeniesWrongly`).
* `interval / burst` is truncated to whole nanoseconds, so the sustained rate may be higher
  than Burst per Interval by that rounding; `Full` in the model is the truncated one.
* The comment at `limiter.go:118`, "everything ahead of it is younger still", is inexact for the same
  reason: the list is ordered by use, the ages by clock readings.  An idle bucket may stay
  longer by the wait for the mutex, which is `IdleReclaimed`'s slack.
* After a forced `Close`, or when `Serve` fails, handlers may still be running when `Run` of
  the API returns and the database is closed; "leaves no goroutine [...] behind" (`runtime/api/api.go:72`) holds of
  orderly shutdowns only.  `NothingUsedAfterClose` excepts exactly these handlers.

## Proofs

Every safety property a run checks, invariant or action property, and every refinement is
also a theorem, for arbitrary constants under the named assumptions of the modules:

* `RelayAssumption`, `TimeAssumption` (`Outbox`): the reserve is positive and smaller than
  the lease, which `config.Load` checks;
* `ForeignKeys` (`Ledger`), `ConsumerAssumption`, `CheckoutAssumption`, `CallerAssumption`,
  `ApiAssumption`: the constants have their types and None is none of the names;
* `CatalogAssumption` (`Orders`): prices are positive integers of the width;
* `PoolAssumption` (`Dispatch`): finitely many workers and at least one;
* `LimiterAssumption` (`RateLimit`): the proxies pass `ProxiesAccepted`, the settings have
  their types.  That the numbers make sense is not assumed: it follows from the start-up
  checks of `Config`, which are guards of `Init`.

Each module has one inductive invariant, checked with TLC before it was proved.  What it
adds to the properties:

* `OutboxProofs`, `IInv`.  `LocalsAgree`: a nil from `Publish` means that a queue took the
  message.  `WindowInsideLease`: while the cycle's window lasts, every lease in hand is this
  relay's and lasts at least as long; it holds because the window starts before the
  lease statement runs.  `ReserveKept`: a prompt relay starts to settle with the
  reserve untouched.  From it: `TypeCorrect`, `NothingLost`, `LeaseColumns`,
  `UnderLease`, `Exclusive`, `HolderSettles`, and `Refinement`: the relay implements
  `AtLeastOnce`, where a lease is not an outcome.
* `LedgerProofs`, `LInv`: the conjunction of type, `AttemptHasPayment`,
  `PaidIffSucceeded`, `OneActivePayment`, `OneActiveAttempt` and
  `AttemptsExplainPayment`.  They need each other: an approved success finds its order
  unpaid because a paid order already has an active payment, the succeeded one, and a
  second one is excluded.  The lemma `ApprovedMoves` reads off the matrix that only an
  open attempt of an unsettled payment is ever moved; `Effects` turns `ApplyOutcome`
  into four concrete effects, and there is one lemma for each.  From it: `LedgerTypes`,
  `Paid`, `NoDoubleCharge`, `Explained`, `MatrixAndSchema`, `NoSuccessIgnored`, and the
  action properties `Final`, `OpenAttemptMoves`, `Idempotent`.  `NoOpStays` says that an
  outcome which is a no-op stays one whatever the ledger does next.
* `ConsumerProofs`, `NInv`.  With `InHand` (a worker that processes has an event) every step
  of the pipeline is a step of the ledger or leaves it alone: `PipelineImplementsLedger`,
  and `PipelinePays` carries the ledger's theorems over.  The rest is said per event:
  `NothingBefore` (nothing of it exists before it is stored, nothing is in the broker before
  there is an outbox row), `EffectOnce` (what was applied or recorded as processed is a no-op
  now), `KeptPending` and `KeptVisible` (where its copies are).  A step of a worker works on
  one event (`WorksOn`), so the proof looks at that event and at the worker's own copy; a
  step of the ledger touches the others only through `Resolved`, which `NoOpStays` keeps.
  `AppliedOnce` is then short: an event applied before is a no-op, and a no-op is not
  counted.  `PendingDriven`, `FailureVisible`, `SuccessIsBooked`, `PaidForACause` follow from
  the same invariant.
* `CheckoutProofs`, `CInv`.  What a request knows of rows it does not lock (`Holding`,
  `HoldsPayment`, `HoldsAttempt`, `KnowsAttempt`): an uncommitted insert keeps every
  conflicting insert waiting, so what let it through is still true when it commits; rows are
  never deleted and keys never change, so the attempt read before the provider call is still
  the key's attempt after it.  `UniqueKey`, `AnswersOnRecord`, `SaidIsTrue` and
  `AttemptMatchesSession` tie keys, answers, the provider's events and its sessions to the
  rows.  From it: `CheckoutImplementsLedger`, `OneSession`, `OneSessionPerKey`, `OwnOrder`,
  `BooksMatch`, `CheckoutPays`.  Finding 3 is where the argument stops: `HoldsPayment` cannot
  say that a payment that was only read is still active.
* `ApiProofs`, `IInv`.  Per handler what its statements have established and no other handler
  can take back: an uncommitted insert keeps its event to itself (`AloneWithEvent`), a row
  lock keeps the rows as they were read (`HoldsRows`), a success on its way to a client is
  backed by a committed row (`Backed`).  `MultiplyExact` is the lemma on `multiply`: when its
  check passes, the wrapped product is the product, for any width.
* `PublisherProofs`, `IInv`.  `OneOperation`: the mutex is held exactly by the caller inside.
  `OneExchange`: what is on the way belongs to the call that waits, and the returns buffer
  is empty until that call's answer fills it, which is why one slot is enough.  `Evidence`:
  what buffer and confirmation say of the message being sent.
* `RuntimeProofs`.  `SInv` counts a session's slots for any pool and prefetch: a worker that
  left has reported its error, and while the drain runs the busy workers' slots are taken.
  `NarrowSessionMovesOn` is the safety half of `NarrowErrorEndsSession`: with a prefetch no
  larger than the pool, a delivery in hand always has a worker left to take it.  `RInv`
  adds the process: the deferred closes are stacked in the order of opening, what a stage
  needs is open, and components work only while the process runs.
* `RateLimitProofs`, `IInv`.  `Book`, what a bucket would hold now, lies between the two ideal
  buckets `owed` and `dated`, and is a token by the time the announced retry is due.  A
  bucket nobody holds is full: what `expire` drops had the time to refill, because the
  accepted TTL is no shorter than the interval.  `UsedInOrder`: a bucket in front of another
  was used no earlier, up to `MaxSkew`; so the sweep that stops at the first young bucket
  leaves none that is older by more (`IdleBucketsGo`).  `ResolvedIsSender` reads off
  `Resolve` that no header a client writes makes it count as somebody else.

Proved only, no longer part of a run: the type invariants, `SettlementIsTrue` of `Outbox`
(which `ImplementsAtLeastOnce` contains), `OneCharge`, `SettledIsFinal`, `OnlyOpenAttemptMovesPayment` and `ReapplyIsNoOp` of
`Ledger`, `DeliveryFindsWorker`.  The invariant that makes them inductive is the proof's
business, and TLC checks through `ImplementsLedger` that `Checkout` and `Consumer` move the
ledger as it allows.

Only model-checked: the liveness properties `EveryMessageSettles`, `EveryEventCloses`,
`EveryEventAccepted`, `EveryCallEnds`, `NarrowErrorEndsSession`, `BrokerNotRequired` and
`ProcessStops`, because fairness and ENABLED are out of the prover's reach; and the three
violations of the findings, which are counterexamples.

## Not modelled

* Response headers, correlation ids, documentation routes, the wording of errors and their
  redaction: no state.
* Parameter binding and response encoding in the generated code.  Its queries are mapped
  with the actions that run them.
* What metrics, logs and traces record.  Their start, stop and deadlines are in `Runtime`.
* `Connection.Channel` and `withChannel`, which open a channel under the mutex and deadline
  `Publisher` models, and the encoding of messages (the unencodable ones are a set).
* The relay's row states in full next to a replay: `Api` has them as two external steps,
  `Consumer` as the abstract outbox, and `Outbox` itself without replays.
* Sandbox, migration command, contract and test tools: not part of the deployed system.

## Plan

Left, in this order:

1. Safety halves of the liveness properties, as theorems: what each wait is for and who can
   end it (a pending row that nobody leases becomes due, a caller that waits for the mutex
   has an owner inside, a process that is stopping has no component left to start).
2. `Runtime`: the session under `On` as a refinement of `Dispatch`.
3. Shorter proofs where a lemma about an operator would replace several leaves.

## Running

```
tlc -workers 2 -config MCOutbox_pauses.cfg MCOutbox
tlapm OutboxProofs.tla
```

`PROJECT.json` lists every run with its module and configuration, the source lines of
every definition, one plausible bug per property that the run catches, and the hazards
of the code with the properties that cover them.
