# Verification of the ghost-writer backend

TLA+ models of the NestJS backend in this repository, checked with TLC and, where
a result should hold for every size of the system, proved with TLAPS. Paths below
are relative to `src/infrastructure` of the repository unless they start with
`src/`.

## 1. The system

The repository is the infrastructure layer of a home-services backend. The
application around it is a shell (`src/main.ts`, `src/app.module.ts`: a Hello
World controller on port 3000); entities, repositories (`persistence`) and
feature modules are not in it. Its components, their state, their operations, and what
is hard about each:

| component | state it keeps | operations | interacts with | hard behaviour | what makes it correct |
|---|---|---|---|---|---|
| SQS message queue (`message-queue/sqs`) | consumers, producers, `isRunning`; the routing table; the messages of the queue | start, discovery, stop, crash; `send`; `handleMessage`, `route` | discovery (fills the table), SQS through sqs-consumer and sqs-producer, the scheduler (sends to the same queue) | several processes and versions on one queue, consumers that run before the table is filled, crashes between handling and deleting, redelivery | at-least-once, only the named handler, nothing lost or misrouted, a stop drains |
| Discovery (`discovery`) | two memoised promises | `providers`, `controllers`, classes and methods with metadata | Nest's module container, while it builds the application; the router | a list made before all components are built is kept; a list waits for components under construction; the filter looks at no more than a component's own scope; duplicates when two modules provide a class | every decorated handler of a singleton is found built, once for each module, and every caller gets the same |
| Audit and access log (`interceptor`, `logging/access-audit-logging.*`, `middleware`) | rows of `admin_audit_logs` | save pending, update to success or fail | the handlers' outcome, the database pool | neither statement is awaited; either may be first, fail or be lost | a row shows the outcome of its own request |
| Update log (`interceptor`, `logging/update-logging.*`) | rows of `update_logs`, old and new values | save rows before, read and close after the handler | the handlers' writes, the database | several rows per request, other writers between the reads, failures that end the process | each change is logged, a closed row brackets it |
| Database migrations (`config/typeorm`) | local files, S3 objects and a migrations table per environment | generate, run, upload, download, revert | three stores kept in step by hand | the latest file of one store is not that of another | a revert undoes what was run |
| One-time scheduler (`scheduler/one-time`) | schedules in EventBridge | `createOneTimeScheduler` | its message arrives in the SQS queue | time zones, times in the past, a minute that passes during the request, a message without a route | not early, not lost, handled like a message that was sent |
| SMS, Alimtalk, push, Slack (`messenger`) | none of its own | send, reserve, cancel, post | HTTP APIs | retries after a lost reply, reservations that are repeated, one of two posts failing | a duplicate only after a lost reply or an internal error; a cancellation holds; the two posts in order |
| Payment gateways (`payment-gateway`) | none of its own | billing keys, charge, cancel, refund | HTTP APIs | lost replies and the caller's retry, a failed login | refunds within what was asked for, answers that stay true |
| Business exceptions (`exception`) | none | filter | Nest | none | one response per exception |
| configuration, API docs, versioning, HTTP client, presigned URLs | none | start-up and stateless calls | | none | |

Everything runs in one Node process per instance: between two `await`s a handler
runs alone, so that an action of a model is what the code does from one await to
the next. Node ends the process on a rejected promise that nobody handles, and
nothing in `src/main.ts` changes that; `app.enableShutdownHooks()` is not called
either, so that a signal ends the process without `onModuleDestroy`.

The hazards this leads to are listed, each at its line, in `PROJECT.json`.

## 2. Modules

| module | models |
|---|---|
| `SqsMessaging` | the SQS message queue with its router and what it uses of the discovery, several processes |
| `ScheduledMessages` | the one-time scheduler and EventBridge, in front of `SqsMessaging`, which it extends |
| `AtLeastOnce` | what the message queue promises: the abstract specification of `SqsMessaging` and `ScheduledMessages` |
| `Discovery` | `DiscoveryService` while Nest builds the application |
| `AuditLogging` | `AuditLoggerInterceptor` and `AccessAuditLoggingService` |
| `UpdateLogging` | `UpdateLoggingInterceptor` and `UpdateLoggingService` |
| `RequestLog` | what a log of requests promises: the abstract specification of both logs |
| `MigrationFiles` | the fourteen files of `config/typeorm/migrations`, and what PostgreSQL makes of their statements |
| `SchemaMigrations` | `migration-script` and TypeORM's run and revert over the directory of files, S3 and each database |
| `Messengers` | the SMS, Alimtalk, push notification and Slack services of `messenger`, with provider and network |
| `PaymentGateways` | the services of PortOne and Toss, with provider and network |
| `CallOutcomes` | what a call to a remote service promises to its caller: the abstract specification of `PaymentGateways` |
| `*Proofs` | theorems about the module of that name |
| `MC*` | small instances of the modules for TLC |

Definitions named in a comment as `Mutant` are faulty variants of the definition
that follows them. Nothing uses them; replacing the definition by its mutant makes
one of the properties fail, which shows that the property depends on that code.

### SqsMessaging

A process goes `down` -> `starting` (`SqsServiceInit`: consumers and producers are
created, consumers started) -> `up` (`SqsRouterInit`: the routing table is filled
after the await of the discovery) -> `stopping` (`OnModuleDestroy`) -> `down`
(`Exit`, possible at any time: the end after a stop, or a crash). A duplicate name
or path ends the start in `failed`. That consumers poll while the router still
awaits is in the code (both hooks run in one `Promise.all` of Nest); how long it
lasts is overapproximated.

A consumer is `idle`, `polling`, has `received` a message, is `handling` it, or its
callback `resolved`. `stop()` does not end a long poll that is under way: it may still
bring one message, which is why the callback looks at `consumer.isRunning`. `HandleMessageRejects`, `HandleMessageDrops` and `HandleMessageRoutes`
are the three ways through `handleMessage` (`sqs.service.ts:39-57`); the handler
itself may end well, fail, or never end. `Receive`, `PollEnds`, `VisibilityTimeout`,
`Acknowledge` and `AcknowledgeFails` model SQS and sqs-consumer, which are not in
the repository, by what the code relies on: delivery may repeat, a resolved
callback leads to a delete that may fail, a rejected one leaves the message to its
visibility timeout, and the timeout may also strike while the handler still runs.

Names are sequences of their `/`-separated segments, so that the router's string
join is concatenation and names that hold a `/` are covered. The payload of a
message is left out, as are logging and the credentials. A body is what `JSON.parse`
makes of it: nothing, or the three routing fields (possibly empty). `send` of an
object writes the route over the object's own fields; a string goes as it is, and
is therefore dropped by the consumer unless its author put the route in it.

Properties: `DeletedWasHandled` (nothing lost), `OnlyTheNamedHandler` (nothing
misrouted), `UpServesEveryHandler` (a start that succeeded registered everything),
`NothingStartsAfterStop`, `KeepsPromise` (refinement of `AtLeastOnce`), and under
fairness `ServedIsDeleted` and `StopDrains`.

### ScheduledMessages

The scheduler puts a message into the queue that `SqsService` consumes, and this module is
the composition of the two: it extends `SqsMessaging`, whose steps are `QueueNext`, and adds a clock
(`now`, in minutes) and for each message its schedule. `scheduleExpression` computes an instant
(`After`) and writes it as a clock in Seoul shows it. Minutes are added to now; a specific time is
read as the time of the server (`DateTime.fromObject` before `setZone`), and only that one
is compared with now. `CreateOneTimeScheduler` is the method up to its request,
which EventBridge takes later (`CreateSchedule`), refuses, or never gets. EventBridge reads the
expression in `ScheduleExpressionTimezone`, puts the message in the minute it is due, as
`FlexibleTimeWindow` is off (`InvokeInTime`, `Tick`), and deletes the schedule. A schedule that arrives after its
minute may be invoked at once or never: the repository does not say.
Schedules beyond `MaxTime` are left out, as are texts that are no number and
dates that do not exist: they throw before any effect.

Properties: `NeverEarly` (both changes of zone cancel out), `OverdueIsExcused` (what gets by the check
against the past: negative minutes, and a minute that passes while the request is under way),
`TakenIsSent` (liveness: a schedule that was taken in time is not lost), and `KeepsPromise`,
the refinement of `AtLeastOnce` with messages that come from a schedule, whose routing fields are those
that their author wrote. The time a caller means is that of its server's clock; for a server outside Seoul
whose callers mean Seoul's, every specific time is off by the difference of the zones.

### Discovery

A component is a class or is made by a factory, is of a module, and is being constructed
(`Begin`, `Finish`) while calls may be made: from `onModuleInit`, when all is built, as `SqsRouter`
does; from the factory of a component, which awaits the answer; from anywhere. `Discover` is a
query up to its await: the first one of a collection makes the list, which stays. What is found at once
is `toDiscoveredClass`: the instance of what is built; the empty object of a class that is not begun
(Nest makes it from the prototype), which still has its metadata; nothing, where a factory is to make it;
and what is under construction is awaited (`Awaited`). `Return` runs the rest of the query on the list.

The filter of `discover` (`Listed`) leaves out components of scope `REQUEST` and looks no further. Nest makes one instance at the
start of a component of the default scope on which no request-scoped dependency is (`Singleton`). One that has such a
dependency it goes through without making an instance (`StaticInstance`); and of a transient one the host is asked for with the
component's own id as the inquirer, for which no instance is ever made (`Unbuilt`).

What this shows of the code: a query finds a component built if and only if it is a singleton that was begun when its
collection was first listed (`BuiltIsFound`). So a transient SQS controller, or one with a request-scoped dependency, is found
unbuilt at any time, and `SqsRouter` would bind its handlers to an object that was never constructed. An early query freezes
what every later one gets, also `SqsRouter`'s (`SameForAll`); and a factory that awaits a query is awaited by the list it waits
for: the start hangs (`CallsComeBack` shows that there is no other reason to). In this repository only `SqsRouter` queries, in
`onModuleInit`, where neither of the last two happens. Left out: modules loaded lazily, a construction that
fails (it ends the process), the calls that the factory of a component which is no singleton would make, and the join in
`methodsAndControllerMethodsWithMetaAtKey` of the answers of two queries.

### AuditLogging

`Intercept` is the interceptor up to `next.handle()`; `Finish` is `tap` or
`catchError`. Both put a statement into `statements`, which the database executes
in any order (`ExecuteInsert`, `ExecuteUpdate`): the code awaits neither, and the
pool has several connections. `StatementFails` is a floating promise that rejects,
and ends the process with any of the statements that have not left it. `gap` is a
history variable: it records that an UPDATE found no row, or that a statement was
lost. `BehindOnlyByRaceOrCrash` says that these two are the only ways in which an
answered request and its row disagree; that they do occur is a property of the
code and the reason why the log cannot be relied on as complete.

### UpdateLogging

One action per await of the interceptor and the service. The value of a resource is
the number of writes it has seen, `wrote` remembers which write was a request's own,
so that "before" and "after" can be told apart under interleaving. The handler may
write and then fail. `findOne` by `requestId` returns any of the rows of the request
(`FindLog`); `findOne` with an undefined id returns any row (`Candidates`), as TypeORM
leaves such a condition out. What this shows of the code:

- of a batch exactly one row is closed after a success, the others stay pending
  for good (`PendingExplained` allows it, `AnsweredIsClosed` asks for one only);
- a successful update that no row is kept for (an unknown resource, a single request
  without a subscription, an empty batch) rejects in `tap` and ends the process
  (`OnlyUnloggedUpdatesEndTheProcess` shows that nothing else the service does on its own
  ends it);
- a single id given as `body.requestIds` is logged without `resourceId`, and its new
  value is that of an arbitrary request.

### SchemaMigrations

A migration is a record of the statements of its `up` and `down` (`MigrationFiles`). A
schema is the set of its tables, columns, indexes and foreign keys; a
statement is accepted if what it needs is there and what it adds is not, and a
transaction of statements has no effect when one of them is refused (`Outcome`, `RunPending`).
Values of defaults (among them the literal timestamps that two down methods restore),
column types and the rows of the tables are left out.

The state is the directory of files with the order of their modification times, the
bucket prefix of each environment, and each environment's schema and table of executed
migrations. `Generate` writes the next file, whose statements suit the database of its
environment; `MigrationRun` executes every whole local file that the database has not
executed, in the order of their timestamps and in one transaction (`data-source.ts:161-174`: the
directory is the same whatever the environment); `MigrationRevert` undoes the one
executed last, if its file is there; `Upload` takes the file modified last,
`Download` takes the object uploaded last, and `DownloadFails` leaves an empty or cut-off
local file because the file is opened before the object is asked for. Each command of TypeORM first loads
every file of the directory (`data-source.ts:173`, `Loads`): an empty one brings no migration, one that is cut off
does not compile, and then neither run nor revert nor generation does anything, in any environment. The prefix
comes from `ENV` when uploading and from `NODE_ENV` when downloading: they are assumed
to agree. A copy that is written replaces the one of its name and is the last modified one (`Latest`).

What the proofs need to know of the fourteen files is computed from them at the end of `MigrationFiles`
(`FilesAssumption`). It has no constants: TLC decides it at the start of every run of the migrations, and it
is the same for every instance.

What this shows of the code: a file cut off by a failed download can be uploaded, and then
replaces only the object of the same name (`StoredStaysWhole` states when an object in
S3 may cease to be whole); a run fails for three reasons only (`RunApplies`): a cut-off copy of any file in the
directory, even of one that is executed already; a missing file that a later one builds on; and two files that add the
same column: 1723603163916 and 1724046155950 both add `order.agreement_consulting`, so that a new
database cannot execute all of them. The database never refuses the down statements of what was executed last
(`RevertApplies`); that its file is at hand and whole, and that the directory loads, is a matter of the files.

### Messengers

Each service is a record (`NcpSmsService`, `NhnSmsService`, `NcpAlimtalkService`,
`NhnAlimtalkService`, `OneSignalService`, `SlackService`): the operations that make a request (NCP's
`reserveMessage` and `cancelReserve` for text messages return a text), the ones with checks before
it, the repetitions of p-retry, and the answers that throw. A call sends
an attempt (`SendRequest`), which reaches the provider, late or never; the provider
takes it, refuses it or fails, in the last case before or after it took the
message. `ReadAnswer` and `AttemptFails` end an attempt for the caller:
with an answer, in the next attempt (`RetryOrReject`) or in an error. A request to Slack may also stay unanswered for good
(`MayHang`): its client is made without a timeout (`slack.service.ts:17-18`), and `Settles` excuses a call for that only. p-retry rejects
at once on some errors, depending on its version, which the repository does not fix;
`AttemptFails` allows both. A late reply to an attempt that was given up reaches nobody. An answer without the
field that the code reads (`header` of NHN) throws, and is an `AttemptFails`.

`unsure` is a history variable: the attempts that ended without an answer or with
an internal error. `JobsAccounted` says that nothing else leads to a message that the caller does
not know of. It cannot be stronger: no request carries a key by which the provider
could tell a repetition. `CancelHolds` is the same for reservations: of a reservation that was
repeated the caller knows the last attempt only, and what an earlier one left at
the provider cannot be cancelled. Slack's client repeats, too, what throws; its `sendMessage`
is two calls, the second of which names the accepted first one (`SecondPost`), and `SlackInOrder` says
that the application's channel never gets what the other did not. The wording of messages, signatures, and the form of phone numbers and of reserve
times are left out (`CheckFails` may refuse any request that is checked; a malformed reserve time passes
`nhn-sms.service.ts:184` and may be refused by the provider), as are `getMessageStatus` and
`view`, which only read.

### PaymentGateways

A call is made (`CallPortone`, which logs in first; `CallToss`), is on its way, and ends with the answer of the
provider (`ReadAnswer`, whatever its status), or rejects (`CallFails`), in which case
it may still be executed. `GetToken` does not look at the status of the login: the call may go out without a
token, and the provider then does nothing. The provider charges a paymentId (an orderId of Toss) once, and refunds
what is left; it may fail before or after that. Callers are not in the repository: they are free to repeat
calls, at any time and concurrently, with one exception that the code forces on them: a refund by Toss needs the
`paymentKey` that the answer to the charge holds (`KnowsPaymentKey`), so that a charge whose reply was lost
cannot be refunded.

That a provider charges an identifier once is its promise to the callers, which pass the identifier of their choice: it is the guard of `Does`
and no result. `RefundsBracketed`: a partial refund carries
no key by which the provider could know it again, and a retry may be executed as well; what was refunded
lies between what the callers were told and what they have asked for without being refused. `KeepsOutcome` is the refinement of
`CallOutcomes`: each call acts once at most, and what its caller was told of it is true and stays true.

## 3. Runs

All bounds are in the `.cfg` files. `CHECK_DEADLOCK FALSE` is set everywhere because
the bounded systems really stop: all messages deleted and no boots left, or all
requests answered.

| run | instance | shows |
|---|---|---|
| `sqs_rolling` | 2 processes, 2 messages, 6 versions (old, new, with a `/` in a name, clashing, clashing by a `/`, duplicate consumer), 2 routes, one with a `/`, object / not JSON / unrouted bodies, 3 starts | safety under rolling deployments, faulty configurations, crashes and redelivery |
| `sqs_two_queues` | 1 process, 2 queues, 2 messages, names with `/`, a body that names the other queue or none; schedules of one name, a minute ago and in a minute, in another zone, until minute 2 | the scheduler's times, liveness of a schedule, the refinement of `AtLeastOnce` |
| `sqs_live` | 2 processes, 2 messages (one may be unreadable), 2 starts | liveness under `FairSpec` |
| `audit_log` | 2 requests of every caller and method, 2 crashes | safety, refinement of `RequestLog`, liveness |
| `audit_bpadmin` | 1 request | expected violation: the comment at `interceptor/index.ts:65` |
| `update_kinds` | 2 requests over every kind of endpoint, on the same resources, 1 crash | safety, old and new values under interleaving, refinement of `RequestLog`, liveness |
| `update_creation` | 1 request | expected violation: the comment at `update-logging.service.ts:47` |
| `migrations` | one environment, the last four files (the others executed before), one file missing at a time, two S3 objects, one failed transfer | safety and reversibility of the files and the scripts |
| `migrations_own` | two environments | expected violation: `config/typeorm/README.md:42`, `:61` |
| `messengers` | 2 calls over both SMS services, Alimtalk and both channels of Slack, 1 repetition | safety, liveness under `FairSpec` |
| `payments` | 3 calls over both gateways, 1 payment, 2 amounts | refunds, refinement of `CallOutcomes` |
| `discovery` | 2 components of every kind and scope in 2 modules, 2 calls of every kind | safety, liveness under `FairSpec` |

Two processes and two messages are enough for every race the queue has: a race is
between two processes on one message, or between two messages on one consumer.
Three starts allow one process to end and come back as another version while the other
runs. For the logs, requests meet only in the database rows and resources they share and
in the end of the process: two requests and one crash show every pair, and one request's write
before, between or after the reads of the other; the proofs cover any number. Migrations: the last
four files hold the one clash; the earlier ones are executed at the start, and
reverted and run again from there. Two objects in S3 are the least with which an upload could cost another file its copy. Messengers: calls meet only in a
reservation and its cancellation, one repetition is enough for an attempt with a lost reply
before one that is answered, and NHN Alimtalk and OneSignal behave as NCP Alimtalk does.
The proofs cover any number of calls and repetitions. The scheduler: three minutes are enough for a time before, at and
after now, and for a minute that passes during a request; with zones one hour or more apart nothing else happens, and the
proofs cover any. Payments: two calls race for one payment, and the third is the charge that a refund and its retry need; payments do not
meet. Discovery: one component is awaited, or missed, while the other, or its factory, calls.

Fairness. `SqsMessaging`: the event loop runs what is ready (weak fairness of the
router's start and of `handleMessage`), SQS makes an undeleted message visible again (weak),
a message that is visible to a polling consumer again and again is received (strong: other
messages compete), and a handler or a delete that is tried again and again succeeds
(strong: without it a handler that always fails starves its message, as it does in
the code). No fairness is given to starts, stops, exits or sends.
`ServedIsDeleted` is conditioned on processes that know the handler being, from some moment on, the only
ones that poll the queue: while an old version polls too, it may be the one that gets
the message each time. `AuditLogging` and `UpdateLogging`: the database executes what
reached it and the event loop goes on with the replies; handlers may run for ever.
`Messengers`: a `fetch` ends with an answer or an error (undici's timeouts); the client of Slack, which has no timeout,
is given no more than that it reads an answer that has come; nothing is given to the provider or the network. `ScheduledMessages`: time passes, and EventBridge invokes a schedule that it has
taken in time. `Discovery`: construction goes on, as Nest awaits nothing but
the factories, and with it the calls that a factory or `onModuleInit` makes; calls from anywhere may not be made at all.

## 4. Proofs

### SqsMessaging

`SqsMessagingProofs` proves, for every number of processes, queues, messages, versions and
restarts:

- `TypeAndCustodyHold`: `Spec => [](TypeOK /\ Custody)`. `Custody` is the
  inductive part: what a consumer in a given step holds, that one that is handling
  found its route in the table of its process, and that only sent messages have
  content.
- `DeliveryHolds`: under `PathsTell`, `Spec => [](OnlyTheNamedHandler /\ DeletedWasHandled)`.
  `DeletedWasHandled` is not inductive: a message is deleted by a consumer whose callback
  resolved earlier, so the invariant is strengthened with `ResolvedWasHandled`, and the
  fact that a handler found under a path is the one the message names needs the
  routing lemmas.
- `UpServesEveryHandlerHolds`: `Spec => []UpServesEveryHandler`, from the invariant
  `Registration` (a process past its start has the table of a registration that did not
  throw) and `FullTable`: any two handlers are met one before the other
  (`SlotsAreOrdered`), so that two on one path make the second throw.
- `NothingStartsAfterStopHolds`: `Spec => NothingStartsAfterStop`, action by action.
- `OnlyTheNamedHandlerHolds`: under `PathsTell`, `Spec => []OnlyTheNamedHandler`, a corollary of `DeliveryHolds`.
- `KeepsPromiseHolds`: under `PathsTell`, `Spec => KeepsPromise`: every step maps to a
  step of `AtLeastOnce` or to a stutter.

`PathsTell` says that no handler is declared under the path of a message that names another one. It is true of
every instance that is checked, those with a `/` in names included, and true whenever no name holds a `/`
(`PlainNamesTell`, from the routing lemmas `JoinOne`, `JoinOfThree`, `PathElements`, `PathIsInjective`: a path then
determines its queue, controller and handler). It cannot be left out: a message for handler `app/paid` of controller
`x` has the path of handler `paid` of `x/app`, and a version that declares the latter alone runs it. The clash checks of
the router do not see this, as nothing clashes in one version. The other assumption is `ConstantsAssumption`, the
types of the constants, which TLC evaluates in each run.

### Messengers

`MessengersProofs` proves, for any set of calls and any `retryCount`:

- `JobsAccountedHolds`: `Spec => [](TypeOK /\ JobsAccounted /\ Inv)`. The invariant adds what an
  attempt may have done while it is on its way (`Attempts`), that a reply is the only one to
  the attempt its call waits for (`Replies`), and when a call has an answer (`Calls`). The two lemmas
  that carry the proof are `ProviderKeeps` (whatever the provider does with an attempt) and
  `AttemptEndKeeps` (however an attempt ends for its caller).
- `CancelHoldsAlways`: `Spec => []CancelHolds`, from `Cancellations`: a cancellation that was sent
  names the accepted attempt of a reservation, and once the provider has said yes it is cancelled.
- `SlackInOrderHolds`: `Spec => []SlackInOrder`, from `Posts`: what was accepted has been taken, only a reservation
  is ever cancelled, and a second post names an accepted first one.
- `TypeHolds`: the types alone.

### ScheduledMessages

`ScheduledMessagesProofs` rests on `SqsMessagingProofs`: a step of the queue keeps the queue's invariant, and the
scheduler's steps leave the queue's processes alone, except `Invoke`, which is a message sent.
`ScheduleTypeHolds`, `OverdueIsExcusedHolds`, `NeverEarlyHolds` and, under `PathsTell`, `ScheduledKeepsPromise` hold for any
zones, times, messages and processes. The invariant behind the middle two is `Punctual`: the expression of a schedule, read back in the zone it
was written in, is the instant the caller meant, was not past when it was checked, and the clock has not passed one that arrived in time. It
is needed because the properties are about steps much later than the one that computed the expression.

### PaymentGateways

`TypeHolds`, `KeepsOutcomeHolds` and `RefundsBracketedHolds`, for any number of calls, payments and
amounts. The invariant is that a request under way has had no effect (`UnderWay`), that a reply is the only one to its call,
which has nothing under way, and tells the truth (`Replies`), and so does an answer that was read (`Answered`).

`RefundsBracketed` compares what the provider refunded with two sums over sets of calls. Neither sum is what changes in the
step that refunds: its invariant `Books` says that what was refunded is the sum over the refunds that were executed, and no more
than the sum of the charges. `Total` is a fold of the community modules; that it is a sum
(`TotalOfOneMore`, `TotalOfOneLess`, `TotalMonotone`) is proved by induction on a smallest counterexample among the finite sets of calls
(`WFMin` of the library, which takes sets and no operator). Calls need not be finite in number: those that have started are.

### Discovery

`BuiltIsFoundHolds` and `SameForAllHolds`, for any components, modules and calls. The invariant says that
a list is of all components of its collection, and of what it has of each (`ListOK`, `EntryOK`): the instance of a singleton, which
was begun when the list was made; awaited, of one under construction; or unbuilt, of one not begun then and of whatever is no
singleton; and that a call was answered from the whole list (`CallOK`): the second property follows from there being one list.

### AuditLogging

`TypeHolds`, `BehindOnlyByRaceOrCrashHolds` and `AuditKeepsLog`, for any number of requests and crashes. The invariant says
which statements of a request may be on their way (`StatementsOK`), that its row shows no other
outcome than its own (`RowOK`), and that the outcome is in the row or on its way, unless something was overtaken or lost
(`Recorded`).

### UpdateLogging

`UpdateLoggingProofs`: `TypeHolds`, `ChangedIsLoggedHolds`, `ClosedRowBracketsTheWriteHolds`. The invariant relates, per
request, its endpoint, its stage and the step of the service it is in to the rows it has (`EndpointOK`, `StageOK`, `WroteOK`,
`RowsOK`, `TraceOK`, `TaskOK`); what the other requests do meets it only in the numbers of writes,
which never fall. When a row is closed and with which key is in `OutcomeOK`, `KeysOK`, `ClosedOK` and `EndOK`; with them follow
`PendingExplainedHolds`, `OnlyUnloggedUpdatesEndTheProcessHolds` and the refinement `UpdateKeepsLog`. The assumption is
`EndpointsAssumption`: an id is of the type its endpoint is for, and only an array names several; it is what the decorator's
arguments and `body.requestIds` say, and TLC evaluates it in each run.

### SchemaMigrations

`TypeHolds`, `SchemaIsHistoryHolds`, `RevertAppliesHolds`, `RunAppliesHolds` and `StoredStaysWholeHolds`, for any environments, any first
file and any bounds. They rest on `FilesAssumption`, which says of the fourteen files: the statements of `up`, in their order, are accepted
where there is what the file takes and nothing of what it brings (`Takes`, `Brings`); those of `down` drop all of that and nothing
else; and a file takes only what the application and earlier files bring that no other file brings.

A schema that the proofs meet is larger than the one in which TLC tries a file. `UpRuns` and `DownRuns` carry the result over: on any schema,
`up` is accepted if and only if the file fits (`Fits`), and on any schema on which it fitted, `down` is accepted and gives that
schema back, provided that every element has what it stands on (`Closed`): what goes with a dropped table or column was then brought with
it (`GoesNoFurther`). The invariant `IInv` therefore keeps, beside the schema, how it came about: each file of a migrations table
fitted what the ones before it had made (`GoodHistory`), whatever the order they were executed in. That a schema is the sum of
its files does not suffice: it does not say that the file executed last took nothing that is gone now, nor that what it dropped is its own. `Copies`
(one copy of a file in the directory) is what `StoredStaysWhole` needs. `Outcome` and `RunPending` are recursive functions; what
they compute is proved by induction on a least counterexample (`LeastNumber`). `IInv` was also checked as an invariant of the
instance of the run `migrations`.

### What is only model-checked

Liveness (fairness is out of the prover's reach): `ServedIsDeleted`, `StopDrains`, `TakenIsSent`, `AnsweredIsRecorded`, `AnsweredIsClosed`, `Settles`,
`CallsComeBack`. Every other property of a passing run is a theorem.

## 5. Not modelled, and the plan

Done, in the order of the plan: the message queue, the two logs, the migrations, the messengers, the scheduler
composed with the queue, Slack, the payment gateways, the discovery, and proofs about all of them.

Left: the migrations with the values of column defaults, where the
literal timestamps of two down methods differ from what the up methods found; and the composition of `Discovery`
with `SqsMessaging`, whose start takes the complete list that `BuiltIsFound` promises
of singletons to a caller in `onModuleInit`.

Left out for good: configuration, API docs, versioning, presigned URLs, the HTTP
client interface and the exception filter, which keep no state and call nothing
twice; `purgeQueue` (`SQSClient` of the SDK v3 has no such method: it throws before any effect),
`getProducerQueueSize`, `requestGetBillingKey`, `getMessageStatus`, `view` and access log lines (no state changes);
message payloads and the texts of log lines; the load balancer's health check, which the middleware gives no
requestId (`middleware/index.ts:14-16`); `DB_SYNCHRONIZE`, with which TypeORM would change the
schema past the migrations (`config/typeorm/typeorm.config.ts:75`); what is below the minute in the schedules; the
`orderId` that Toss's type leaves optional, and its answer with a billing key, of which the status is not kept
(`toss-billing.service.ts:37`); and the `input` that the scripts use without declaring it.
