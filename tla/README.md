# skillsphere-api in TLA+

Specifications of the API's authentication service, of the way from a committed row
to the ontology's sinks, of the interceptors around every RPC and of the server
processes from start to exit, model-checked with TLC on small instances, with proofs
checked by TLAPS. Paths below are relative to the repository root.

- [What the system is](#what-the-system-is): the inventory
- [What is modelled](#what-is-modelled): modules, state and actions against the code
- [What the runs check](#what-the-runs-check): properties, bounds, fairness
- [Where code and text disagree](#where-code-and-text-disagree), and what else was seen
- [What is proved](#what-is-proved)
- [What is not](#what-is-not), and [the plan](#the-plan)

To check a run, `tlc -config sessions.cfg MCAuthService.tla`; to check the proofs,
`tlapm SessionProofs.tla`. `PROJECT.json` lists the runs, what each definition
translates, and the hazards of the code with the properties that cover them.

## What the system is

One API process (`cmd/server`) serves Connect RPCs over a PostgreSQL database;
any number of `cmd/ontologyworker` processes drain one of its tables. No state
that matters is kept in memory: processes interact through tables.

| Component | State | Operations | Talks to | What is hard | Correct when |
|---|---|---|---|---|---|
| AuthService `internal/domain/auth/service/auth_service.go` | none of its own | nine RPCs, each a sequence of repository calls | repository, token manager, mail, emitter | no RPC is a transaction; errors of some calls are dropped; two requests interleave call by call | rotation, revocation and one-time tokens hold; two accounts are never mixed up; registration is exclusive |
| AuthRepository `.../repository` | `users`, `user_sessions`, `user_tokens` | one SQL statement per call | PostgreSQL | unique constraints decide races | statements do what their names say |
| TokenManager, passwords `.../service/token_manager.go`, `password.go` | secrets, lifetimes | mint, validate, hash | none | expiry; bcrypt's 72 bytes | JWT and row agree on expiry |
| AuthHandler, presenter | none | RPC to service call, error to code | AuthService | errors that become `CodeInternal` | the client learns what happened |
| Mail `.../service/email_service.go` | none | a goroutine per mail | SMTP | a crash or SMTP error loses it silently | mail promised by a success arrives |
| Ontology events `internal/ontology/event.go`, `*_events.go` | property map | build, marshal | none | a property may overwrite `@id` | the document names its resource |
| Emitters `emitter.go`, `outbox_emitter.go` | `ontology_outbox` | Emit: one INSERT, then a log line | PostgreSQL | outside the business transaction; callers drop its error | an event per committed row |
| OutboxProcessor `outbox_processor.go`, `cmd/ontologyworker` | row locks, a batch | poll, dispatch, mark, commit | PostgreSQL, sinks, supervisor | sinks are outside the transaction; N workers; a session that ends under a live one; a POST without a timeout; exit on first error | at least once, no needless copy, progress |
| Sinks `sinks.go` | none | Publish (logs), Insert (HTTP POST) | triple store | status of the answer ignored | an error is reported |
| Session and matching services `internal/domain/{session,matching}` | their repositories | create, then emit | emitter | emission after the fact | as for emitters |
| Interceptors `pkg/interceptors`, `pkg/observability` | token bucket, counters, request context | wrap every RPC: request id, tracing, validation, rate limit, recovery, logging, auth, metrics | each other | order of nesting; panics; refusals further out | every request accounted for once; no procedure without a token unless public |
| Router, dependencies, main `cmd/api`, `cmd/server` | the process | start, serve, shut down | everything | partial startup; shutdown with work in flight | nothing accepted is cut off, everything opened is closed |
| Database pool, migrations `pkg/db` | pool, schema version | connect with retries, migrate | PostgreSQL | bounded retries | starts only on a current schema |
| Ontology generator `ontology/cmd/generate` | a file | read enums, write a vocabulary | buf | names are taken apart and glued together | every value has a concept of its own |
| Configuration, OAuth setup, generated protobuf code | none that changes | | | | |

## What is modelled

### `AuthService.tla`

The whole of `AuthService`, one action per repository call.

- `users`, `sessions`, `tokens` and `outbox` are the tables, one row per record.
  `outgoing` is the mail held by goroutines, `inbox` what arrived. `req` says
  where each request stands: its method, its next call, what it has read.
- `Calls` gives each method's calls in program order. `Tolerated` lists the calls
  whose error the method drops. `Begin...` actions are the checks before the
  first call (the handler's, `ValidatePassword`, the refresh JWT); the reads
  (`LoginLookup`, `FindUserToken`, ...) hold the decision the method takes on
  what it read; the writes (`CreateUser`, `DeleteAllUserSessions`, ...) are shared
  by the methods that make them. Between any two calls any other request may move.
- Faults are chosen per instance by `Environment`: a statement that fails without
  effect (`StoreError`) or takes effect and loses its reply (second disjunct of
  `Returns`), a crash, a lost mail, an operator who clears `is_active`.
- Abstractions. A token, jti or session is named by the request that minted it
  (in the code they are random; a collision is not modelled). The e-mail address
  stands for the user id. A password is a value, in `Weak` if `ValidatePassword`
  refuses it, in `Overlong` if only bcrypt does; its hash compares equal to it
  alone. `version`, `cred`, `void` and `undone` are history: no action's guard
  reads them. `undone` holds the calls of the request that failed and whose error
  the method dropped (`Droppable`): what a property then excuses is that
  request's own failed statement, never somebody else's.
- Not there: text of mails, `last_login_at`, device and IP fields, the OAuth
  identity queries (no code calls them), empty-field checks of the handler.

### `SessionLedger.tla`

What `user_sessions` promises: a token opens at most one session, for one
account, and a closed session stays closed. `AuthService` implements it with
`opened`, `live` and `owner` read off `req` and `sessions` (`LedgerSpec`).

### `OutboxProcessor.tla`

The outbox and its workers. `rows` and `createdAt` are the committed table;
`worker[w]` is where a worker's `ProcessBatch` stands, with the batch its SELECT
locked and whether its transaction is still alive (`tx`): the rows are locked (`Held`) as
long as that is, and not as long as the worker believes it. `published`, `posted` and
`graph` are what the sinks received.

| Action | Code |
|---|---|
| `Emit`, `EmitFails` | `OutboxEmitter.Emit`; callers that drop its error |
| `BeginBatch` | BEGIN and the SELECT: `Free` is what it may lock, `InOrder` its ORDER BY |
| `Publish`, `Insert` | the two calls of `dispatch`; `Insert` is the POST going out |
| `Answer` | the POST returns, whatever its status |
| `Mark` | the UPDATE, invisible to others until COMMIT |
| `Commit` | COMMIT |
| `Commit`, second disjunct | the COMMIT took effect but its reply did not come back |
| `LosesSession`, `GivesUp` | PostgreSQL ends the session of a live worker, or `database/sql` rolls back under it on a cancelled context: the rows are free at once, the worker goes on until its next UPDATE or COMMIT fails |
| `Fail` | any call failing without effect, or a cancelled context that the worker notices: the deferred Rollback, `Run` returns, the process exits |
| `Crash`, `SessionEnds`, `Restart` | a killed process keeps its locks until PostgreSQL ends its session; then its supervisor starts it again |

A poll that finds nothing changes no state and is not a step. `Rejecting` lets
the triple store answer with an error status, which `Insert` does not look at.

### `AtLeastOnce.tla`

What an outbox promises one sink: an accepted event is sent before it is
settled, possibly several times. After it is settled it is sent by nobody but a sender
that was cut off before with the event in hand (`stray`), and by each of those once.
`OutboxProcessor` implements it twice, for the stream (`StreamSpec`) and the triple
store (`TripleStoreSpec`), with the workers whose transaction is gone and whose call of
that sink is still to come as `stray`.

### `OntologyEvents.tla`

The documents: `NewUserRegisteredEvent`, `NewSessionScheduledEvent`,
`NewMatchEvent` and `MarshalJSON` as operators on rows, with the same conditions on
the same fields, properties over the envelope. A map gives each of its keys a set, of
its one value or of none: a key that a builder adds under a condition is there, empty,
when the condition fails. An IRI is a class with an identifier (`Id`), a time a number up
to `Now`, a text a member of `Text`, the offers of a session lists of up to `Most` texts, the
skills of a match their number; text formats and the constant `@context` are left out. `Marshals` says which documents `encoding/json` has no form
for: those with an infinite score, which passes `NewMatchEvent`'s test for
being positive.

### `EventPipeline.tla`

`OutboxProcessor` with the services in front of it. `call[e]` is where the call of
`CreateSession` or `RecordMatch` behind event `e` stands, `saved` the committed
business rows, `logged` what the `JSONEmitter` wrote.

| Action | Code |
|---|---|
| `BeginCall`, `Save` | the service asks its repository for one statement, which may take effect and report an error |
| `Enqueue`, `EnqueueFails` | `FanoutEmitter.Emit`: the outbox first (the outbox's own `Emit` and `EmitFails`), ending at an error, which the service drops |
| `MarshalFails` | `json.Marshal` refuses the event before the INSERT |
| `Log` | the `JSONEmitter` after it |
| `ServiceCrash` | an API process dies between any two, with some or all of the calls under way |

The workers' actions are those of `OutboxProcessor`, unchanged. `MCEventPipeline`
gives the events their documents: which event is unmarshalable follows from what
it holds.

### `InterceptorChain.tla`

One unary RPC after another, or several at once, through the chain of `router.go`
and back. `Chain` is that order, with the metrics interceptor as three, because
its gauge and histogram are deferred and its counter is not. `req[r].at` is the
interceptor a request is at, `dir` whether it is on its way down to the handler
or back, `outcome` what the call below returned: a response, an error, a refusal
or a panic. What an interceptor does before it calls the next is its `...Before`
action, what it does after is its `...After` action.

| Action | Code |
|---|---|
| `Arrive`, `Handle`, `Serve` | a request from `net/http`; connect's unary handler around the method; back in `net/http` |
| `RequestIDAfter` | `resp.Header()` of what came back |
| `TracingBefore`, `TracingAfter` | the span, ended by a statement that is not deferred |
| `ValidationBefore` | protovalidate accepts the message or refuses it |
| `RateLimitReads`, `RateLimitDecides` | `Allow`: `time.Now()`, and then the bucket under its lock |
| `RecoveryAfter` | the deferred `recover` |
| `AuthBefore` | the header, the JWT's expiry, the public procedures |
| `GaugeBefore`, `GaugeAfter`, `HistogramAfter`, `CounterAfter` | the metrics interceptor |
| `Pass` | interceptors that only call the next or return, logging among them |

Tokens are whole, `Rate` of them per tick. An error and a refusal differ in the
response that comes with them: connect's handler returns a nil `*Response` in a
non-nil interface with an error of the method, an interceptor that refuses a nil
interface. `admitted` and `late` are history.

### `ServerLifecycle.tla`

API processes from their start to their exit, several at once, of different builds.
`inst[i]` is a process: its `phase`, its `build` (build `b` embeds the migrations
`1..b`), the pings it has tried, the migration it is `todo`, its open `pools`, its
`listener`, and whether an operator has `told` it to stop. `applied` is
`goose_db_version` in the order of its ids, `database` whether PostgreSQL accepts
connections.

| Action | Code |
|---|---|
| `Start`, `Ping` | `New` opens the pool; `WaitForDB` pings at most `Retries` times |
| `EnsureVersion`, `CreateVersionTable` | goose looks for its table, then creates it, with version 0 |
| `ListVersions` | `UpToContext` reads the table, refuses missing migrations, decides what is to do |
| `RunStatements`, `Clash`, `CommitMigration` | one migration in one transaction with its row in the table; what another transaction is creating is waited for, and then found to exist, unless every statement of it says IF NOT EXISTS (`Repeatable`) |
| `Migrated`, `Wire` | the second pool (`sql.DB`), repositories, emitter, services, handlers |
| `Listen`, `TrapSignals`, `ServerFails` | the listener's goroutine and `signal.Notify`, in either order |
| `BeginShutdown`, `Drained`, `TimesOut`, `Cleanup` | `srv.Shutdown`: close the listener, wait for handlers, give up after 30 s; `os.Exit` skips the deferred `Cleanup` |
| `StartupFails` | a database that does not answer, or a statement that fails, ends the process |
| `Terminate`, `Kill` | a signal before the handler is installed; SIGKILL or the machine |
| `Stop`, `Deploy`, `DatabaseUp`, `DatabaseDown`, `Accept`, `Answer` | operator, database, clients and handlers |

A process that exits without having been told to is started again.

### `SchemaVersion.tla`

What migrating promises, whoever does it: the version of the schema goes up one at
a time and never back. `ServerLifecycle` implements it with the largest version
in `applied` (`SchemaSpec`).

### `OntologyGenerator.tla`

The tool that turns the proto files' enums into the SKOS vocabulary that the
documents refer to: operators, no state. Names are sequences of letters, because
its properties are about how names are taken apart and put together:
`camelToScreamingSnake`, `TrimPrefix`, `snakeToPascal`, `toTitle` and `splitCamel` do, letter
by letter, what the functions of those names do. `Vocabulary` is the set of
statements a reader of the file gets, so their order, the prefixes and comments are
left out, and so are the call of `buf` and errors of files. `Packages` enumerates the
enums, with names made from words as the protobuf style guide makes them: the letters
(`Upper`, small ones with their capitals), the `Words`, the `Acronyms` and the length of a
name (`MostWords`) are constants. A word has two letters at least, as one letter
with a capital looks like an acronym, and is one; two acronyms in a row would look like one.
The values of an enum by itself begin with the prefix the tool recovers (`Carries`), or none
of them does (`Bare`), as those of the repository's `OAuthProvider`; the enums of a package of
two have values that do.
`MCEventPipeline` checks it along with the documents.

### Together

`AuthService` stops at the INSERT into `ontology_outbox` (its action `Emit`);
`OutboxProcessor` starts there. They share that table only, and the worker never
reads another. `EventPipeline` composes `OutboxProcessor` with the other two
emitting services, whose one operation each is short enough to be in it call by
call; `PipelineIsOutbox` proves that they do to the outbox only what its own
specification lets callers do, so all that is proved of the workers holds of the
composition. `InterceptorChain` ends where a method of `AuthService` begins
(`Handle`) and goes on with its answer: an answer of `AuthService` is what the
handler returns, which reaches the client only as far as the chain lets it. `ServerLifecycle` is the
process all of that runs in: its `Accept` and `Answer` are the two ends of
`InterceptorChain`, its `Kill`, `TimesOut` and `ServerFails` what `AuthService` and
`EventPipeline` know as a crash.

## What the runs check

| Run | Instance | Properties |
|---|---|---|
| `sessions` | 4 requests, 2 accounts, logins, logouts, refreshes, password changes, store errors, crashes | `RotationRetiresParent`, `OldSessionsRevoked`, `VoidRefused`, `LedgerSpec` |
| `accounts` | 3 requests, 2 addresses, 2 usernames, weak and overlong passwords, every fault | `TypeOK`, `MailProvesAddress`, `RegistrationExclusive`, `RegisteredCanVerify` |
| `recovery` | 4 requests, 1 account, resets, verifications, logins, refreshes, a clock, store errors, deactivation | `OldSessionsRevoked`, `VoidRefused`, `RowOutlivesJwt` |
| `progress` | 2 requests, every RPC, no fault, fairness | `MailArrives` |
| `outbox` | 3 events, 2 workers, batches of 2, 2 timestamps, 2 faults | `TypeOK`, `CopiesNeedFaults`, `StreamFirst`, `StreamSpec`, `TripleStoreSpec` |
| `pipeline` | 3 calls (a session, a match, a match without a JSON form), 2 workers, 1 fault in the services and 1 in the outbox, fairness; every package of 1 or 2 enums with names of 1 or 2 words, every session over 2 identifiers, 2 texts and lists of up to 2 | `PipelineTypeOK`, `EventsFollowRows`, `MissingNeedsFault`, `DocumentsDescribeRows`, `DocumentsTellRowsApart`, `ConceptsApart`, `LabelsReadLikeNames`, `EveryEventDelivered`, `EveryRowDelivered` |
| `interceptors` | 3 requests in any order and 2 more that meet them at the limiter, a public and another procedure, a bucket of 2, a clock | `TypeOK`, `SpansEnd`, `ActiveExact`, `CollectorsAgree`, `LimiterBound` |
| `lifecycle` | 2 processes of 2 builds, 3 migrations of which one cannot run twice, 1 request, 2 pings, 1 fault, fairness | `TypeOK`, `ServesCurrentSchema`, `MigratedOnce`, `PoolsOutliveRequests`, `GracefulStopCutsNothing`, `SchemaSpec`, `ServesInTheEnd`, `StopsInTheEnd` |

- **`RotationRetiresParent`** While the session a refresh opened is live, the one
  it was refreshed from is not, unless that refresh's own delete failed.
- **`OldSessionsRevoked`** After an answered change or reset of the password, no
  session row inserted before the new password was stored is left, unless its
  own delete of the sessions failed.
- **`VoidRefused`** A rotated or logged-out refresh token or a consumed mail token
  gets nothing for a request that begins later, unless the token's own delete
  failed. A deactivated account gets no login and no refresh that begins later; the
  other RPCs do not look at `is_active`, and serve it.
- **`MailProvesAddress`** A reset or a verification succeeds only with a token of
  its own kind that arrived at that account's address.
- **`RegistrationExclusive`, `RegisteredCanVerify`** Of racing registrations at
  most one succeeds per address and username, and what its client needs next is
  on record.
- **`RowOutlivesJwt`** A session row does not expire before the JWT that names it.
- **`MailArrives`** The mail an answer promises arrives if nothing fails.
- **`CopiesNeedFaults`** An event reaches the stream once, plus at most once per
  fault: concurrent workers add no copy, and a session that ends under a live
  worker, which goes on with the row in hand, costs one.
- **`StreamSpec`, `TripleStoreSpec`** What is settled was sent, and is sent again only by
  a worker whose transaction ended before, with that row in hand, once.
- **`StreamFirst`** The triple store is never ahead of the stream.
- **`EveryEventDelivered`** After finitely many faults, a queued event is left
  undelivered only if the triple store never answers a POST: of the worker that
  holds it, or of every worker.
- **`EventsFollowRows`** No sink hears of a row that was not committed, and no log
  line of an event that is not in the outbox.
- **`MissingNeedsFault`** Of the calls that were answered, no more have left a
  committed row without an event than things went wrong. A process that dies may
  lose the events of all its calls at once; their callers got no answer.
- **`EveryRowDelivered`** From the business row to the sinks: the event of every
  committed row is delivered, or its emission failed, or a POST hangs, as above.
- **`DocumentsDescribeRows`** Whatever row of its kind, the document names that row
  and its class, and its `dateModified` is the last change the row knows of,
  although properties may overwrite the envelope.
- **`DocumentsTellRowsApart`** A session can be read back from its document, its offers in
  their order, but for `CreatedAt`, which the service drops: what else a document
  leaves out was empty, and two sessions with one document differ in `CreatedAt` at most.
- **`SpansEnd`** Every request's span has ended when the request has.
- **`ActiveExact`** The gauge is the number of requests below it, at every moment.
- **`CollectorsAgree`** Counter, histogram and gauge account for the same requests.
- **`LimiterBound`** The limiter lets through its burst, what time adds, and what is
  credited twice to requests that took its lock out of order; no more.

- **`ServesCurrentSchema`** A process that accepts requests has the schema its build
  needs, although it may have decided what to run from a list that was out of date.
- **`MigratedOnce`** A migration that cannot run twice has one row: goose takes no
  lock, and nothing but PostgreSQL's keeps two processes apart.
- **`SchemaSpec`** However many processes migrate, the version moves by one, forward.
- **`PoolsOutliveRequests`** A handler never finds its pool closed.
- **`GracefulStopCutsNothing`** An exit with success has answered every request the
  process accepted.
- **`ServesInTheEnd`, `StopsInTheEnd`** A process nobody stops serves again and again,
  and losing the race for a migration costs it a restart only; one that is told
  to stop does, whatever its handlers do.
- **`ConceptsApart`** Two values of a package never get one concept, although their
  names are glued together without underscores: `Skill` with `SKILL_LEVEL_HIGH` and
  `SkillLevel` with `SKILL_LEVEL_HIGH` would, and cannot be in one package.
- **`LabelsReadLikeNames`** The label of a value that carries the prefix the tool recovers
  has its words without its enum's; that of one that does not (`OAuthProvider`) has all of
  its words, the enum's among them; that of a scheme has the words of its enum, unless
  an acronym comes after the first.

**Bounds.** Four requests are enough for the longest chain the session
properties talk of: a login, two requests racing on its token (refresh, logout,
password change), and one that begins after them; a second account is needed
only to tell `DeleteAllUserSessions` from a delete of everything. One password is enough there: the comparison that could
succeed does, and wrong ones, which change nothing, are in `progress`. Three requests
over two addresses give every race of registrations, and a verification or
reset of what one of them left. A clock with two values separates "expired"
from "not"; with lifetimes of 1 that is all the code can tell apart. Two
workers, three events and batches of two give a full batch beside a partial one,
a worker that skips locked rows, and a row re-read after another's commit; the
second fault is one during the recovery from the first. In `outbox` a session lost under a live worker and one more fault, or two of them, meet a
second worker that delivers the row meanwhile. In `interceptors` the
limiter's bound is 2 at first, 3 after the tick and 4 once a late request has set the clock
back, which happens, and so does the fourth admission: five requests can exceed it. Three of
them take their steps in any order; with the other two they come to the limiter one at a
time and leave it so, and meet there in every order, because no other interceptor touches
the bucket. In `pipeline` a fault on
each side lets one call fail while a worker recovers; `MaxStamp` is 1 there, since
the order of rows is `outbox`'s question. In `lifecycle` the three migrations
stand for the last three (024 and 026 repeatable, 025 not), the two builds for
those that embed all or all but one of them: two processes race from an empty
table to the newest schema, and one can be replaced by the newer build on the
way. One request is one in flight or none, which is all a shutdown asks. The enums'
words are `ab`, `abab` and the acronym `AB`: each begins like the others, so every
way names can run together without one-letter words is there, and so is
`OAuthProvider` (`ABAb` with the value `ABAB`, where `AB_AB` is recovered).
Names outside of the style (one-letter words, words that begin with a digit, bare
values beside prefixed ones) are left out, and there values can meet.
Requests, accounts,
events and workers are interchangeable, so the runs of safety properties use
symmetry; those with a liveness property do not.

**Fairness.** `AuthService`: each handler's next call, and each mail goroutine,
is eventually scheduled. A statement that never answers is ended by its context
with an error, which is `StoreError`, not a stop. `OutboxProcessor`: each worker
is weakly fair in its own steps, because `Run` polls on a ticker, PostgreSQL answers a
statement or breaks the session, and ends that of a dead client, the stream is a log
line, and the worker is kept running by systemd or
Docker, as `docs/ONTOLOGY_PIPELINE.md` asks. A POST is another matter: `sinks.go` gives its
client no timeout and `Run` its context no deadline, so `Answer` is under no fairness, a
worker may wait for ever with its rows locked, and the liveness properties say what
is then not delivered. Nothing is assumed of arrivals,
faults, the clock, or of which worker gets a row. Faults are finitely many: a
sink that refuses one payload for ever blocks the queue behind it. `EventPipeline`:
that, and a call that has begun goes on (its handler is not starved).
`ServerLifecycle`: a process goes on, its supervisor restarts it, thirty seconds
pass (`TimesOut` is a step the process takes), and a database that is down comes
back. Nothing is assumed of operators, of clients, or of handlers, which may never
return.

Each specification has a step for a system with nothing left to do
(`Quiescent`, `Drained`, `PipelineDrained`, `Retired`), so deadlock is checked in every run.

## Where code and text disagree

| Run | What the code does | What is said |
|---|---|---|
| `stale_session` | A login that compared the old password, or a refresh that found its session, inserts its row after `DeleteAllUserSessions`, and the session outlives the password change | `auth_service_test.go`: "sessions should be cleared" |
| `duplicate_delivery` | A rolled-back batch has been sent already, and is sent again | `docs/ONTOLOGY_PIPELINE.md`: SKIP LOCKED "prevents duplicate deliveries" |
| `rejected_delivery` | A POST answered with an error status is marked delivered | the same: "guarantees delivery to Kafka and the triple store" |
| `handler_error` | Any error of a method comes with a nil `*Response` in a non-nil interface; `RequestIDInterceptor`, outermost and outside recovery, calls its `Header()` and panics, and the connection is closed without an answer | `cmd/server/README.md`: the chain is "1. Recovery (panic handling)" first |

Seen on the way, and without a run, because they are about the process's
environment or hold in every execution:

- The loser of two registrations that both found the address free gets the driver's
  error, hence `CodeInternal` and not `CodeAlreadyExists` (`CreateUser`, `Taken`).
- `cmd/server/main.go:22` ends the process when there is no `.env` file, although the
  `docker run --env-file .env` of the Makefile puts none into the container; and
  `config.Load()`, which the worker uses, does not read one, although
  `docs/ONTOLOGY_PIPELINE.md:26` says that "`.env` files work as well".
- The worker traps `os.Interrupt` only, so the SIGTERM of systemd or Docker kills it
  (`Crash` of `OutboxProcessor`); the server's thirty seconds of draining are longer
  than the ten that `docker stop` waits (`Kill` of `ServerLifecycle`).
- A signal that comes before `signal.Notify` ends the server with what it has
  accepted (`Terminate`).
- A match with an infinite score is saved and never has an event (`MarshalFails`).
- `NewMatchEvent`'s fallback identifier is never used, because a UUID always has a
  text form.
- The ontology generator does not recover the prefix of `OAuthProvider` (it computes
  `O_AUTH_PROVIDER`), so its labels keep the words of the enum (`Oauth Provider Google`) and its concepts are `OAuthProviderOauthProviderGoogle` and so on;
  `DifficultyLevel` of the `ai` and of the `workshop` package become one scheme, which
  does no harm while they have the same values; enums inside of messages are not
  read, although `README.md:163` says it "walks your proto enums" (today there are none).
- The session and matching services are complete but not wired in `cmd/api`.

## What is proved

For every set of requests, accounts, passwords, events, workers, procedures,
processes, builds, texts and words, every batch size, lifetime, number of migrations, of
pings and of faults, rate and burst. The assumptions are those named in the
modules: `ConstantsAssumption`, `TTLAssumption` (a row lives no shorter than its
JWT: `cmd/api/dependencies.go` gives both thirty days), `NoneAssumption`,
`RowAssumption`, `WorkerAssumption` (finitely many workers), `BatchAssumption`, `BoundsAssumption`, `LimiterAssumption` (there
is a limiter), `RequestAssumption` (finitely many requests), `EventAssumption`
(finitely many calls), `UnmarshalableAssumption`, `NowAssumption`, `LettersAssumption`, `WordsAssumption`,
`VersionsAssumption` and `RetriesAssumption`.

**`AuthServiceProofs.tla`**: `TypeCorrect` (`TypeOK`). `TypeOK` is not inductive,
because a write takes its account and password from the request; the invariant
adds what a request knows at each point of its method (its inputs, and that the
account it is about is on record). `CallPlaces` tabulates which call stands where,
so that each action's case is about at most three methods.

**`SessionProofs.tla`**: `SessionInv`, inductive relative to that, has one part
per fact.

- `SessionsOwned`: a row belongs to the account of the request that inserted it.
- `RotationSafe` (`RotationRetiresParent`), with store errors anywhere. Needs `Presented` (a refresh shows a
  token of a request already answered, which will not insert again) and
  `Retired` (from its delete on, the old session is gone).
- `PasswordRevokes` (`OldSessionsRevoked`). Needs `Outdated`: versions of an
  account only grow, so a row inserted after the delete carries at least the
  version of the change.
- `RowsOutliveJwts` (`RowOutlivesJwt`). Needs `Minted` and `TTLAssumption`.
- `LedgerImplemented` (`LedgerSpec`): initial states map to the ledger's, an
  insert to `Open`, a delete to `Close` or a stutter, a delete of an account's
  rows to `CloseAccount`, everything else to a stutter. The crux is `Unopened`: a
  request that has not inserted yet has opened nothing, so `Open` finds its
  token fresh.

**`AccountProofs.tla`**: `AccountInv`, inductive relative to both, follows a token from
where it is minted to where it is used up.

- `MailIsProof` (`MailProvesAddress`). Needs `Posted` and `Filed` (a mail, and a row of
  `user_tokens`, is about the account and the kind of the request that minted its
  token, and only after that request's call), `Shown` (a token that is presented was
  mailed) and `Proved` (from the lookup on, to the account the row names).
- `RegistrationsExclude` (`RegistrationExclusive`). Needs `Named`, `OneEach` and
  `NamesApart` from the moment of the INSERT, not of the answer: two registrations
  between the lookup and the INSERT are told apart by the unique constraints only.
- `RegisteredVerify` (`RegisteredCanVerify`). Needs `Verifying` (a verification
  deletes its token only after the address is verified; a reset
  looks up tokens of its own type, so it never deletes one of these) and `Queued`.
- `VoidIsRefused` (`VoidRefused`). Needs `Consumed`, `Rotated` and `LoggedOut` (what a
  request used up is gone from its delete on, unless that delete failed) and
  `Voided`: a void request is refused already, or its next lookup will refuse it. A
  login or refresh of a deactivated account is void, another RPC of it is not.

**`OutboxProofs.tla`**: `OutboxInv` says that what two live transactions have locked is
disjoint and still queued (`Locks`), that the rows a worker is past did go out
(`Progress`), and, the heart of it, that an event has at most one copy that no
fault accounts for, in a transaction not undone or in a committed one (`Copies`). A worker
whose transaction is gone and whose `Publish` is still to come is a copy that its fault has
paid for in advance; counting these workers is what `WorkerAssumption` is for. They are
the refinements' `stray`, so that a step of such a worker is `StraySend` or `StrayStops`.
From it: `OutboxTypeCorrect`, `WorkersDoNotDuplicate` (`CopiesNeedFaults`),
`StreamComesFirst` (`StreamFirst`), `StreamImplemented` and
`TripleStoreImplemented` (the two refinements of `AtLeastOnce`).

**`InterceptorProofs.tla`**: `InterceptorInv` says where in the chain a span is open
and that a panic is never on its way up between recovery and the outermost
interceptor (`Good`), that the gauge is exact, and that the tokens in the bucket
and those given out are covered by the burst and the credited time (`Bucket`;
`LimiterBound` alone is not inductive, it forgets what is left in the bucket).
`StepMoves` reduces every action to one change of one request. From it:
`ChainTypeCorrect`, `SpansAlwaysEnd` (`SpansEnd`), `GaugeExact` (`ActiveExact`) and
`LimiterBounded` (`LimiterBound`). `CollectorsAlwaysAgree` (`CollectorsAgree`, two
inequalities) rests on an equation, `TallyInv`: of a procedure's requests past the
counter, those counted and those that panicked are as many as those in the
histogram and those one place before it.

**`PipelineProofs.tla`**: `PipelineIsOutbox` (every step of the composition is a step
of `OutboxProcessor` or a stutter) brings `OutboxInv` and the refinements over
(`PipelineDelivers`). `PipelineInv` adds where a call stands against its rows in
both tables; `PipelineTypeCorrect` and `EventsFollow` (`EventsFollowRows`) follow.
`MissingBounded` (`MissingNeedsFault`) is about a cardinality: a step of a call adds at most
one row to `Unannounced`, and one that does counts a fault; `ServiceCrash` adds none,
because no caller of a call that it ends is answered.

**`LifecycleProofs.tla`**: `LifeInv` says what each phase entails: which pools and
listener a process has (`Wired`), and, the heart of it, that the migrations below
its `todo` are in the table whatever list it once read (`Fit`), that the table
holds every version up to its greatest, and that of two transactions with one
migration that cannot run twice only one is open. From it: `LifecycleTypeCorrect`,
`SchemaServed` (`ServesCurrentSchema`), `MigratedOnly` (`MigratedOnce`), `PoolsOutlive`
(`PoolsOutliveRequests`), `StopsGracefully` (`GracefulStopCutsNothing`) and
`SchemaImplemented` (`SchemaSpec`; `TableMoves` reduces a step to what it adds to the
table).

**`OntologyProofs.tla`**: the documents and the vocabulary, for any identifiers, texts,
times, letters, words and acronyms, and names of any length.

- `DocumentsDescribe` (`DocumentsDescribeRows`) and `DocumentsTellApart`
  (`DocumentsTellRowsApart`) look at each key: only a user's event has a date among its
  properties, and it is the later one.
- `ConceptsAreApart` (`ConceptsApart`): `camelToScreamingSnake` takes the name of a concept
  back to the name of its value (`SnakeBack`), so that two values cannot share one; that
  the two enums of a package have different values then tells their schemes apart. Where
  no value carries the name, a concept is the enum's name with the value's after it, and
  what follows tells the value (`SameRest`).
- `LabelsAreReadable` (`LabelsReadLikeNames`): the prefix that is taken off a value is the one
  that was put before it (`SnakeBack` of the enum's name, `Trimmed`), or none is
  (`BareBecomes`), `toTitle` gives each
  word its capital (`CasedValue`), and `splitCamel` finds the words of an enum again
  (`SplitBack`).

The loops over letters are `FlattenSeq` of a sequence, and a name is taken apart word by word:
`FlattenWord` says what a loop makes of one word more, `SnakeStep`, `SplitStep`,
`UnderscoreStep` and `CapitalStep` what each function does with it. These are inductions
over the number of words, which the library's induction theorems, taking an operator as a
parameter, cannot be instantiated for. `SetInduction` is induction for a set instead: it
follows from `LeastNatural`, and that from the library's theorem that the finite subsets of a
set are well-founded under inclusion. The assumptions are `LettersAssumption` (a letter has one
capital, which is no small letter; separators are no letters), `WordsAssumption` and
`NowAssumption`.

Every invariant that a passing run checks is proved, as are the refinements. Only
model-checked: the liveness properties `MailArrives`, `EveryEventDelivered`,
`EveryRowDelivered`, `ServesInTheEnd` and `StopsInTheEnd`, which rest on fairness and
are out of the prover's reach, and that the four disagreements above happen.

## What is not

- Streaming wrappers of the interceptors (no streaming RPC is served), and of
  `auth.go` the optional and role-checking interceptors, which no code uses.
- A request's deadline or cancelled context, except as an error of the method.
- Around the lifecycle: the pprof server, which nothing waits for, errors of the
  configuration, which end a process before it opens anything, `Health` and `/ready` (which always answers
  OK), the sizes of the pools, and the mail goroutines a shutdown does not wait
  for (`Crash` of `AuthService` loses them).
- The `NopEmitter`, replaced before anything is served, and emitters without a
  logger.
- `ValidatePassword`'s rules (stateless; `Weak` and `Overlong` stand for what it and
  bcrypt refuse).
- Configuration and OAuth provider setup: no state and no interaction; their values
  are constants of the modules.
- `src/gen`: message and client types generated from `.proto` files. Most of the
  repository's lines are these; they hold field accessors and descriptors, no
  behaviour a model could have, and most belong to services no handler implements.
- The order in which two events reach the sinks: neither code nor docs promise one,
  and each event is of a row of its own, since no service updates one.
- Migrations beyond the columns and constraints the modelled code relies on.
- Storage growth: nothing deletes expired sessions and tokens, so there is no
  purge to model.
- A payload that a sink refuses for ever, and a worker without an endpoint: see
  the notes in the hazards of `PROJECT.json`.

## The plan

Done: 1. `AuthService`, `SessionLedger` and their proofs; 2. `OutboxProcessor`,
`AtLeastOnce` and their proofs; 3. `InterceptorChain` and its proofs;
4. `EventPipeline` with `OntologyEvents`, and its proofs; 5. `ServerLifecycle`,
`SchemaVersion` and their proofs; 6. store errors in the session properties and
their proofs; 7. `AccountProofs` and the tally of the collectors;
8. `OntologyGenerator`; 9. `OntologyProofs`. Left:

10. **`InterceptorChain` with `AuthService`**: how long an access token outlives its
   account's sessions. Every step would be one of `AuthService` under a stricter
   guard, so what is proved of it would carry over; what a client does with a
   refusal is in no code of this repository.
