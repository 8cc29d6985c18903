# Widget and lead-capture platform: a TLA+ model

The repository is a small multi-tenant platform. An owner defines a widget through an authenticated
API; a customer's page embeds it with one script tag; visitors submit its form to a public endpoint;
a background worker sends the confirmation. One Python process (FastAPI, synchronous services in a
threadpool) and one Postgres database hold all state. The hard part, as `DESIGN.md` says itself, is
"what happens when the input is hostile, the upstream is dead, or the same request arrives twice",
and, one may add, when the process dies or the owner deletes the widget meanwhile.

## 1. Inventory

| Part | State | Operations | Meets | What is hard | What makes it correct |
| --- | --- | --- | --- | --- | --- |
| Submission endpoint (`api/public.py`, `services/submissions.py`, `repositories/submissions.py`) | `submissions`, the threads' locals | `submit`: look the widget up, validate, rate limit, look the key up, enrich, insert row and job, answer | widgets (FK), jobs, limiter, geo, pool | two lookups and one insert in three transactions, racing with each other and with a delete; crash around the commit; a bounded pool | one submission per key, durable receipts, row and job together or not at all, everyone answered |
| Notification worker (`services/notifications.py`, `repositories/notifications.py`) | `notification_jobs`, the claimed batch in memory | claim, read the payload, send, mark, reschedule, give up | submissions (cascade), the webhook | a claim that outlives its process, several processes on one table, partial failure in a batch | exclusive claims, bounded sending, truthful and final statuses, settling |
| Rate limiter (`services/ratelimit.py`) | counters per address and per widget | `hit`, `sweep`, `check` | threads of the endpoint | clock read outside the lock, window edges, integer seconds, a refused request that has used up its address's share | at most double the rate, no unjust refusal, no single address closes a form |
| Config delivery (`services/delivery.py`, `api/public.py`) with the bundle's `mount` | none of its own; the widget row, browsers' caches | config with `ETag`, 304, loader | widgets, browsers, deployment | cached copies renewed by 304; deployment values in the payload | a 304 is true, bounded staleness, edits arrive |
| Widget administration (`api/widgets.py`, `services/widgets.py`, `repositories/widgets.py`) | `widgets` | create, list, get, update (bumps `config_version`), delete (cascades) | tenants, delivery, submissions | PATCH with nulls; honeypot name reserved only at write time | no tenant reads or writes another's rows |
| Tenants and keys (`api/deps.py`, `core/ids.py`, `repositories/tenants.py`, `scripts/seed.py`) | `tenants`, `api_keys` | seed, key lookup | all owner routes | seeds run twice or at once | a key opens its tenant only |
| Geo enrichment (`services/geo.py`) | none | `enrich`: a chain of providers | submission endpoint | failures, timeouts, providers that answer nothing | never raises, status tells why |
| Validation (`services/validation.py`) | none | `validate_submission`, `coerce` | widget fields | numeric edges (nan, inf, overflow) | only declared fields of the declared kind are stored |
| Dashboard (`services/dashboard.py`, `repositories/stats.py`, `static/dashboard.html`) | none; the page's view | list and count, four statistics | submissions | six queries that repeat each other's filters, at no common time; overlapping loads, late answers, keys changed meanwhile | the figures agree, are those of the key, and arrive |
| Loader and bundle (`loader_script`, `static/widget.v1.js`) | page globals, form, popover | queue, drain, mount, submit, close | config, submission endpoint | a bundle that fails to load, timers, a lost answer and a second click | one bundle per page, one form per mount |
| Middleware, errors, pool, migrations, start-up | pool, `schema_migrations` | CORS, size limit, `run_migrations` | everything | two processes migrating at once, one killed in between | public headers on public paths only; a file is recorded exactly when its schema is there |

Static pages, the test site, brand files and the Docker setup hold no logic to model.
`PROJECT.json` lists every part with its status, and under `hazards` each place where the code can go
wrong in a way a test would hardly reach.

## 2. Modules

| Module | What it is |
| --- | --- |
| `NotificationWorker` | the worker and its table; implements |
| `NotificationQueue` | the promise about a submission's notification, without workers or database |
| `NotificationWorkerProofs` | its theorems |
| `Submissions` | the public endpoint from the arrival of a request to its answer; implements |
| `SubmissionLedger` | the promise about what is stored and who is told what |
| `SubmissionsProofs` | its theorems |
| `RateLimiter` | the two windows of `RateLimiter.check` with their clock, lock, sweep and restarts |
| `RateLimiterProofs` | its theorems |
| `ConfigDelivery` | one widget's config, its etag, a browser's cache and the mount |
| `WidgetPage` | a customer's page: loaders, the bundle, the forms, the popover |
| `CustomerPageProofs` | the theorems about `ConfigDelivery` and `WidgetPage`, the two parts of a customer's page |
| `Tenancy` | tenants, keys, the seed and the owners' API; implements |
| `TenantShelves` | the promise that tenants do not see each other |
| `TenancyProofs` | its theorems |
| `Validation` | `coerce`, `coerce_number` and `validate_submission` as operators, and what they should do, said another way |
| `PublicEdge` | one request through the browser, CORS, the body limit, the routes, validation, the geo chain and the error handlers |
| `PublicEdgeProofs` | its theorems, and those about `Validation`'s operators |
| `Dashboard` | the statistics' and the list's queries, and the page that shows them |
| `DashboardProofs` | its theorems |
| `Startup` | the pool, the migrations and the lifespan of processes that start on one database |
| `StartupProofs` | its theorems |
| `...MC` | the small instances: model values, scenarios of requests, symmetry |

Definitions marked *Mutant* in a module are plausible bugs of the definition below them; substituting
one breaks the property `PROJECT.json` pairs it with, which shows that the property depends on that
piece of code. No specification uses them.

### NotificationWorker

A row of `notification_jobs` is `status`, `attempts` and `wait` (time units until
`next_attempt_at`); `"none"` is a submission not stored yet and `"gone"` a row the cascade took. A
process is the batch it claimed (with the attempt number it was told, `job["attempts"]`), the job in
hand and a program counter, one value per await of `process`. Each repository call is a transaction
and one action: `ClaimDue` (`claim_due`), `ClaimOne` (`claim_one`, used by drivers such as the
repository's tests), `PayloadFor`, `MarkGone`, `MarkDelivered`, `HandleFailure` (`reschedule` or
`mark_dead`); `Deliver` is the call that may print an email, reach the webhook, do both or fail.
`Enqueue` and `DeleteWidget` are what the rest of the platform does to the table. `Crash` is the death
of a process or `stop()` cancelling it at an await; `DbError` is a repository call that raises, which
leaves `tick()` and forgets the rest of the batch, because only `deliver()` is inside the `try`.

Abstracted: `ORDER BY next_attempt_at LIMIT n FOR UPDATE SKIP LOCKED` is any non-empty set of due
jobs of at most `BatchSize` (other rows may be locked); the order inside a batch is free; the words of
errors, alerts and emails are left out.

### Submissions

A request, the row it may insert and that row's job share one identity, so that a receipt's id can be
compared with the request that made the row. `row` and `job` distinguish `"open"` (inserted in a
transaction not yet committed) from `"stored"`. Every early return of `create_submission` and
`submit` is a branch: `Arrive` (400, 413), `GetActive` (404), `Check` (400, 429), `Find` (200),
`Insert` (`ON CONFLICT DO NOTHING`: waits for an uncommitted row with the key, gives way to a
committed one, fails its foreign key for a deleted widget), `InsertJob`, `Commit`, `Receipt` (201,
202), `FindAgain`. `Raise` is the 500 that some input brings about alone: a request's `raises` names the step at
which no handler stands around the exception (a NUL in `widget_id`; an integer that overflows `float()`, or half a
surrogate pair in an error's text; NaN, a NUL or an oversized key in the insert). An empty key is falsy for the first lookup and not NULL for the index, as in the
code. A connection of the pool is held from `Connect` to `Commit` and lent to each read. Owners
deactivate and delete between any two steps; a delete waits for the inserts that hold the widget's
row. What Postgres does here (unique index, row locks, foreign keys, rollback) is modelled from the
schema and the statements in the code.

### RateLimiter

`Check` is `check` up to its first call, with `maybe_sweep`'s counter; then each of `SweepIp`,
`SweepWidget`, `HitIp` and `HitWidget` is one call of a window's `sweep` or `hit`, in the code's order,
and a refusal by the address ends it. Both calls read the clock before the lock, so each acts on a
`read` that is up to `calling` units old. Moments are kept as ages (the code only subtracts them), so no
clock runs away and the model is finite without an end of time. A count of 0 is a missing key. `admitted` (how many
hits returned `None` up to each age, so that a stretch up to now is one of its values) and `share` (how many
of a widget's window are each address's) are history for the properties. A second is several units, so that a cut
second shows.
`Restart` is a new process with empty counters.

### Validation and PublicEdge

`Validation` has one representative for each way a JSON value can meet a field: words, an address, an option,
text at and beyond both limits, text that reads as a number, a boolean or nan, a NUL, JSON numbers (nan and
an integer no float can hold included), booleans, null, a list. `Coerce`, `Cleaned` and `CleanedData` follow the code branch by
branch; `Takes`, `Keeps` and `Fits` say directly which values a kind of field takes and what is kept of
them, and do not mention `Coerce`: a number is a finite one, and a text has no NUL.

`PublicEdge` follows one request. `Send`, `Preflight` and `Arrive` are the browser; `Out` is what
`PublicCORSMiddleware` adds on the way out; `Respond` answers inside it and `Raise` outside it, where
Starlette's last resort stands. `Read` and `Admin` are the routes other modules have more to say about,
reduced to their answers. `Body`, `Gates`, `Validate`, `Limits`, `Enrich`, `Ask`, `GiveUp`, `Insert` are
`create_submission` and `submit` in their order; `envelope` is what may be wrong around the data in a way that
raises. A provider that raises, times out or answers without a place comes to the
same in `enrich`, and is one disjunct of `Ask`. Left out: what a provider says, the wording of
errors, honeypot spam (`Submissions`), and fields beyond one declared and one stray: fields do not affect
each other in `validate_submission`, apart from sharing its verdict.

### Dashboard

The queries are written as the SQL has them, each with its own joins and filters. A load of the page asks
five requests and six transactions, at no common time. While no row of its tenant comes or goes the load is
`calm`: every transaction then reads the same, and the figures are taken from the tables when the load ends.
If one does, the figures may be any mix and are not looked at (`None`). This is an abstraction that loses
nothing `FiguresAgree` asks. `shown` is the key whose load ended last with figures, and those figures. `Answered`, `Unauthorized` and `Failed` are the `then` and the two branches of the `catch`;
other tabs write `localStorage` (`OtherTab`), and loads overlap in `Slots`. Left out: the overview's
`last_24_hours`, `enriched` and `last_submission_at`, which nothing else on the page repeats, the API's
parameters that the page never sends (`offset`, `include_spam`, a widget's filter), and ages do not grow.

### Startup

A relation of the schema is absent, built, or being built by a transaction; `recorded` are the rows of
`schema_migrations`. A file of `migrations/` and what it builds share one name. `IF NOT EXISTS` looks at what
is committed (`Look`, `File`); a statement that found nothing waits for another transaction that builds the
same relation and raises if it commits (`Take`). `Record` is the row and the commit, which includes all the
file built. The processes are the app, its seed, copies, and an image that knows fewer files;
`Kill` may end one anywhere, which rolls its transaction back.

### ConfigDelivery

The row is `state`, `look` (everything editable) and `version`; the deployment's share of the payload
is `honeypot`. `MountOn` is the bundle's fetch and what it renders: from the cache while fresh, else
404, 304 or 200. `Reseed` is the seed creating a deleted demo widget again under its fixed id;
`Redeploy` changes `HONEYPOT_FIELD`. Browsers do not affect one another or the row, so one is enough for TLC; the
theorems are about any number. The specification is `ConfigSpec`, with fairness `FairConfigSpec`.

### WidgetPage

`LoaderRuns` is the loader of one script tag (`LOADER_TEMPLATE`), `BundleRuns` the end of
`widget.v1.js` that drains the queue, `ConfigArrives` what `mount` does with the config. A card is one
call of `buildCard`; a popover may open several, and one that is closed is still answered. `Submit` to
`Lost` are the form's handler with its answers; `Lost` is its `catch`. `TimerFires` closes whatever
panel is open. Page scripts run one at a time, so each callback is an action. Left out: inputs, their
own checks, styles and themes. The server is `ServerDecides`: a request carries no key, so every one
that it accepts is stored anew.

### Tenancy

A row of `tenants` and a key are named after the run of the seed and the entry of `TENANTS` that made
them; a widget is its owner and the names of its fields. The seed is one action per repository call,
and may be killed before any of them; `Created` moves on to the next widget or entry. An owner's
request is `Authenticate` (`require_tenant`) and then one operation; `Owned` is the clause
`id = ... AND tenant_id = ...` that four of its statements share. `Nonsense` is what pydantic and
`check_fields` refuse, apart from the honeypot's name (`Reserved`), which depends on the deployment.
`EditNulls` is a PATCH with an explicit null: 500 from the column's NOT NULL if the row is the
caller's, 404 if not. `get_embed` reads what `get_widget` reads and is the same action. A body that is
not JSON is refused before the key is looked at, and left out with the other requests that have no key.
In `TenantShelves` the one table is a shelf per tenant; a request is answered from its caller's alone.

## 3. Runs

| Run | Bounds | Shows |
| --- | --- | --- |
| `Worker` | 2 jobs of 2 widgets, 2 workers and 1 driver, batches of 2, 3 attempts, 1 crash, 1 error | the safety properties below, that the worker implements `NotificationQueue`, and that every job settles unless a fault stranded it |
| `WorkerCrash` (violation) | 1 worker, 2 attempts, 1 crash | `DESIGN.md`'s promise fails: a job stays `processing` for ever |
| `Submissions` | 3 requests in 9 scenarios of keys, bots, widgets and input that raises; pool of 2, 1 crash, 1 error | idempotency, durability, atomicity, the causes of a 500, the ledger, and that everyone is answered |
| `Limiter` | 2 threads, 2 addresses, 1 widget, limits 1 and 3, windows of 3 units, lag 1, a sweep every 2 requests, 1 restart | the rate, the refusals, and what an address can cost a widget |
| `ConfigSafety` | 1 browser, 2 looks, 3 versions, 1 redeploy, 1 reseed | etags, staleness, arrival of edits |
| `ConfigRedeploy` (violation) | 1 browser, 1 redeploy | a 304 for another payload |
| `Page` | an inline widget and a popover, 2 cards each, 2 submits per card | one bundle, one mount, earned thanks, nothing stuck |
| `Tenants` | 2 runs of the seed over 2 names with 2 and 1 demo widgets, 1 other widget, 1 request at a time, 2 field lists, 2 honeypot names | isolation, the seed, the honeypot's name |
| `Edge` | every kind of caller, path and key; one text field with three chains of providers and every switch; every kind of field with one chain; every kind of value | what foreign pages see, what is stored, what a location says |
| `EdgeBadType` (violation) | as `Edge`, every kind of field with one chain | a number field and an integer that no float holds: a 500 where the documents say 400 |
| `Dashboard` | 2 tenants with 2 and 1 widgets, 4 submissions, 3 keys of which one is wrong, 2 loads at once, pages of 1, 2 countries | the figures, whose they are, and that loading ends |
| `Startup` | 4 processes of which one knows 1 file and three know 2, 1 error | migrations and what a start may end in |

Properties, and the question each asks:

- `ExclusiveClaim`: can two processes ever work on one job, or one work with a stale attempt number?
- `OneEmailPerAttempt`, `StatusIsTruthful` (both `DeliveredMeansSent` and `DeadMeansExhausted`): how
  often may a visitor hear of one submission, and can a status lie?
- `FaultCostsOneBatch`: how much can one crash or error strand? `SettledOrStranded`: does everything
  else settle? Together: without a fault, every job settles. (With two jobs and batches of two, what the run
  can refute is that a job is stranded without a fault; that a fault costs no more than one batch is the
  theorem `FaultsCostBatches`.)
- `OneSubmissionPerKey`, `ReceiptIsDurable`, `TablesAgree` (a job follows its submission, no orphan of a
  deleted widget): do the lookups, the index, the transaction and the cascade add up, in every order?
- `ErrorsHaveACause`: when may a visitor see a 500? A database error, a widget deleted during the
  request, or input that raises by itself wherever it is sent alone; never by the order of the requests: the
  loser of a race for a key finds the winner's row, or else the widget is gone.
- `EveryRequestAnswered`: can requests block one another through the pool or a key's holder?
- `AtMostDouble`, `RefusalIsEarned`, `ManyHandsCloseAForm`: is the limit a limit, and only that?
  `AtMostDouble` speaks of stretches of `Window - MaxLag`: with a thread that is delayed between clock
  and lock, a window may open in the past and a stretch as long as a whole window can see three bursts.
  `ManyHandsCloseAForm` is why `check` asks the address first: before a widget's window refuses anybody,
  many addresses must have been counted in it, since one that is refused costs the widget nothing.
- `SameTagSameLook`, `StaleOnlyByMaxAge`, `EditsReachEveryone`: does caching hide an edit?
- `LoadedOnceMountedOnce`, `EveryLoaderMounts`: does every order of loaders and bundle end with each
  widget mounted, once? `ThanksAreEarned`: can a visitor be thanked for nothing, or a card store twice
  without a lost answer? `CardsComeToRest`: can a button or a panel be stuck?
- `SafeToRunTwice`: is the seed's own claim true of runs that follow each other, killed ones included?
  (Of overlapping runs it is not: names are not unique in the table, and the model reaches the failed
  insert.) `NamesMatch`: what holds even then. `HoneypotStaysFree`: who can make a widget ask people
  for the field that marks bots? `Tenancy`'s `Implements`: can one tenant's request change or learn
  anything of another's?
- `ForeignPagesSeeThePublicSide`: do the middlewares' order and the browser's preflight give foreign pages
  all of the public API's answers, refusals included, and nothing else? `OnlyFittingDataIsStored`: do
  the branches of `coerce` accept what fits the field and store nothing else, and does a form that fits
  ever end in a 500? `BadTypeIsNeverA500`: does one that does not fit? (It does: section 5.)
  `LocationTellsWhy`, `AddressesStayHome`: does every chain of providers end in the status that is true,
  and which addresses leave the house?
- `FiguresAgree`: do six queries that repeat each other's filters count the same submissions?
  `WhoseFigures`: whose figures are on the screen, after overlapping loads, refused keys and signing out?
  `LoadingEnds`: is the page ever left loading?
- `RecordedMeansBuilt`, `ServesAWholeSchema`: can a crash, an error or another process leave a file
  recorded and not built, or the reverse? `FailsOnlyInARace`: what can keep a process from starting?
  `EveryStartEnds`: can two processes wait for each other's schema?

Why the bounds are enough: two jobs and batches of two have a full batch, a job left over when the other is
taken by name, and workers and a driver competing; two widgets let a cascade take one job and not the
other; three attempts have a first, a middle and a last one. Three requests with one key have a winner, a
loser of the insert and a late replay, and a second widget with the same key shows that the index
keeps widgets apart. A pool of two is full while one request inserts and another waits for its row, and a third
wants a connection. The scenarios are chosen instead of every triple of contents: requests that share neither key nor
connection do not meet, and a request that raises at a step is watched beside two that carry its key. The limiter's ages have no end, so any number of
windows follow each other; with these windows an address gets two hits at most into one window of a widget, so a
widget's limit of 3 over an address's limit of 1 takes both addresses, and is reached: the widget's window does refuse; a sweep every second request falls between any two hits. Three versions let a copy be two edits old; `MaxAge = 2` separates fresh,
old and expired. Two tags share one bundle and a queue, one of each layout; two cards let one be answered
after it was closed. Two overlapping seeds give two tenants of one name, which is all that matters, and
two demo widgets of one entry let them divide it. The two widgets of one entry are interchangeable,
hence the symmetry; requests are two steps of which the first reads what never changes, so one
at a time is enough. An edge's chain of two providers has a first, a last and one
passed over. Four submissions of two tenants have a lead, a spam, an old one and a stranger's; two loads
overlap, and a third adds nothing since the last to answer decides. Two files and an older image
have a schema that is ahead of a process, and four processes a winner, two losers and a late one. Counters of faults,
versions, restarts, loads and excess requests are the only unbounded quantities, and each has its constant.

Deadlock checking is off throughout: visitors, owners and processes may all stop, a request is over when
it is answered, the bounds on faults and versions end some models, and liveness is asked for as liveness.

Fairness. `NotificationWorker`: time passes, each worker that can claim does (`run` never leaves its
loop, and catches what `tick` raises), each process runs its next step (every await returns:
statements, and a post with `NOTIFY_TIMEOUT_SECONDS`). Drivers, visitors and owners owe nothing, and
faults are never fair. `Submissions`: a request in the threadpool runs its next step when that is
enabled; weak fairness suffices since an insert's wait ends with the other's commit and the pool is
served in turn. `WidgetPage`: every fetch of the
page ends, one way or the other, and timers fire. `ConfigDelivery`: time passes and the
page is opened again and again. `Dashboard`: each of a load's requests is answered or fails. `Startup`: a process that
was started runs (`build_pool` waits for `wait_seconds` only, and a statement's wait ends with the
other's transaction); nobody is obliged to start or stop one.

## 4. Proofs

All theorems are checked by TLAPS for every value of the constants, under the named assumptions of
the modules, which TLC evaluates on every run. They give the constants their types and keep special
values apart from ordinary ones; those that say more are: submissions are finitely many, workers are not
drivers, the special idempotency keys differ, powers of two are positive (`PowerAssumption`, for which the provers
have no rule), files of `migrations/` have different names, a window is whole seconds and longer than the clock's lag, the threadpool is finite, a database holds finitely many widgets and
submissions, the page can have a load under way and its series is longer than a week, `TENANTS` is not empty and no demo
widget's id is listed for two names. Each inductive invariant was checked by TLC on the instance of the module's run before it was proved.

`NotificationWorkerProofs`. `TypeOK` and the safety properties are not inductive as they stand: that
a job is retried only while attempts are left follows from what a *holder* knows. The invariant
`IInv` adds to `TypeOK`, exclusivity, and truthfulness: where a process with a job in hand stands,
what must have been sent by then, that the attempt in progress has not been counted as sent before
`Deliver`, and that a row never claimed is untried. One lemma per kind of step (claim, return, forget)
carries most of the induction. From it: `TypeCorrect`, `ClaimsAreExclusive`, `EmailsAreBounded`,
`StatusesAreTruthful`, `SettledJobsStay` (a delivered or dead job never changes again, which is also part of
what the queue promises) and `WorkerImplementsQueue`, the last by the refinement
mapping `outcome`, `tries`, `sent` of the module, action by action. `FaultsCostBatches` bounds the stranded
jobs by `BatchSize` per fault: a step other than a fault strands nobody new, and a fault strands what its process
held, a batch at most (lemmas `Part`, `Shrink`, `NoLoss`, `ClaimLoss`, `FaultLoss`, on cardinalities).

`SubmissionsProofs`. `IInv` ties each request's program counter to its row and job (an open row
belongs to a request inside its transaction; a committed row waits for its receipt), says that two
live rows never share a key, and that a receipt names a committed row of the same key. Lemmas treat
steps that only move on, steps that answer, and rollbacks. From it: `TypeCorrect`, `ReplaysAgree`,
`ReceiptsAreDurable`, `RowsBelongTogether` and `SubmissionsImplementLedger`. `ErrorsAreExcused` needs one
fact more, inductive beside it: who lost the insert to a committed row still finds that row, or its
widget was deleted since, for a submission goes only with its widget.

`TenancyProofs`. `SafeToRunTwice` is about two moments of a run, between which it has looked and not yet
written. `IInv` therefore adds to `TypeOK` and `NamesMatch` where a run of the seed stands in its list
(`SeedsKnowTheirPlace`: the tenant it holds has its entry's name, what is left are its entry's widgets) and
`MissingStaysMissing`: while no runs overlap, what a run found missing is missing until it writes. `TenantsAreApart`
is a refinement: `TenantShelves` has a function from tenants to shelves and knows no table, keys or
seed; each statement of the API is one action of the caller's shelf or none (`ServeRefines`), each of the
seed at most one (`SeedRefines`). `OwnersAvoidTheTrap` is an action property, from the same invariant.

`PublicEdgeProofs`. The first half is about operators: `CleanedFits` says that `Cleaned`, the code's branches, and
`Fits`/`Keeps`, the reference, agree on every value and kind of field, apart from what jsonb then refuses; `DataFits` the
same of a whole submission. `IInv` says for each place of the request what has been decided there: `Border` which answers are on their way
and whether a foreign page may read them, `Content` what `verdict` and `row` owe to the data, `Places` that the
providers asked are exactly the eligible ones before `position` (what makes `LocationTellsWhy` inductive, for a chain
of any length).

`CustomerPageProofs`, `ConfigDelivery`. `ConfigIInv` adds that no copy is ahead of the row and, as long as
nothing was redeployed, none has another deployment's honeypot name. `EtagOfOneDeployment` is the other side of the violation `ConfigRedeploy`: without a redeploy and a
reseed, an etag vouches for the whole payload, so there is no third cause.

`CustomerPageProofs`, `WidgetPage`. `IInv` ties the flag on `window` to the fetch, the queue to loaders that ran and have not
mounted, and the button to the request: it is disabled exactly while one is out. `NothingIsStuck` is
the safety half of `EveryLoaderMounts` and `CardsComeToRest`: a queue that is not empty waits for a bundle that is being fetched
or has failed, and an open panel with thanks has a timer.

`RateLimiterProofs`. `Rate` is what makes `AtMostDouble` inductive: a key's window was opened `age` ago by the clock
of the thread that opened it, and in truth `o` ago, `age - MaxLag` at least. Up to `o` only this window has let anybody
through; up to a window less the lag before that, only it and the one before, since nobody could find that
one expired sooner; and where there is no window (after a sweep) the last such stretch holds one limit. One lemma for
each thing that can happen to a key (time, sweep, opening, counting, restart) keeps `Rate`, and three keep `Fair`,
that a window has counted, up to its limit, only whom it let through since it opened: `RefusalsAreEarned`.

`ManyHands`, in the same module, relates the two windows. An address's window expires by a clock that is at most
`MaxLag` late, so two of its windows are opened at least `Spell = IpWindow - MaxLag` apart. `PaceIsKept` says so of
every stretch at once: there is a moment `o` at which the address's window was opened, and of what is counted for it in a
widget's window, or is between `HitIp` and `HitWidget` and may still be counted there, at most `j` windows' limits and the
present count date from the last `o + j * Spell` units (`Bounded`). It must speak of the requests on their way (`Coming`), since a thread may be
late for a window that another has opened, and for windows that have expired it keeps only the bound that is to be
shown. Hence `OneAddressIsHeld`: no address has more than `WindowsTouched * IpLimit - 1` of a widget's window. The one less
is the hit that opened the first of these windows, which lies before the stretch; the run's bounds attain the number.
`SharesAddUp` says that a window's count is what its addresses have in it, as the cardinality of a set of pairs, so that no
sum over a set is needed; the limit is then at most the number of addresses times that bound.

`StartupProofs`. `IInv` says that what a process found or wrote stays recorded, that it has a file in hand while it
builds one, and `AloneUnlessRaced`: a process that met no other knows all that is recorded, from which
`FailsOnlyInARace` follows. That the next file is the first that is missing needs the least number of a set, which
`LeastNumber` gets from the library's well-founded minimum.

`DashboardProofs`. `FiguresAgree` compares sums over the queries' groups. A sum of the library's folds is a recursive
function chosen by `CHOOSE`; `SumIsUnique` shows that there is one only (a set on which two of them differed would have a
smallest such subset), and `SumIsCount` names it: when each group's figure is the cardinality of its rows, the sum is the
cardinality of their union. What is left is that every lead is in one widget's group, one country's and at most one
day's (`WidgetsAddUp`, `CountriesAreLeads`, `BarsAreLeads`; `LargestFew` for the list of the largest countries), which
needs that no submission is without its widget. `WhoseFigures` speaks of a page with no load under way; `OneKey`
adds that, while nothing excuses the page, each load under way was sent with the key in the browser, so that
whichever answers last shows its figures.

Only model-checked: all liveness (`SettledOrStranded`, `EveryRequestAnswered`, `EditsReachEveryone`,
`EveryLoaderMounts`, `CardsComeToRest`, `LoadingEnds`, `EveryStartEnds`), which is beyond the prover. Every invariant and
every action property of a passing run, the three refinements included, is a theorem; the three properties of the
violation runs are false.

## 5. What disagrees with the documents

- A claimed job is never claimed again, so a crash, a `stop()` or a database error strands it
  (`WorkerCrash`; the same happens to the rest of the batch after an exception in `process`).
- The etag does not cover what the deployment adds to the payload (`ConfigRedeploy`), nor a demo
  widget seeded anew at version 1.
- "Malformed JSON / unknown field / bad type -> 400 (never a 500)" (`README.md`) and "bad input -> clean 4xx,
  never a 500" (`EVIDENCE.md`) do not hold of an integer too big for a float in a number field: `float()` raises
  `OverflowError`, `coerce` catches two other exceptions (`EdgeBadType`). The same model has the other ways to a 500: a
  number that is or reads as nan, or a text with a NUL, which validation accepts and jsonb refuses; a `widget_id`
  with a NUL; a name with half a surrogate pair, which the 400 would have to quote.

Observed, without a run of its own:

- A widget deleted during a request makes a 500, which no outcome table lists; `ErrorsHaveACause` says
  exactly when.
- A comment in `submit` says a bot is told the same as a person; the code, and the outcome tables, say
  202 and 201.
- `Retry-After` is cut to whole seconds, so a client that waits as told may be early by less than one;
  `RefusalIsEarned` has the bound.
- The list and its total are two transactions, so "the count always matches" (`repositories/submissions.py`)
  while no row changes in between.
- A late answer on the dashboard may show the former key's figures, or wipe a newer key, when loads
  overlap; the exceptions of `WhoseFigures` list the cases.
- A 500 is answered outside the CORS middleware, so a foreign page cannot read it.
- A private address with every provider switched off or down gives `skipped_private_ip`; one table in `README.md` says
  `unavailable`, its list of limitations says what the code does.

## 6. Not modelled, and what is left

What would come next are compositions: `WidgetPage` with `Submissions` (no key is sent, so a retry is a second
submission), and `Submissions` with `NotificationWorker` (a stored submission is what `Enqueue` sees).

Not modelled: the landing page and the test site, which have no state; paging by `OFFSET`, which the page
never uses; the rest of the `widgets` table's columns, which only travel. Left out for good: wording and
layout of pages and messages, the HTTP server and Postgres beyond what the code relies on, TLS,
deployment files.
