# A TLA+ model of the py-fastapi-htmx application

The repository is a Nix template whose product is one web application,
`src/templates/py-fastapi-htmx/src/app` (**APP** below): FastAPI, an async SQLAlchemy session per
request, PostgreSQL (SQLite in development) and HTMX pages. This directory models the parts of
APP that keep state and are used by several requests, processes, tabs or background tasks at once,
and the deployment that brings them up. It checks them with TLC on small instances and proves every
safety property that a passing run checks, of all nine state machines, with TLAPS: for any number of
requests, rows, endpoints, sign-ins, rotations, tabs, connections and processes.

## 1. The system

### Components

| component (APP/...) | state | operations | hard behaviour | what makes it correct |
|---|---|---|---|---|
| items: `domains/items/` | `items` rows: status, `archived_at`, owner, text | create (JSON, pinned id, HTML form), edit, delete, change status, list | decisions on a row read without a lock, commits before or after the response | legal lifecycle, edits do not undo status changes, one event for each change, no event from a rollback |
| event bus: `core/events.py` | registered handlers, one background task per request | `publish_after_commit`, `publish` | handlers run after the response, one may fail, all die with the process | no handler works on what did not commit; handlers are isolated |
| webhook dispatcher: `domains/webhooks/dispatcher.py` | delivery rows; coroutines sharing one session | fan-out, POST, record, retry, final commit | colliding flushes, endpoints deleted during a dispatch, timeouts, crash | every subscribed endpoint is tried, committed records are complete, no attempt after a final answer, termination |
| endpoint administration: `domains/webhooks/{service,api,router}.py` | `webhook_endpoints` | register, update, delete, list | runs beside dispatches | no delivery row outlives its endpoint |
| inbound receipt: `domains/webhooks/{service,api,signing}.py` | `inbound_deliveries`, keyed by the sender's id | limiter, read body, verify signature and age, record, acknowledge | retries overlapping the original, failures between insert and commit | recorded once, audited at most once, acknowledged only when committed |
| audit trail: `domains/audit/` | `audit_events` | the two event handlers, list | runs after the response in a session of its own | at most one entry per recorded delivery |
| rate limiter: `core/ratelimit.py` | counters per (key, window) in a table or a dictionary per process | check, prune, purge | parallel increments, window boundaries, purge by window number | limit respected, nobody refused early, Retry-After leads past the window, running counters are kept |
| sign-in and lockout: `domains/auth/{service,router,models}.py` | `failed_login_attempts`, `locked_until` | authenticate, register failure | read-modify-write in Python across an Argon2 verification, commit of a success after the response | locked at the threshold, never sooner, never shortened |
| API keys and tokens: `domains/auth/{api,dependencies,service}.py` | `api_keys`: scopes, expiry, revocation, last use | mint, exchange for a token, resolve, revoke | a revocation that commits after its response, tokens older than the key's state | a token never has more than its key; revocation ends both |
| sessions, encryption, rotation: `core/{security,crypto}.py` | secrets of each process, stored ciphertexts, issued cookies and tokens | sign, verify, encrypt, decrypt, rotate | processes with different secrets side by side, a rewrite job interrupted | nothing becomes unreadable during a rotation |
| CSRF and pages: `core/csrf.py`, `main.py`, `domains/*/router.py`, templates, `static/js/app.js` | the cookie jar of a browser, one hidden field per page | issue, reuse, attach, verify; redirects to and from the login page | several tabs, responses in any order, processes with different secrets | a page that was served can be submitted, pages side by side stay submittable, redirects end |
| database sessions: `core/database.py` | one transaction per request, the pool of connections of a process | acquire, flush, commit, teardown, rollback, close | teardown commits after the response and the background tasks, handlers need connections of their own | connections come back, nobody waits for what only its own end releases |
| network guard: `core/netguard.py` | the address pinned for each delivery | check at registration, pin for a dispatch | a name resolves to something else at each lookup | only the address that was checked is contacted |
| schema: `migrations/` | tables, `alembic_version` | upgrade, downgrade | two at once, one cut short, SQLite commits every DDL statement | the version tells the schema, no reference without its table |
| command line: `cli.py`, password policy: `core/passwords.py` | accounts, the first rows | `create-admin`, `seed-demo` | look first, insert later; several inserts and an enrolment; the breach corpus unreachable | one account per address, every administrator can sign in, all or nothing |
| settings: `core/settings.py`, assembly: `main.py`, `handler.py` | settings cached per process, the handlers on its bus | validate, wire, serve, restart | variables misspelt or left out, development defaults in production, servers that wait for no migration, lifespans entered again | a server that starts finds a whole schema and calls each handler once |
| middleware, error handlers, logging, templates flake, infrastructure, CI | none at run time, or per request | presentation, request ids, headers | none between requests | – |

### Interactions

A request enters through middleware and the dependencies of its route: rate limiter, CSRF or bearer
credentials, `get_session`. The service functions of a domain change rows through that session and
never commit, with three exceptions: `publish_after_commit` (status change, inbound receipt) and
the HTML create commit before the response; `_register_failure` and the limiter commit at once.
Everything else commits in the teardown of `get_session`, which FastAPI (0.141 in `uv.lock`) runs
after the response and its background tasks (`core/events.py:12-18` explains why the event path
commits by itself). Events are handed to a background task of the same request, which calls the
audit handler and the webhook dispatcher in parallel, each with a session of its own.

Nothing in APP locks a row explicitly or uses a version column: what overlapping requests may do to
each other is decided by single statements, primary and foreign keys, and PostgreSQL's row locks at
READ COMMITTED. That is where the models look.

## 2. Plan

1. **Done.** `Items` with its abstract specification `AtomicItems` and the proofs `ItemsProofs`;
   `WebhookDispatch`; `RateLimit`; `InboundReceipt` with `AtMostOnce`; `AccountLockout`;
   `SecretRotation` and, on top of it, `Credentials`.
2. **Done.** `Browser`, a second composition on top of `SecretRotation`; `ConnectionPool`, which
   composes requests, the bus and its handlers over one pool, with `ConnectionPoolProofs`;
   `Deployment`; registration and the network guard in `WebhookDispatch`; the proofs of both
   refinements and those of `WebhookDispatch`, `InboundReceipt`, `AccountLockout` and `Credentials`.
3. **Done.** The proofs of `RateLimit`, `Deployment` and `Browser`, whose responses became records of one
   shape and whose type invariant says what is on its way. The refinement of `AtomicItems` by requests
   that overlap, the theorems about `RateLimit` for every deployment, the two reads of a bearer request, the
   index that makes an address unique, and the settings a deployment may be given.
4. **More of the model.** Scopes of keys and tokens in `Credentials`. A run for the revocation seen
   from its response on (`auth/api.py:68` says "Revoke a key immediately").

Every module takes its parameters as CONSTANTS with one named ASSUME, has one action per handler
step, and contains no RECURSIVE operator, so that it can be proved about.

## 3. Modules

Common conventions. A request is a process that is served once; `phase` says where its coroutine
stands, and a step ends where the code awaits something another process can see: a statement, a
commit, the response. A transaction is READ COMMITTED: a SELECT sees committed rows, the first
write of a row takes its lock, and a commit or rollback releases it. Operators with a comment "faulty"
are deliberate mistakes of the kind a change to the code could bring in; each is used to confirm
that a property notices it, and none is part of a specification.

### Items, AtomicItems, MCItems

| Items | code |
|---|---|
| `db`, `lock` | the committed `items` table, the transaction that has written a row |
| `call`, `seen` | the request's arguments and the row object its session loaded |
| `Get` | the SELECT of `service.get`/`session.get` and the decision in `update`, `delete`, `change_status`, `create`: refused (404, 409, 422), nothing to do, or go on |
| `Flush` | the INSERT or UPDATE; a key that exists raises IntegrityError, a row that is gone raises StaleDataError |
| `Commit`, `Respond` | `publish_after_commit`, or the explicit commit of the HTML create, and the response |
| `Teardown` | the commit in `get_session` after the response, which is also when a DELETE is issued |
| `HandlerReturns` | one handler of `EventBus.publish` finishing or failing |
| `DatabaseFails`, `Crash` | rollback with an error; death of the process, losing the background task |

`Edited` and `Moved` write only the changed columns, as the unit of work does. `AtomicItems` is what
the code keeps of its promise however requests overlap, fail and crash: a create, an edit and a delete are one
indivisible change of one row; a status change is decided at one moment, when it must be a legal move of the
row as it then is (`Decide`), and takes effect at a later one together with its announcement (`Move`), or
never (`GiveUp`). `Items` implements it (`ImplementsAtomicItems`). That a move is still legal when it takes
effect is not part of it, because the code does not see to it: `items_second_round` shows two equal changes
that both take effect. `OwnerScoped` exempts an id that was deleted and pinned again after the read: there the
change falls on the new row, whoever owns it (`service.py:79` checks the row as read).

### WebhookDispatch

One dispatch of one event. `Match` is `dispatch_event` up to the first POST of each coroutine
(`_matching_endpoints`, `pin_target`): each name is looked up once, a lookup is a set of addresses of
either sort, and one of a safe lookup is pinned. The retries use the pinned address again
(`Target`), and `contacted` remembers where the POSTs went. `Answered`/`Wake`/`FlushEnds` the body of `deliver`,
`Finish` the end of the gather and the final commit. `flushing`, `batch`, `pending`, `inserted` and
`broken` are the state of the one AsyncSession the coroutines share. SQLAlchemy is external: it is
modelled by what it does to APP, namely that a flush started during another one raises, and that a
failed flush rolls the transaction back. `Register`, `Toggle` and `DeleteEndpoint` are the operator's
requests. The lookup that registration checks says nothing of later ones, so every endpoint may have passed it.

### RateLimit

`Stamp` and `Upsert` are the two halves of `DatabaseLimiter.check` (the clock is read before the
statement runs), `CheckMemory` is `MemoryLimiter.check`, which awaits nothing, `Purge` is
`purge_expired`. A `deployment` fixes the backend, the window length of each bucket, the argument
of the purge and the threshold of the pruning; it is chosen at the start and never changes. `Verdict`
and the operators above it are the window arithmetic of `_verdict`. Every deployment is in the model, also
those in which running counters are lost. `CountersLast(k)` says in which buckets they are not, which no line of
APP sees to: a purge is given a window at least as long and keeps off the requests under way; in a dictionary no
other bucket has a shorter window, or there is room for all. `LimitRespected` is about those buckets,
`LossNeedsUnequalWindows` about all: a running counter is lost to unequal windows only. `RefusalsAreJust` needs
no such condition. A statement that waits for longer than a window is counted, and refused, in the window of
its clock reading (`ratelimit.py:155`), so its Retry-After, counted from the answer, leads past that window
by as much as the answer was delayed.

### InboundReceipt, AtMostOnce

`Arrive`, `Verify`, `Flush`, `Commit`, `Respond` are `receive_inbound` and `accept_inbound` in
order; the verdicts of the body size, freshness and signature checks are inputs.
`OnInboundWebhook` is the audit handler. `AtMostOnce` promises that a delivery is recorded once and
has at most one audit entry, written after it is recorded.

### AccountLockout

`Authenticate` reads the clock and the row and takes every decision of `authenticate`;
`RegisterFailure` writes the absolute counter and commits; `SignIn` flushes a success and
`Teardown` commits it after the redirect. `failures`, `streak`, `failedAt` and `overlapped` are
history variables and influence nothing.

### SecretRotation, Credentials

| SecretRotation, Credentials | code |
|---|---|
| `release`, `config` | `secret_key` and `previous_secret_keys` as released by the operator, and as each process read them at its start (`get_settings` and `_cipher` are cached) |
| `seed` | the secret under which each administrator's `mfa_secret` is stored; 0 while there is no row |
| `Introduce`, `Reencrypt`, `Retire` | the three steps of the procedure in the docstring of `core/crypto.py`; external, since an operator takes them. The recipe `just rotate-encrypted` it names is not in the repository, so its loop over the users is modelled from `crypto.rotate` |
| `RestartProcess`, `Enrol` | a deploy or crash of one process; `create_admin` of the command line |
| `key`, `issued` | the row of one API key, and every cookie and token ever handed out: the signing secret and the time of issue are all there is to them |
| `SignIn`, `Revoke` | the requests of a session, up to the verdict of their dependencies. Loading a user decrypts the seed, so a process that cannot read it fails the request |
| `BearerArrives`, `FindKey`, `FindOwner` | `require_api_principal` up to its two awaits: the key as sent, or the signature and age of a token; the SELECT of the key and its verdict; the SELECT of the owner, after which the request is admitted with the key as read before |
| `Respond`, `Teardown`, `DatabaseFails` | the response, which carries a new token after an exchange, and the commit of `last_used_at` or `revoked_at` after it |

### Browser

One browser against the processes of `SecretRotation`, while the operator rotates the secret.

| Browser | code |
|---|---|
| `jar` | the session cookie (which secret signed it) and the CSRF cookie, shared by all tabs |
| `doc` | the page each tab shows, with the token of its hidden field |
| `net` | what each tab waits for: a response with the cookie it sets on the way, or a redirect |
| `Get`, `LoginSubmit`, `Post` | the responses the routes may give: `index`, `login_form`, pages and the htmx search fragment, `login_submit`, `logout`, forms and htmx writes, each with the CSRF check before the session and the session before the route |
| `TokenFor`, `Attached` | `token_for` and `attach`: the cookie is used again if it verifies, otherwise a new token is issued |
| `Accepts`, `Field` | `verify`: hidden field for plain forms, for htmx the header that `app.js` copies from the jar |
| `FollowRedirect`, `Arrive` | the browser; external as a program, modelled by what it does with cookies and locations |

A token that is "new" has a nonce nobody holds, so that runs stay finite; `BrowserAssumption` asks for
one more nonce than jar, pages and responses can hold, and the proof shows that one is always free. Request
and verdict are one step (`Handle`), the response another: between them other tabs and the operator act.

### ConnectionPool

The sessions of one process: the request's own and one for each handler of its event. What a request
does is abstracted to its `Kind` (consults the limiter first; announces an event), which covers every
route of APP and the readiness probe. `Acquire` is the first statement of a transaction, `Consult`
the limiter's commit, `Publish` is `publish_after_commit` with the commit that gives the connection
back before the handlers start, `Teardown` and `ClosedByFailure` are the two ends of `get_session`,
`Gathered` is the `gather` of `EventBus.publish`. The pool is external: `HasRoom` is its size plus its
overflow, and a wait for it may end with its timeout (`Fails`).

### Deployment

Six processes around two databases, the one the operator means and the SQLite file that
`APP_DATABASE_URL` leaves as the default when it does not reach the process. A process reads its settings
(`Boot`), or is refused (`RefuseSettings`). The operator's mistakes are variables that are misspelt after
`APP_`, which `_reject_unknown_app_variables` refuses, and variables that are left out or have a wrong prefix,
which look like no variable at all; then only `_reject_dev_defaults_in_production` stands in the way, and
only outside local and test. Without `APP_ENVIRONMENT` a process takes itself for local, except in
the image that compose runs, whose `Dockerfile:75` says production. A variable with a wrong value is not
modelled. Every process but a server then runs a `Program`, the sequence of statements of
`upgrade`, `downgrade`, `create_admin` or `seed_demo`, in one transaction (`own`) that `Fail` may cut
short anywhere. The eight tables, their order and their foreign keys are those of the migration, and so is
the statement after `users` that creates its unique index; the other indexes are left out, because they
forbid no row the model has (one is unique, on the digest of a random key).
`Waits` is what the databases make of overlapping transactions: on PostgreSQL DDL excludes every other
use of a table, and an INSERT waits for another of the same unique key; SQLite has one writer, and
commits each DDL statement (`Transactional`). `Look` is a SELECT and the decision taken on it, and
`Insert` comes later, with the verdict of the password policy in between; `Unique` is the index that
tells overlapping inserts apart, once there is one. The server of compose waits for a migration that completed
(`Ordered`, `depends_on` at `compose.yaml:40-44`); one started in any other way (`just dev`, `just serve`,
`just docker-run`, the Lambda handler) waits for nothing, and no code checks the schema. Servers wire their
bus, perhaps again, and restart.

## 4. Runs

Nine runs pass, three show what a comment or docstring promises and the code does not keep. Where a property is a
conjunction its parts are defined, and commented, just before it.

| run | instance | shows |
|---|---|---|
| `items_concurrent` | 3 requests, 1 item, 2 users and an administrator, failures and crashes, requests symmetric | what stale decisions may not do: no event from a rollback, acknowledged status changes and forms are durable, archive dates are kept, edits keep the status, only a create revives a row and none overwrites, no step back to draft, changes commit only on rows the user owns (unless the id was pinned again); together: `Items` implements `AtomicItems` |
| `items_second_round` | 2 equal status changes | `NoSecondRound` violated: both commit, both announce |
| `dispatch_concurrent` | 3 endpoints, 2 attempts, 1 operator action, lookups that differ, crash | `DeliveriesConsistent` (typing, attempt numbers, no orphan rows), committed dispatches record every attempt, every target is tried, nothing after a final answer, only the checked address is contacted, dispatches end |
| `limit` | 4 requests, 2 buckets with limits 1 and 2, 8 seconds, five deployments: a database with windows of 2 and 1 s, purged with the longer or the shorter one, statements up to 4 s late; 2 processes with dictionaries pruned at every opportunity, of equal windows or of 2 and 1 s, or with room for all | `LimitRespected` where counters last (per window and store; at most twice the limit over any window length), `RefusalsAreJust` (only when full; Retry-After, counted from the answer, leads past the window), `LossNeedsUnequalWindows` (running counters are lost to unequal windows only) |
| `limit_full_dictionary` | 3 requests, 1 process, windows of 5 and 1 (the 300 and 60 s of the settings), a dictionary full with two counters | `OnlyDeadRowsDropped` violated: a request on the API bucket drops the running counter of the sign-in bucket |
| `inbound_concurrent` | 3 requests, 2 deliveries, failures and crashes | `AtMostOnce` implemented, `ReceiptConsistent` (acknowledgements are true), every request ends |
| `inbound_collision` | 2 requests, 1 delivery, no failure | `DuplicateIsAcknowledged` violated: the second gets a 500 |
| `lockout_concurrent` | 3 sign-ins, threshold 2, lock of 2 s, 5 s of time | `LockConsistent` (no lock too early), none waits for ever; the threshold locks and the lock stands until two sign-ins have overlapped |
| `credentials` | 3 requests, 2 processes, 2 administrators, 2 secrets, lifetimes of 1 s, 2 s of time | each seed, cookie and token is usable on each process a deploy has reached, at every moment of a rotation (`StoredIsReadable`, `CredentialsUsable`); a committed revocation is never undone (`RevocationStands`), and whoever arrives after it is not admitted, with the key or with any token, though requests that read the key before it are admitted after it, mint tokens and write to its row (`LatecomersStayOut`) |
| `browser` | 2 tabs, 2 processes, one rotation, 4 user actions | the page that arrived last can be submitted; older pages too, unless two first visits overlapped or the secret was replaced (`PagesKeepWorking`); redirects end |
| `pool` | 3 requests of two kinds, pools of 1 and 2 connections, failures, timeouts, crash | `PoolConsistent` (no overdraft, no leak, no request holds what its own handlers wait for), the audit entry does not depend on the webhooks, every request ends |
| `deployment` | 2 upgrades, a downgrade, `create_admin`, `seed_demo`, a server; both databases, local or not, compose or not, the server's `APP_ENVIRONMENT` and `APP_DATABASE_URL` right, misspelt or left out | `DeploymentConsistent` (schema and version agree, references exist, handlers once), `AccountsConsistent` (one account per address once the index is there, administrators have a second factor, no guessable password, all or nothing), `ServesOnSchema` (the server of compose starts on a whole schema, any other one if it is started after a migration and `APP_DATABASE_URL` was left out for neither) |

**Bounds.** The hazards are races of two requests, on one row, with at most one more that fails or
changes the row between them: three requests give each race a disturber, and a second row would only
add independent behaviour. The dispatcher needs three endpoints for a colliding flush to find both
a row waiting and a coroutine still posting, and two attempts for a retry. `MaxEdits` caps operator
actions, `MaxTime` the clock (several windows, one lockout and its end), `MaxStall` the time between
reading a clock and writing: two windows of the longer bucket, so that a statement may run when its window, and
the one after it, are over. The violation run of the limiter needs two counters to fill the dictionary and one
more request. Six nonces are one more than a jar, two pages and two
responses hold. Two secrets are one whole rotation; the procedure never has two under
way at once, because a new secret waits until the last deploy has reached every process. Four
requests fill the larger limit and overflow it by two. In `browser` four user actions are a sign-in in
one tab, a page in the other and a form in each; redirects are not counted. A pool of one connection is
the smallest the settings allow, and the one that deadlocks if any request needs two at once. In
`deployment` two upgrades meet each other and a downgrade; two downgrades never meet in the run, but
do in the proof, which is for any number of either. The two
commands meet on the address of the administrator or miss each other. Only the server's settings are
mistaken in the run, in the two variables that decide on its database; the proof is for any mistake of any
process, `debug` and the development secret included. `PrivateAllowed` is what production
has. Deadlock is checked in every run; `AllServed`, `AllAnswered`, `Done` and `Quiet` are the intended
ends.

**Fairness** is weak and given only to the program's own steps. Coroutines that are ready get
scheduled by asyncio, a POST has a timeout (`dispatcher.py`, httpx client), PostgreSQL hands a released lock on
and drops the locks of a dead connection. Arrivals, database failures, crashes, users and the operator
get none. In `lockout_concurrent` the clock needs none: the sign-ins end at any hour. In `pool` one
condition for all steps together suffices, because finitely many requests take finitely many
connections; neither failures nor the timeout of the pool are needed. In `browser` redirects are
followed and responses arrive, and `RedirectsEnd` assumes that processes agree on the secrets from some time
on, since no browser escapes two processes of different opinion that answer in turns. `deployment`
states safety only.

**Findings.** `PROJECT.json` quotes each contradicted line. Three belong to the violated runs. A fourth belongs
to a property that holds: `docs/SECURITY.md:182-195` says the guard on webhook targets is "not airtight. DNS
can change between the check and the request", and that closing this "means pinning the resolved address at
connection time", which is what `pin_target` does since (`netguard.py:93`, `dispatcher.py:75`):
`OnlyCheckedAddress` is stronger than the document.

**Weaker observations** have no run:

- The stale read behind `items_second_round` also lets draft->active, decided before and committed
  after draft->archived, reopen an archived item, which `items/service.py:30` says is refused.
- A coroutine whose flush collides with another's ends without its retry (`dispatcher.py:186`; the
  docstring at 61-63 speaks of attempts up to the cap).
- `purge_expired` called with the shorter of two windows drops running counters of the longer, as the
  pruning of `limit_full_dictionary` does (`ratelimit.py:178` promises "windows that can no longer be hit";
  nothing in APP calls it, `docs/SECURITY.md:101` asks for a periodic job that does).
- Two failing sign-ins that overlap count as one (`auth/service.py:144`), and one that read the
  row before a lock resets the counter after it (`auth/service.py:92` has the check made "so a correct
  password cannot reset the counter"): `LocksUnlessOverlapped` and `LockoutStands` speak only of
  histories without overlap.
- A revocation is answered (`auth/api.py:68`) before it commits (`core/database.py:148`), so for a moment,
  or for good if that commit fails, the key outlives the acknowledgement, although `docs/SECURITY.md:295` says
  that revoking a key takes effect immediately for its tokens. And a request that read the key before the
  commit is admitted after it, and may mint a token. `LatecomersStayOut` speaks of requests that arrive
  after the commit.
- The deploy that makes a new secret known also makes it current, so until it has reached every
  process the others refuse what the first ones sign or encrypt: the exemption `TooNew`. Retiring a
  secret ends the sessions signed with it, whatever their age.
- CSRF tokens are good under the current secret only: after a rotation, and between processes during
  its deploy, the plain forms of open pages are refused until the page is loaded again. Two first visits
  that overlap leave the earlier page with a token the jar no longer has, and an htmx search may
  replace the token of the jar without touching the hidden field of its page (`csrf.py:66`).
- `LoginRequiredError` remembers the path of whatever was asked for, a POST included
  (`auth/dependencies.py:65`): a sign-in may lead to a path that only accepts POST, and a 405.
- `seed_demo` reports "Demo data already present" for any account with the address of its
  administrator (`cli.py:91`), also one made by `create-admin`.
- A migration killed on SQLite leaves tables without a version; only `just db-reset` helps. If it was
  killed between `users` and its unique index (`initial_schema.py:47-64`), or taken down to there,
  overlapping commands can store two accounts of one address: TLC finds them when `OneUserPerEmail` is stated
  of SQLite without its condition.
- No server but that of compose waits for a migration, and none checks the schema. In local and test
  environments a process whose `APP_DATABASE_URL` is left out, or has a misspelt prefix, starts on
  `./app.db` whatever the operator meant; `settings.py:164-165` speaks of "that class of typo" for names after
  `APP_` only.
- `just docker-run` (`Justfile:278-282`) sets `APP_ENVIRONMENT=staging` and no `APP_DATABASE_URL`, and the
  image has none: the container it starts is always refused by `settings.py:196`.

## 5. Proofs

`ItemsProofs` proves nine theorems of the form `Spec => []P` or `Spec => [][A]_vars`:
`TypeCorrect`, `NoEventFromRollback`, `ArchiveIsStamped`, `EditsKeepStatus`,
`CreatesNeverOverwrite`, `OnlyCreatesRevive`, `NothingStepsBack`, `AnswersAreDurable` and
`ChangesAreOwn`, for every set of requests, items, users and calls; and `OverlapIsAtomic`, the refinement of
`AtomicItems` by requests that overlap, fail and crash.
The only assumption is `ConstantsAssumption`: administrators are users, calls are well formed, and
the three sentinels lie outside the sets they complete.

None of the properties is inductive alone. `IInv` adds to `TypeOK` and `ArchivedIsStamped`:

- `CallKnown`: a request past its read has a call, and only a delete is ever "marked" for the
  teardown without a flush;
- `WritesLocked`: a transaction that has written a row holds its lock, and the row is still what
  the statement found (absent for an INSERT, present for an UPDATE). This carries the argument:
  nothing can commit on that row in between, so the commit neither overwrites nor revives;
- `MovesForward`: a pending status change never goes to "draft", because the transition table was
  consulted at the read and no entry leads there;
- `CommitHistory`: "saved" and every trace of a handler imply a commit, and a committed request
  never comes back to a phase that commits.

`WrittenType`, `CommitRowStep` and `ReleaseStep` are the lemmas about one statement, one commit and
one rollback; the invariance proof has one step per action and cites them. The action properties
follow from `IInv` and the shape of a commit (`CommitStep`). Three theorems need more history:

- `ChangesAreOwn`: `Ownership` says that whoever has read a row he may change will find it gone, still
  his, or under an id that a create has pinned. Commits of others keep the owner of a row; what is
  left is a generated id, of which `GeneratedApart` says that a row found under it before its own
  INSERT commits was put there by such a create;
- `AnswersAreDurable`: `AnswersAreTrue` adds that nobody is answered before he arrives;
- `OverlapIsAtomic` needs none: `Decided` and `Announced` are read off the phases and calls. An arrival
  maps to `Decide` or stutters (`GetDecides`), a commit to one atomic operation, on the row as it is then
  (`CommitIsAtomic`, by `WritesLocked`), the end of a status change without a commit to `GiveUp`, and all else
  stutters (`OthersGiveUp`).

`ConnectionPoolProofs` proves `PoolStaysConsistent` (`Spec => []PoolConsistent`) and
`HandlersStayIsolated` (`Spec => []HandlersAreIsolated`) for every set of requests, every mix of kinds and
every size of the pool, from `PoolAssumption`. Its invariant adds to `TypeOK`:

- `HeldAtWork`: finitely many connections are lent, and only to sessions within a transaction. It is what
  both `NobodyHoldsAndWaits` and `ConnectionsComeBack` come down to;
- `HandlersFollow`: a handler has a session only after its request has published, so that no session is
  lent a connection before `Publish` schedules it;
- `AuditAwaited`: a request whose audit handler has started ends after it, and a handler ends with an
  entry or a failure.

All actions but `Publish`, `Crash` and stuttering move one session and take or return at most one
connection; `OneMoves` says once what such a step has to respect, and `Lending` does the counting with the
library's facts about cardinalities.

`WebhookDispatchProofs` proves `DeliveriesStayConsistent`, `CommitsAreComplete`, `TargetsAreTried`,
`FinalAnswersStayLast` and `ContactsAreChecked`, each `Spec => []P`, for every set of endpoints, every
`MaxAttempts` and every sequence of edits, from `DispatchAssumption`. None of the properties speaks of the rows
on their way through the session, so `IInv` adds:

- `Coroutines` and `OneFlush`: which coroutine may be where, and that at most one is inside a flush;
- `RowsTell`: a row still in the session is numbered by an attempt that was made, the latest row has the
  latest answer, and a coroutine that will POST again has only failures behind it. It carries
  `FinalAnswerIsLast`;
- `NothingLost`: until a rollback each attempt has its row in the session. Together with "nobody is
  flushing" at the end of the gather it carries `CommittedIsComplete`;
- `Pinned`: an address is pinned only if the guard let it pass, which carries `OnlyCheckedAddress`;
- `NotBegun`, which says that nothing of this holds a row before the endpoints are read.

`InboundReceiptProofs` proves `ReceiptStaysConsistent` (`Spec => []ReceiptConsistent`) and
`ReceiptIsAtMostOnce` (`Spec => ImplementsAtMostOnce`, the refinement), for every set of requests and
delivery ids, from `InboundAssumption`. The invariant:

- `LocksAreInserts`: an id is locked exactly while a request that has inserted it has yet to commit,
  and the id is not recorded then. So a commit is always the first of its delivery;
- `RecordersGoOn`: only the request that recorded a delivery reaches the handler, and once. So an audit
  entry is always the first of its delivery, and follows its recording;
- `RepliesAreLast`: who has answered is no longer working.

`OneProceeds` covers the steps that neither record nor lock; `StepRefines` maps `Commit` to `Record`, the
handler's entry to `Audit` and all else to stuttering.

`AccountLockoutProofs` proves `LockStaysConsistent`, `ThresholdLocks` and `LockoutsStand`, for every
threshold, every lockout and every number of sign-ins, from `LockoutAssumption`. Its invariant adds
`SeenIsEarned` (the counter a sign-in computes with was once that of the row), `FoundUnlocked` (who goes on
found no lockout in force when he read the clock) and `OneAtATime` (while sign-ins have not overlapped, the one
in flight has read what is still the row, and the counter is the number of failures since the last
success). The last part is false once two sign-ins overlap, which is why both `LocksUnlessOverlapped` and
`LockoutStands` except that case.

`RotationProofs` is about the two modules on top of `SecretRotation`, which has no next-state relation of
its own. `RotationInv` holds through every action of the procedure, for any number of secrets, processes and
users. It says that a process knows every released secret but perhaps the newest (`KeepsUp`), that each seed
is under a released secret (`SeedsAreCandidates`), and that whoever the job has treated is under the current
one, because the job starts only after the deploy is complete (`RewrittenIsCurrent`); so retiring the
previous secrets strands nothing. With the requests of `Credentials` this gives `CredentialsStayUsable`,
`StoredStaysReadable`, `RevocationsStand` and `LatecomersAreShutOut`, from `RotationAssumption` and
`CredentialsAssumption`. The last one adds `LateInv`: as nobody brings a revoked key back, a late request
finds the key revoked at its SELECT (`LateIsRevoked`), so whoever waits for the SELECT of the owner, or goes on
to work, came in time (`FoundIsInTime`).

For `Browser` it proves `LatestPageStaysGood` and `PagesStayGood` (`BrowserSpec => []PagesKeepWorking`), for
any number of tabs, processes and secrets, from `RotationAssumption` and `BrowserAssumption`. The invariant:

- `NotAhead`: neither a process nor the token of the jar is ahead of the release, so that before the first
  rotation there is only one secret;
- `ResponsesFollow`: a response brings the document its tab shows, or a page with the token of its own
  cookie. This carries `LatestPageWorks`, for whatever tokens other tabs are being sent;
- `OneToken`: before the first rotation, and unless two first visits overlapped, there is one token, in the
  jar, in every page and in every response; and before there is one, at most one response. It is what
  `OldPagesWork` excepts the other histories for.

`Answers` and `ServeAnswers` go through the routes once and say what a response may be (`Answer`);
`SomeFree` counts the nonces in use, so that a new token is always one.

`RateLimitProofs` proves `LimitHolds`, `RefusalsHaveReason` and `RunningRowsGoAcrossWindows`, for every set of
requests and keys, every limit and every deployment, from `RateLimitAssumption` alone. A full dictionary with
windows of two lengths and a purge with the shorter one are among the deployments; `CountersLast` excepts
their longer buckets from `LimitRespected`, whose counters `limit_full_dictionary` shows to be lost. The
invariant:

- `StallsAreShort`: nobody who has read the clock waits longer than `MaxStall`, so the window he is going to
  be counted in is one the purge keeps, if its argument is long enough;
- `CountersExact`: in every window that can still be counted in, the counter of a bucket whose counters last is
  the number of requests counted there. It fails for windows that are over, whose counters the purge and the
  pruning drop;
- `FirstAreAdmitted`: of the requests counted in such a window the first ones are admitted, up to the limit;
- `HitsWereAdmitted`: also where counters are lost, as many as the counter says have been admitted, up to the
  limit. It is the reason of every refusal;
- `RowsHaveCallers`, which bounds a dictionary by the number of its callers.

That any period as long as a window meets at most two windows (`TwoWindows`) gives `TwiceAtWorst`. The lemmas
on `\div` at the top are what the window arithmetic comes down to.

`DeploymentProofs` proves `SchemaIsConsistent`, `AccountsAreConsistent` and `ServersFindSchema`, for any set
of processes in any roles on either database, from `DeploymentAssumption`. The programs stay sequences of
statements: `Programs` says once what stands where in each. The invariant has three parts:

- control (`Lives`, `BusWired`): which process may be where and on which database, compose's on PostgreSQL and
  those that were told of one on that, and that a bus is wired exactly once;
- schema (`SchemaInv`): on PostgreSQL the tables a migration has touched are in its transaction, which
  holds all or nothing when it commits (`TransactionsWhole`). SQLite commits each statement, so there the
  tables are always the first few of the schema, and at most one migration stands between its first
  statement and its last: the others find a table there, or missing, and stop (`OneAtTheFront`). Until
  something is taken down nothing that a migration or a command relies on is lost (`NothingLost`);
- rows (`RowsInv`): an open transaction holds exactly what its program has inserted so far, enrolled as far
  as it got (`PendingIsProgram`), and, from the unique index on, no two of them, nor one and the table, have a user of
  the same address (`PendingIsUnique`); the index is only created over rows, and beside transactions, of which
  that is true (`IndexAppears`). A commit therefore turns whole programs into rows.

Model-checked only: liveness (`DispatchEnds`, `EveryDeliveryEnds`, `EverySignInEnds`, `RedirectsEnd`,
`EveryRequestEnds`), since ENABLED and fairness are beyond the prover, and the three promises the code breaks,
`NoSecondRound`, `DuplicateIsAcknowledged` and `OnlyDeadRowsDropped`, which have counterexamples.

## 6. Not modelled

- Template flake, infrastructure and CI, but for the start-up order of `compose.yaml`.
- Scopes of keys and tokens: no statement of APP changes the scopes of a stored key, and an exchange hands
  on those of the caller, so every token minted by APP has exactly those of its key. The minting of
  further keys touches no existing row.
- SQLite, except in `Deployment`: a single writer at a time allows fewer interleavings than
  PostgreSQL. Isolation levels above READ COMMITTED are not configured anywhere.
- `create_tables`, `drop_tables` and `db-reset`, which serve development and tests; the second seed item,
  whose key is generated; offline SQL and autogeneration of migrations.
- Which words are guessable and which addresses are public: the verdicts are inputs.
- Response headers, request ids, log records, formats, pagination, query results, what a page shows:
  no state depends on them.
- Cryptography, DNS and HTTP: their verdicts are inputs, chosen freely.
- A server thread pool around `MemoryLimiter`: the application runs in one event loop per process,
  so its clock reading and its count are one step.
- The order in which two dispatches of one item reach an endpoint: payloads carry `occurred_at` and
  no document promises an order.
