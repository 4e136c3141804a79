# A TLA+ verification of egras

egras is a multi-tenant backend: an axum HTTP server over PostgreSQL (sqlx), with
background jobs, a transactional outbox, feature flags, an audit trail, and the
administration of organisations, users, roles and service accounts. This
directory holds TLA+ modules of its stateful parts, the TLC configurations that
check them, and TLAPS proofs. Paths below are relative to the repository;
`PROJECT.json` maps every definition to the lines it models.

## 1. Inventory

| Part (source) | State it keeps | Operations | What makes it correct |
|---|---|---|---|
| Background jobs (`src/jobs`) | table `jobs`: state, attempts, run_at, locked_by, locked_until; per runner a claimed batch and a stop flag | enqueue, claim_due, mark_done / mark_failed_retry / mark_dead, spawn, run, dispatch, shutdown | one runner at a time per row, retry budget, terminal states final, no row lost, every job settles |
| Outbox (`src/outbox`) | table `outbox_events`: created_at, relayed_at; per relayer an open transaction | append_in_tx, tick (claim, enqueue, mark, commit), spawn, run, shutdown | exactly one job per committed event, none for another; every event relayed |
| Feature flags (`src/features`) | override rows; one TTL cache per process | evaluate, set, clear, invalidate, list | bounded staleness, read-your-writes on a node |
| Membership (`src/tenants`, parts of `src/security`) | rows (user, organisation, role), users | create organisation, register, add, assign, remove; create / delete service account | an organisation keeps an owner, a removal is complete, no deadlock |
| Audit trail (`src/audit`) | bounded channel, worker, table `audit_events` | record, worker loop with retries, shutdown | nothing accepted is lost silently, order kept, shutdown drains |
| Process (`src/main.rs`, `src/lib.rs`) | the tasks above | serve, signal, graceful shutdown in order, seed-admin | everything drained before the pool closes |
| Accounts (`src/security/service`) | the row of a user, its password hash and membership; reset tokens | register, seed-admin, login (with rehash), change, reset request / confirm | a password is set only by who proved a right to it, a token works once, few are pending, no user is left without membership |
| API keys (`src/security`) | keys with revoked_at, scopes | create, revoke, rotate, verify, touch_last_used | a rotation leaves one successor, revoked keys stop working |
| Sessions (`src/auth`) | tokens the clients hold; rows of logged-out tokens | login, logout, switch organisation, authentication and authorisation of a request | a logout takes effect on the next request, a request acts within rights its user had |
| Listings (`src/pagination.rs` and six services) | none; the cursor a client holds | organisations, members, channels, users, service accounts, audit events, page by page | pages in order, nothing twice while its key stays, nothing that stays is missed |
| Inbound channels (`src/tenants`) | channel rows | create, get, update, delete, list | changed by members with the permission, or by operators; listed with the others |
| HTTP interface, configuration, echo, clients, web | none of their own | – | – |

How the parts interact: handlers write to PostgreSQL and afterwards `record` an
audit event through an in-memory channel. Services append outbox events in their
own transactions; the relayer turns those into rows of `jobs`; runners execute
them. The authentication layer reads memberships, revoked tokens, API keys and
the feature `auth.api_key_headers` on every request. All tasks of a process share
one connection pool, and several processes share the database (rolling deploys,
replicas), which is why runners, relayers and nodes are sets in the models.

Hard behaviours: statements of different transactions interleave under READ
COMMITTED; handlers are dropped at any `await` when a client leaves; a runner
outlives the lock it holds; answers of committed statements get lost; processes
die between two statements; shutdown has to drain several queues in order.
`PROJECT.json` lists these as hazards, each at its line, with the properties that
would catch it.

## 2. Plan

| Order | Module | Status |
|---|---|---|
| 1 | `JobQueue`, `JobQueueProofs` | done |
| 2 | `OutboxRelay` implementing `EventDelivery`, `DeliveryProofs` | done |
| 3 | `FeatureCache`, `FeatureCacheProofs` | done |
| 4 | `Membership`, `MembershipProofs` | done |
| 5 | `AuditTrail`, `DeliveryProofs` | done |
| 6 | `Pagination`, `PaginationProofs` | done |
| 7 | `ApiKeys`, `ApiKeysProofs` | done |
| 8 | `Accounts`, `AccountsProofs`: registration, seed-admin, login, change and reset of a password | done |
| 9 | `Sessions`, `SessionsProofs`: tokens, logout, switch of organisation, authorisation, channels | done |

No module that is proved about declares a RECURSIVE operator. Parameters are
CONSTANTS with named assumptions; invariants are conjunctions of named parts.

## 3. Modules and what they correspond to

Each component module keeps the names of the functions it models. `MC*.tla`
modules hold symmetry sets and constant functions for TLC and, in three cases
(`MCDelivery`, `MCJobsAndWalks`, `MCSessionsAndFlags`), put two component modules side
by side; see section 4.
Operators named `X_Something` directly before an operator `X` are wrong variants
of it (a dropped guard, a missing reset, an off-by-one); replacing `X` by one must
violate the property that `PROJECT.json` pairs it with, which shows that the
property depends on that piece of code.

**JobQueue.** Columns of the table are functions of the job. Every SQL statement
is a step. A runner's `phase` is its place in `run`/`dispatch`: `poll` (loop top),
`claim`, `batch`, `handle`, then the name of the mark it is about to execute.
Time is relative (`run_in = run_at - now()`, `lease = locked_until - now()`) so
that it needs no bound. `HandlerReturns` decides the verdict from the claimed
snapshot, as `dispatch` does; `Mark` selects the row by id alone, as the SQL does.
`ClaimFails` and `MarkFails` are database errors, which the loop only logs; a
claim may have committed although its answer is lost. `overrun` and `dropped` are
history: rows whose lock ran out under a live holder, and calls that failed.

**OutboxRelay / EventDelivery.** A tick is a transaction: `claim_unrelayed_in_tx`
locks rows (`batch`), `enqueue_in_tx` and `mark_relayed_in_tx` write what nobody
else sees, `commit` publishes both at once; `TickFails`, `Crash` and
`ServerRollback` undo it. `created_at` is the start of the service transaction, so
rows become visible out of order. `EventDelivery` is what a user of the outbox
relies on: an event is published with its transaction and becomes exactly one job.
`fate` is the refinement mapping.

**FeatureCache.** One (organisation, slug) key. The value is the number of the
write it comes from. `evaluate` is four steps (clock, cache lookup under the read
lock, one or two queries, insert under the write lock); a write is two (commit,
invalidate). `Abandon` drops a handler at any await.

**Membership.** The rows of one organisation. `remove_member_checked` is modelled
statement by statement, and FOR UPDATE and DELETE row by row: `todo` is the
statement's snapshot, `want` the row it waits for, `locked` the transaction's
locks. FOR UPDATE without OF also locks the joined row of `roles`; an INSERT of an
owner row needs a key-share lock on it and waits. Inserts commit on their own and
are atomic.

**AuditTrail.** One event per request. `record` is `try_send` on the bounded
channel (its error for a closed channel needs a worker that panicked, which is not
modelled); `InsertFails(TRUE)` is a commit whose answer is lost, after which every
retry violates the primary key. `ServeReturns`, `WorkerExits`, `Stop` are the
order of `run_serve`.

**Pagination.** One listing at a time, chosen in `WalkInit`; a row is its key (time,
id). Each of the six services is an action that takes any requested limit, runs
its query (`After`, `First`: keyset filter, order, `LIMIT n + 1`) and answers with
a page and a cursor. They differ in direction, in how they bound the limit
(`Clamp`, a refusal, an upper bound only) and in the row the cursor is taken from.
Between pages rows are inserted with any time, deleted, and memberships begin
again. Keys never change, except `joined_at` of a member, which is
`MIN(created_at)` of its roles: another role moves it back when its INSERT began
earlier and commits late (`assign`), a removal that spares a younger role moves it
forward (`remove_member_spares`). `stable`, `popped` and `zero` are history.

**ApiKeys.** One service account and its keys. An administrative request is at the
statement `pc` names; `create` and `revoke` are statements that commit on their own,
`rotate` is a transaction of three steps (the UPDATE locks the old key, `held`; the
INSERT is seen by nobody yet, `fresh`; the commit publishes both), and the DELETE of
the account first takes the account's row, then waits for the keys it cascades to.
The INSERT of a key waits for the account being deleted, and the other way round;
`DeadlockAbort` breaks the cycle. A request with a key is verified and gets its
permissions in two separate reads. A credential is the key it was issued for, NULL
scopes are the set of all permissions, and any new prefix may collide
(`PrefixCollision`), twice at most. `origin`, `byHand`, `seen` and `granted` are
history. `last_used_at` and the listing of keys are left out.

**Accounts.** One user. A request, or a run of seed-admin, is at the statement `pc`
names; each statement commits on its own, and `Abandon` ends a request before any of
them. The exception is `create_and_add_to_org`, whose transaction is one step. A hash
is the password and the age of its parameters, so that `needs_rehash` and the rehash of
a login are there; a token is a row that is pending, consumed, expired or deleted.
`TokenRepositoryPg::insert` is four steps: the count, the sub-select of the DELETE, the
deletion of the row it found (whatever has become of it), the INSERT. `known`, `live`,
`late`, `overtaken`, `spent`, `racedInserts` and `seedDied` are history: what a request
knew, and which windows it went through.

**Sessions.** One user in several organisations. `claims` are the tokens issued,
`revoked` the rows of logouts. A request goes through `call` (the token is decoded),
`CheckRevocation`, `load` (the permissions of the user in the organisation of the token)
and its handler, an await between any two of them. Handlers log out, switch the
organisation, or work on channels: `accepts` is the permission extractor, `InScope` the
rule for other organisations, and the statements name the organisation once more. Time
is in half seconds: jsonwebtoken accepts a token until the second of `exp` is over, the
row of a logout expires at its beginning. `unrevoked` and `granted` are history. Of the
permissions only those that matter to channels are told apart; a role that gives none of
them is in the module and not in the instance, where a member whose permission is taken
away after the login stands for it.

Left out of all modules: payloads, names, messages, logging and HTTP decoding.

## 4. Runs

Three runs check two components side by side: `BothNext` (`DeliveryNext`) is a step of
one of them while the other has not begun. They share no state, so what holds of one
while the other rests holds in every interleaving, and the states of the two add up
instead of multiplying. In `delivery` the fairness conditions are those of the two
specifications, each for the side that moves.

Deadlock checking is on in the runs of `Accounts` and of `Sessions` with `FeatureCache`
and off in the others, whose systems may legitimately come to rest (all work done, all
processes stopped) or, in the runs that end in a violation, do not matter.

| Run | Bounds | Shows |
|---|---|---|
| `jobs_and_listings` | jobs: 2 jobs, 2 runners, 2 attempts, visibility 2, batch 2, 1 failed call; listings: 4 ids, 2 times, limits 0 to 3, at most 2 a page, all six | ownership of held rows, retry budget, accounting of locks, finality; pages in order and without repetition (but for members), rows that stay are listed (or popped) |
| `jobs_settle` | 2 jobs, batch 1, 2 runners (one stays up and registers both kinds, the other one kind), 2 attempts, visibility 1, 1 failed call | every job settles, also behind a job that is retried and after a failed claim or mark; shutdown completes |
| `delivery` | outbox: 3 events, 2 relayers (one stays up), batch 2, 1 failed tick; audit trail: 4 events, channel 2, 1 retry, 3 faults | one job per event, refinement of `EventDelivery`, every event relayed; no silent loss, order, drained shutdown, shutdown ends |
| `features_own_writes` | 2 requests on a node, 1 write | violation: see findings |
| `membership` | 2 users (one registered later, or a service account), 2 concurrent requests | owner kept, removal complete, removals end |
| `membership_owner_remains` | 2 users, 2 requests | violation: see findings |
| `pagination_service_accounts` | as the listings above | violation: see findings |
| `api_keys` | 2 administrators (symmetric), 1 client, 3 keys, 2 permissions | revocation takes effect, permissions within scopes and roles, rotation atomic, no key outlives the account, nobody stuck |
| `accounts` | 2 requests (symmetric), 2 passwords (symmetric), cap 1, 4 tokens | passwords set only with a proof, a used token is used up, the cap but for raced inserts, no orphan but for a seed-admin that died |
| `accounts_seed_admin` | 2 requests, 2 passwords, 1 token | violation: see findings |
| `accounts_rehash` | 2 requests, 2 passwords, 1 token | violation: see findings |
| `sessions_and_flags` | sessions: 2 requests, 2 organisations, 2 sessions, 1 channel with 2 contents, tokens of 1 second, 2 seconds of time; flags: 2 requests on a node, 2 writes, TTL 2, 3 ticks | logout takes effect, channels change only within rights; staleness within the TTL, read-your-writes unless raced |

Why the bounds are enough to be interesting: two runners and a visibility of two
ticks let a lock expire in the middle of a batch of two and be taken over; two
attempts reach `dead` both by exhaustion and by a permanent error. In `jobs_settle` the
failed call is a claim whose answer is lost or a mark, of either runner; a batch of one
makes one job wait behind the retries of the other. Two relayers,
three events and a batch of two make claims overlap, skip locked rows and leave a
remainder. Two requests on a node allow a fill under way while the other request
writes, invalidates and evaluates again; a TTL of two is crossed within the clock bound;
a handler dropped between its write and its invalidate leaves this node what a write on
another node does, so one node suffices, and the theorems hold for any number of nodes
and requests. Two users who are
both owners can remove each other and deadlock. Four events overfill a channel
of two while the worker holds one, and three faults exhaust the retries of one
event and disturb the next. Four rows on pages of one or two make walks of up to
four pages, with ties in time, and limits below, at and above the bounds. Three
keys are one that is created and the successors of two concurrent rotations of it;
two administrators also reach a rotation that deadlocks with the deletion of the
account, and a client sees every one of their steps between its two reads. In
`Accounts` two passwords tell an old from a new one, and a cap of one with four tokens
lets two requests race, exceed the cap, and be followed by requests that count, evict
and insert above it. In `Sessions` two seconds of time let a token of one second be
issued, logged out, pass its last second and expire; two sessions are the old and the
new one of a switch, and one of two requests logs out while the other is under way. The
theorems of section 5 remove the bounds for the safety properties.

Fairness. Tokio polls a task that is ready, and statements return or fail: weak
fairness of each runner's, relayer's and worker's own steps. Handlers of jobs are
assumed to return; the code has no timeout that would enforce it. Time passes.
`Stable` names the runner or relayer that stays up; without one nothing can be
promised. PostgreSQL queues waiters for a row lock and breaks cycles: strong
fairness of a removal's steps, weak fairness of the deadlock abort. The server
ends the sessions of dead clients: weak fairness of `ServerRollback`. Nothing is
assumed of clients, crashes or faults.

### Findings

Five runs state what the repository says and show a behaviour of the code that
disagrees; `PROJECT.json` quotes the lines.

1. *Last owner* (`membership_owner_remains`). A user made owner between the owner check
   and the DELETE of its own removal is removed as the last owner;
   `Tenants-Domain.md:133` says that at least one owner remains.
2. *Listing of service accounts* (`pagination_service_accounts`). The row fetched beyond
   the page is dropped and becomes the cursor, and the next page begins after it: it is
   never listed, although a test expects it on the second page. The other five listings
   take the cursor from the last row of the page.
3. *Own writes of a flag* (`features_own_writes`). A fill that read the old value may be
   inserted after the write's invalidate, and the node serves the old value until the
   TTL ends; `Feature-Flags.md:88` says that the next evaluate on the node sees the new
   value without waiting for it.
4. *seed-admin* (`accounts_seed_admin`). Its INSERTs are not a transaction;
   `Configuration.md:100` says they are.
5. *Rehash* (`accounts_rehash`). The rehash of a login overwrites a password set since
   the login read the hash; the design of security (lines 228 and 393) has a
   compare-and-swap guard, which `update_password_hash` lacks.

Four more disagreements are exceptions that passing properties make, because they
describe what the code does:

6. *Last second of a logged-out token* (`LogoutTakesEffect`). `Authentication.md:150` and
   `:33` and `Data-Model.md:198` say that a logged-out token is refused, that a token is
   refused the instant it expires, and that none outlives the row of its logout. In
   the second of `exp` the row has expired and the token has not.
7. *Order of a reset* (`ResetTokenOnce`). `Security-Domain.md:179-181` consumes the token
   before the password is updated, the code the other way round.
8. *Members listed twice* (`PagesInOrder`). `Pagination.md:19` promises pages that
   insertions do not shift; a role that commits late moves its member.
9. *A page of no channels* (`StableRowsListed`). `Pagination.md:150` says that
   `next_cursor` is null when there are no more results; a limit of zero makes it null
   on the first page.

### Windows

The passing properties name the windows the code leaves open, and say that there are
no others. Those that contradict a document refer to the finding:

- `TerminalIsFinal`, `AttemptsWithinBudget`, `HolderOwnsRow`: marks select a job by id
  only, so a runner whose lock has expired moves a row that another one owns or has
  finished. Rows that never overran their lock are safe.
- `SeesOwnNodeWritesUnlessRaced`: a fill that began before a write may be inserted
  after the write's invalidate (finding 3); `StalenessBounded` bounds what this costs by
  the TTL.
- `OwnerKept`, `RemovalIsComplete`: roles given to the user while its removal is
  under way (finding 1). A role given after the commit, by an `assign_role` that looked
  before it, is not excluded by either.
- `PagesInOrder`: a member whose `joined_at` moved back (finding 8).
- `StableRowsListed`: rows popped by the listing of service accounts (finding 2), a page
  of no channels (finding 9), and members whose `joined_at` changed during the walk.
- `PendingWithinCap`: requests for a token that overlap each count before the other
  inserts; each such INSERT may add one token to the cap, and as every later request
  deletes one and inserts one, the excess stays until tokens expire or are used.
- `ResetTokenOnce`: confirmations that overlap, or follow one that died before
  `consume`, can use a token again (finding 7).
- `PasswordWritesProven`: the rehash of a login writes the password it verified, also
  over one that was set since (finding 5).
- `NoOrphanUser`: a run of seed-admin that dies between its INSERTs, or is given a role
  that does not exist, leaves a user who cannot log in, and later runs refuse because
  the user exists (finding 4).
- `LogoutTakesEffect`: in the last second of a token its logout is forgotten (finding 6).

## 5. Proofs

All proofs hold for every value of the constants that satisfies the modules'
ASSUMEs (which TLC evaluates in the runs).

- `JobQueueProofs`: `IInv` joins the type invariant, `RunnerShape` (what a runner's
  phase says about its batch: it holds rows only between claim and last mark, the
  dispatched row is one of them, and a retry was decided only with attempts left),
  and the four invariants, which are only inductive together: that the budget
  survives a mark needs that the snapshot is accurate (`HolderOwnsRow`), which
  needs that a due row is held by nobody, which needs locks and leases.
  `BackoffAssumption` (delays are natural numbers) is an ASSUME because the provers
  know nothing of exponentiation; TLC evaluates it. `OneExecutorHolds` reads the
  invariant for two runners at once: they share only rows whose lease once ran out.
  `NoJobStrandedHolds` is the half of `EveryJobSettles` that is a safety property, for
  overrun rows too: an unfinished row is due, or will be within the longest of the
  enqueue delays, the backoff cap and the visibility timeout. It rests on
  `LockedIffRunning` (a job has a lock exactly while it runs, so that a running row
  always has a lease that ends) and on `DelaysBounded`.
- `DeliveryProofs`, the outbox: the invariant says what an open transaction's batch and
  the rest of its loop look like; `OutboxImplementsDelivery` maps a `commit` to
  `Queue`, the end of a service transaction to `Publish`, all else to a stutter.
- `DeliveryProofs`, the audit trail (the module extends both specifications, which
  share no state): the rows, the event at the worker and the channel are consecutive
  parts of the sequence of accepted events. `QueueInv` says that the channel is its
  last part, `WorkerInv` that the worker writes the event just before it and exits
  only when the channel is empty, `TableInv` that every row is an event that has left
  the channel, `HandlerInv` that a request is accepted at most once and none is in
  flight after the drain. `InOrder` alone is not inductive: that a new row is behind
  all others needs that all others left the channel before it. `RowsOnce` follows from
  `InOrder` and `HandlerInv`.
- `FeatureCacheProofs`: the invariant dates everything a request or a cache entry
  holds: a value read by a request was current no earlier than its start, an entry
  expires at most TTL after a time at which its value was current; and, for
  read-your-writes, on a node without race no entry or pending fill is older than
  the last finished write.
- `MembershipProofs`: the invariant `LockInv` relates locks, deleted rows and the
  owner check: a removal past the check has the target not an owner, or holds the lock
  of another owner's row, which nobody can delete meanwhile; owner rows can be added
  to the target only through `added`. `NeverAllWaitHolds` is freedom from deadlock,
  with the waiting conditions written out (`CanGo`, `InCycle`) instead of ENABLED.
  Rows are locked in no fixed order, so cycles do form; but the row of `roles` is
  taken together with the first owner row (`WaitInv`), so a removal that holds locks
  without it waits for it, or holds only the two rows of its target. Hence, whatever
  the number of requests, when all of them wait there is a cycle of two or three of
  them, and `DeadlockAbort`, which looks for those only, leaves no state in which
  nobody can go on.
- `PaginationProofs`: the invariant says that everything listed is at or behind the
  cursor, that in the five listings with constant keys it is listed under the key its
  row still has (`KeysInv`), that the last page is, and that every row there throughout is listed,
  popped or still ahead of the cursor. The step from a page to the next rests on
  lemmas about `First`: in a total order the first n rows are before all others,
  and if at most n of n + 1 rows wanted were fetched, there are no others.
  `PagesInOrderHolds` is order in all six listings; that nothing is listed twice follows
  from it only where a row keeps its key, which is all but members, and
  `TwiceOnlyIfJoinedEarlier` says what remains for those: a second time only with an
  earlier `joined_at`. `EveryRowListedElsewhere` is the documented contract for the five listings that keep
  it. `PageWithinLimitHolds` rests on `FirstBounded` (LIMIT n returns at most n rows:
  the last of them has all others before it, and fewer than n rows are before it).
  `PagesAdvanceHolds` is a ranking argument: the cursor is a row that was ahead, and by
  transitivity everything ahead of it was ahead before, so a walk over a table that
  does not grow ends after at most one page more than there are rows.

- `ApiKeysProofs`: the invariant has six parts. `RequestInv` says what a request has
  at each of its statements, `LockInv` that a locked key is active and locked by one
  rotation, `FreshInv` that an inserted key is unseen and belongs to one rotation,
  `AccountInv` that no insert is uncommitted while the account is being deleted,
  `OriginInv` that a key with a successor is inactive and a key nobody revoked has a
  successor, and `ClientInv` that a client has read the scopes of the key it presents.
  Without `LockInv` a rotation could commit over a revocation, without `AccountInv` a
  key could appear after the cascade. `OnlyKnownCycleHolds` is freedom from deadlock
  with the waiting conditions written out (`CanGo`) instead of ENABLED: whoever waits
  for a key waits for a rotation that holds it, which waits only for a deletion
  (`DeleterInv`: the account is locked only while a request deletes it), and a
  deletion only for a rotation.

- `SessionsProofs`: the invariant says that a request carries an issued token, that the
  row of a logout expires with its token (so that a token that is not found revoked was
  never logged out or is in its last second), and that the permissions a handler holds
  were granted since its request began. Every action is first reduced to what it does to
  the tables (`TableStep`) and to one request (`RequestStep`).

- `AccountsProofs`, laid out in the same way: `TokenInv` says that a token with which a
  confirmation ended is consumed or deleted for good, `CarryInv` what a request carries
  from one statement to the next, `ProofInv` what it has shown by then (the password it
  submitted was the present one, its token was pending, the password its rehash writes
  is still the present one unless another request overtook it), and `CapInv` that there
  is room under the cap for the token of a request at its DELETE or INSERT that no other
  INSERT overtook. Without `CapInv` the cap is not inductive, since the count and the
  INSERT are two statements; `PasswordWritesProven` is an action property and follows
  from `ProofInv` at the state before the write.

`LockedIffRunning` and `BatchesDisjoint` (open transactions of relayers work on
different rows) are parts of inductive invariants only. The formulas of
`OneExecutor`, `NoJobStranded`, `NeverAllWait`, `PageWithinLimit` and `PagesAdvance`
are stated in the proof modules, next to their theorems, and in no run.

Only model-checked: liveness (under fairness, beyond TLAPS here), and
`NobodyStuck` (which uses ENABLED; `OnlyKnownCycleHolds` is its counterpart without).
`NoJobStranded` and `NeverAllWait` are what the liveness of the jobs and of the
removals needs and what can be proved: nothing is ever left that no step can move.

## 6. Not modelled

JSON validation, cursor encoding, the arithmetic of Argon2 and of signatures, HTTP
decoding and error mapping, configuration, migrations, the web front end and the
clients: pure or one-shot code without interleavings. Permission markers other than
`ChannelsManage` differ from it in the codes they accept only. The outbox and the job
queue are not composed: `EventDelivery` ends with the row of `jobs` that `JobQueue`
begins with, and nothing else is shared. `touch_last_used` and the listing of keys
restrict nothing.
