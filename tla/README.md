# LoveChapter: TLA+ models and proofs

LoveChapter is a wedding-planning service: a web Worker, an API (Bun process or
Cloudflare Worker), job workers that send email, PostgreSQL (Neon), and a set of
release scripts that put new versions of the two Workers into production behind
a maintenance gate.  Nearly all of its state is in PostgreSQL; its hard
behaviour is in the transactions that several processes run against the same
rows, in statements whose sender has stopped waiting, in the browser page whose
requests are answered in any order, and in the long protocol a release follows
while requests and emails keep arriving.

Sections: [system](#1-the-system), [modules](#2-modules),
[runs](#3-what-the-runs-check), [bounds](#4-bounds),
[fairness](#5-fairness), [proofs](#6-proofs), [findings](#7-findings),
[not modelled](#8-not-modelled), [what could follow](#9-what-could-follow).

## 1. The system

| Part | State | Operations | Talks to |
| --- | --- | --- | --- |
| Release gate (`release-gate-repository.ts`, migrations 0009-0011, `release-admission.ts`) | one control row (mode, target commit, changed_at, published versions), lease table | admit, release, close, status, drain, open | every API request, every job batch, release commands |
| Release commands (`release-gate-cli.ts`, `release-migration-cli.ts`, `release-evidence.ts`) | the closure and the evidence file the runner keeps | close + status, drain, migrate, open | gate, migrations |
| Release cutover (`scripts/release-*.mjs`, `live-release.mjs`, `worker-versions.mjs`, `deployment-ledger.mjs`) | Worker deployments at Cloudflare, GitHub deployment ledger | prepare, close, drain, recovery point, migrate, deploy, smoke, open, check, record, reclose | gate commands, Cloudflare, GitHub, Neon |
| Accounts, tokens and sessions (`packages/auth/src/service.ts`, `auth-queries.ts`, `auth-repository.ts`) | account row (password hash, credential version, verified), action tokens, sessions, rate-limit counters | sign up, resend, verify, sign in, resolve, sign out, forgot, reset | outbox (issues tokens and jobs) |
| Email outbox (`auth-queries.ts`, `apps/jobs/src/processor.ts`, `resend-email-sender.ts`) | email jobs with lease, attempts, due time | issue, claim, send, mark / retry / fail, cleanup | gate (each batch is admitted), provider |
| Weddings, guests, invitations, RSVP (`domain/src/service.ts`, `repository.ts`, `queries.ts`) | guests, sides (affiliations), invitation links, replies | create, edit, archive, restore, bulk changes, invite, replace, reply | seating (party size), every other workspace call through row locks |
| Guest import (`guest-import.ts`, `guest-import-repository.ts`, `guest-import-queries.ts`) | staged batch with preview version, rows, idempotency key | stage, remap, commit, repeat, expire, clean up | guests, sides |
| Seating and budget (`wedding-operations.ts`, `wedding-operations-repository.ts`) | tables, seats; currency, categories, vendors, expenses | add, resize, assign, delete; set, quote, spend, delete | guests; the wedding's row |
| Envelope templates (`envelope-repository.ts`) | templates | add, delete | the wedding's row |
| Lists, cursors, export (`cursor.ts`, `planning-repository.ts`, `repository.ts`, `service.ts`) | none: keyset pages of the rows above, the export's stream | first page, next page, stream | browser |
| Browser page (`couple-workspace.tsx`, `planning-workspace.tsx`, `operations-workspace.tsx`, `guest-workspace.tsx`) | what is shown, cursors, generations, busy flags | click, load, load more, save, reload | API |
| API HTTP layer, database client | none of their own | routing, validation, transactions | all of the above |

What is hard here, by kind:

* *Interleaving.* Admission against close; two shells driving one gate; a sign-in
  against a password reset; a new link against the worker that is sending the
  old one; remapping an import against its commit; seating a party against
  resizing it, its table or another party; a reply against the archiving of its
  guest; a quote against a change of the currency it is counted in.
* *Waiting.* The transactions of a wedding lock its row, sides, guests and tables
  in several orders, none of them written down.
* *Late and reordered answers.* The page sends requests and goes on; it tells the
  answers it still wants by counters.  Rows move between two pages of a list.
* *Late statements.* The PostgreSQL clients stop waiting after 10 s; the server
  may apply the statement afterwards.
* *Crashes.* A killed request leaves a gate lease, a killed worker leaves leased
  email jobs, a killed release leaves the gate closed or opened but unrecorded.
* *Clocks.* Email leases and token lifetimes are compared on different machines'
  clocks, and with times read at the start of a request.
* *Bounds.* Eight attempts, ten jobs a claim, three lanes a batch.

The correctness of each part, in a sentence: the *gate* is exclusively the
release's once drained, and an opening publishes what was validated; the
*outbox* sends every email a bounded number of times, records an outcome only
for the attempt it belongs to, and never loses live mail; the *accounts* are
verified and reset only with the password their owner confirmed, and no session
survives a reset; an *import* is committed exactly once from the preview the
user saw; a *workspace* never seats more people than a table has, never lets a
revoked link be answered through, never counts an amount in another currency
than it was entered in, keeps its limits and orders under any overlap of calls,
and never blocks itself but where it is known to; the *page* shows what was
chosen, complete, and never older than its own saves; a *cutover* never leaves
the ledger and the gate in disagreement unnoticed.

## 2. Modules

| Module | Models |
| --- | --- |
| `AdmissionGate` | abstract specification of the gate: leases enter only while it is open, it opens only when empty |
| `ReleaseGate` | control row, leases, admission with its row lock, all gate and migration commands |
| `ReleaseGateProofs` | theorems about `ReleaseGate`, including that it implements `AdmissionGate` |
| `MCReleaseGate` | its instances for TLC |
| `EmailOutbox` | tokens, jobs, workers, provider, late statements, cleanup |
| `EmailOutboxProofs` | theorems about `EmailOutbox` |
| `MCEmailOutbox` | its instances for TLC |
| `AuthAccounts` | one account, its tokens and sessions under concurrent requests, statement by statement |
| `AuthAccountsProofs` | theorems about `AuthAccounts` |
| `MCAuthAccounts` | its instances for TLC |
| `MaintainedSite` | abstract specification of a cutover: nothing is replaced while the site is open or in use, and it opens on Workers that fit the schema |
| `ReleaseCutover` | a release run from the push to the deployment record, with the gate's row, the Workers, the schema, the recovery point and the ledger |
| `ReleaseCutoverProofs` | theorems about `ReleaseCutover`, including that it implements `MaintainedSite` |
| `MCReleaseCutover` | its instance for TLC |
| `WeddingRows` | the rows of one wedding, row locks, and the life of an API call |
| `GuestList`, `InvitationLinks`, `SeatingPlan`, `GuestImport`, `Ledger`, `EnvelopeTemplates` | the handlers, each over `WeddingRows` |
| `Workspace` | their composition: any of these calls overlap on one wedding |
| `OneImport` | abstract specification of an import: offered, accepted once, told the same |
| `WorkspaceProofs`, `WorkspaceRules`, `WorkspaceLocks` | theorems about `Workspace`: types and what a call may rely on; the rules and the refinement; the order of locks |
| `MCWorkspace` | its instance for TLC |
| `WeddingLists` | lists of rows with keyset pages, and the changes others make between two pages |
| `GuestExport`, `MCGuestExport` | the streamed CSV export over these pages |
| `DeskScope`, `ListPanel`, `SeatingPanel`, `GuestDesk`, `WeddingMenu` | parts of the browser page: what is chosen, the panels that show lists, the seating, the guests, the menu of weddings |
| `CoupleDesk` | their composition, over `WeddingLists` and beside other members |
| `CoupleDeskProofs` | theorems about `CoupleDesk` |
| `MCCoupleDesk` | its instances for TLC |

### ReleaseGate

`control` is the row of `ops.release_control`, `leases` the ids in
`ops.release_leases`.  A *holder* is an API request under `withApiAdmission` or
a batch under `runAdmittedBatch`; `hs[h]` says where it is.  A *controller* is a
release run or an operator's shell; `pc[c]` is the place in the command it runs,
`seen`, `closure` and `evidence` are what it has read or been given.

* Admission is `ops.admit_release_lease`: `AdmitRead` takes the share lock on the
  open row, `AdmitInsert` inserts the lease and commits, `AdmitReply` brings it to
  the caller.  A refused admission (gate closed, answered with 503) changes
  nothing and is a stutter.  `StartStream` is a response with a body, which keeps
  the lease until the body is read, fails or is cancelled; `FinishWork` and
  `Release` are the `finally` block.  `Abandon` covers a failed admission, a lost
  reply, a failed delete and a killed process: a committed lease is left with no
  owner.
* An UPDATE of the control row is sent (`Send`), applied by the server
  (`ApplyClose`, `ApplyOpen`) or lost (`LoseStmt`).  Its sender waits for the
  answer or gives up (`GiveUp`: error, 10 s client timeout, killed process); the
  statement stays in `stmts` and may be applied at any later time.  `now()` in
  PostgreSQL is the start of the transaction, so `changed_at` is the statement's
  timestamp, not the moment the lock was granted; each statement has its own.
* `ApplyClose` needs the row's exclusive lock, hence `RowUnshared`.  A
  `closeFor` for the commit the gate is already closed for takes a new
  `changed_at`, one for another commit fails.
* `status()` is two steps, the row (`StatusRead`) and the lease count (the next
  step of the command), because they are two queries.
* `StartDrain` / `DrainCount` is the drain command with its polling loop,
  `StartMigrate` ... `MigrateEnd` the migration with its two assertions of the
  drained closure, `Accept` the evidence the runner builds after the private
  smoke, `StartOpen` ... `OpenSend` the open command.  The checks of the evidence
  against the published versions (`VersionsOk`) are those of
  `validateReleaseEvidence`.

The commands may be given in any order, by any shell: the model promises what
the gate's own checks promise, not what one particular orchestrator does.

### EmailOutbox

A token and its job are inserted together, one to one, and share an identifier.
`tokens` and `jobs` are the rows, `claim[w][i]` is worker `w`'s copy of a job,
`lanes[w]` the concurrent send loops of its batch still alive, `late` the outcome
statements nobody waits for any more, `delivered` what the provider has accepted
by idempotency key.

* `Issue` is the transaction of `registerPending`, `queueVerificationEmail` and
  `queuePasswordReset` as the outbox sees it: consume the subject's live tokens,
  delete their unsent jobs, insert a token and a job.  A *subject* is an account
  with a purpose.  `Consume` is the use of a delivered link.
* `Admit`, `ClaimJobs`, `LaneNext`, `Release` are one batch.  The batch reads its
  clock once and uses that time for the claim, the token check and every
  outcome, as `processEmailBatch` does.  `ClaimJobs` leases the first due jobs up
  to the limit, counts the attempt and copies them.
* `SendUnclear` is a timeout, a 429, a 5xx or an unreadable answer: the message
  may have been accepted.  After it, and after a mark that fails
  (`MarkFails`: the catch block takes it for a delivery error), the job is
  retried, or failed at the last attempt.
* `LaneDies`: a retry or fail statement that throws is not caught; the lane ends,
  `Promise.all` rejects, the lease is released, the other lanes go on.
* `Shutdown` is SIGTERM, `Crash` a killed process, at any step, with any of its
  statements still on the way to the server.
* `Cleanup` is `cleanupExpired` with the cascade from tokens to jobs; its limit of
  500 rows is never reached here.

Every SQL statement is one step.  `Reading` is what a process may take for the
current time: within `Skew` of the true one, which covers both different clocks
and a time read early in a request and used late in it.  Time advances only while
some row still waits for it (`Tick`), so no bound on the clock is needed.

The gate appears in this module only as the lease a batch holds; that a batch is
refused while the gate is closed is a stutter here and modelled in `ReleaseGate`.

### AuthAccounts

The rows of one address: `account`, `tokens`, `sessions`.  Different addresses
share no row, so one is enough.  A *request* is a call of `AuthService` in any API
process; `pc[r]` is its next SQL statement, `draft[r]` and `hit[r]` the changes its
transaction has made and not committed, `lock` the row locks of PostgreSQL.

* `SignUp`, `UpsertAccount`, `InvalidateTokens`, `InsertToken` are `signUp` and
  `registerPending`; `RequestLink`, `FindEligible`, `InvalidateTokens`,
  `InsertToken` are `resendVerificationEmail` and `forgotPassword` with
  `queueActionEmail`.  The service looks the account up once without a lock
  (`RequestLink`) and the transaction again with one (`FindEligible`).
* `Follow...`, `ConsumeToken` and then `VerifyAccount`, or `UpdatePassword`,
  `RevokeSessions`, `CommitReset`, are `verifyEmail` and `resetPassword`.  The
  verification is one statement with two updates; they are two steps because the
  second may wait for the account's row while the first holds the token's.
* `SignIn`, `Rehash`, `CreateSession` are `signIn`.  The branch on `needsRehash`
  belongs to the `PasswordHasher` port; the hasher shipped today has one policy
  and never asks for it, so `Legacy` stands for hashes of a later one.
* A statement that needs a locked row waits and then decides on the row as
  committed, which is READ COMMITTED; a statement whose condition already fails
  on the committed row does not wait.
* `Fail` ends a request at any statement: an error, the client's time limit or a
  killed process; its transaction rolls back.  A statement that is applied although
  its reply is lost is the statement followed by the end of the request.
* Two transactions that wait for each other are possible (a new link takes the
  account and then the tokens, the use of a link the token and then the account).
  `AbortDeadlock` is PostgreSQL's answer; without it TLC finds the deadlock.

Expiry is decided in `requireActionToken`; the statement compares with the same
time, so a refused link changes nothing.  The email jobs of the tokens are in
`EmailOutbox`.  `confirms` and `born` are history: what the account was when a
token was issued or a session created.

### ReleaseCutover

`ReleaseGate` lets anybody give the gate's commands in any order; `ReleaseCutover`
is the one program that gives them, `runLiveRelease` -> `executeRelease` ->
`runCutover`, together with everything else it changes.  `main`, `gate`, `inside`
(requests with a lease), `live`, `schema`, `stale` and `ledger` are the world;
`pc`, `sha`, `base`, `prepared`, `closure` and `awaits` are the run's variables;
`flight` holds the commands that are on their way.

* A phase of `pc` is a place between two calls of `runCutover`.  A step that only
  reads is `Check(ok, next)`: on, or an error.  A step that changes something is
  three: the run sends a command (`Send...`), the server carries it out
  (`Apply...`, which also answers a run that still waits) or it is lost (`Lose`).
  The run may stop waiting at any time (`Fail`: a timeout or any thrown error) or
  be stopped (`Kill`: the job's time limit, a lost runner); the command remains in
  `flight` and may be carried out later.
* `Throw` is the code's `try`/`catch`: before the opening an error ends the run,
  leaving the site as it is; from `open` on it recloses; in the reclose it is
  the "release incident".
* The run starts with the head of main (`Start`), reads the gate's row as the
  accepted baseline (`ReadBaseline`), compares it with the newest GitHub
  deployment and plans (`ReadLedger`), looks at main and at the gate before and
  after the preparation (`CheckHead`, `CheckGate`, `Preflight`), uploads versions
  (`Prepare`) and closes.
* A plan is what the commits between the published one and the candidate touch:
  `Touches[c]` and `Migration[c]` are a commit's Workers and its migration review;
  `Changed` and `Reviewed` are the union over the range, which is what the diff
  between the two shows.  A schema is named by the last commit whose migrations
  are applied; code fits it when it expects the same migrations (`Expects`, the
  revision check of `/health/ready`).
* Each Worker is promoted and read back on its own, so the pair is mixed in
  between.
* The workflow's concurrency group runs one release at a time, hence one `pc`; a
  finished run may be repeated while its commit is the head.  After a run that
  leaves the site closed the workflow cannot open it again (`executeRelease`
  demands an open gate and `closeFor` refuses another commit): recovery is the
  operator's and is not modelled.  The same holds for a run that ends between the
  opening and the ledger's success status: later runs refuse the baseline.
* A close that arrives after its run has given up closes the site without a
  release behind it; the model has it, and no property forbids it.

### Workspace

`WeddingRows` has the tables of one wedding as functions from identifiers to rows
(`guest`, `aff` for the sides, `link`, `rsvp`, `table`, `seat`), and for each
request `call[q]`, the operation it runs with its arguments and what it has read,
and `locks[q]`, the rows it holds `FOR UPDATE`; `call[q].shares` are those it holds in
a mode that others may share.  Different weddings share no row, so one is enough.

* A call is a few steps.  `Take` is its first statement, with the locks that one
  takes at once; `LockNext` locks the rows a later statement needs, one at a
  time and keeping those it has, in sorted order where the code sorts (tables) and
  in any order where it does not (bulk changes); `Decide` is a statement that reads
  and a decision on it; the last action writes, commits and frees the locks
  (`Done`).  `Once` is a call of one statement.
* `ShareNext` is the same wait for a row in a weaker mode: a foreign key takes
  `FOR KEY SHARE` on the row it refers to (a patched guest on the new side, an
  imported or new guest on the wedding, an imported one on its side), and the
  update that orders the sides takes `FOR NO KEY UPDATE`.  Such a call waits only
  for a holder of `FOR UPDATE` (`Shareable`), and `FOR UPDATE` waits for it (`Free`).
* PostgreSQL runs at READ COMMITTED: a statement reads what is committed when it
  starts, so a decision rests on its snapshot, and holds later only if a lock
  keeps it.  The model has each such gap: between counting and inserting, between
  reading the seats and taking one, between finding a link and writing its reply.
* `Refuse` ends a call at any point with nothing written: 404, 409, 422, a lost
  connection, the client's time limit, PostgreSQL breaking a circle of waits.  A
  call whose reply is lost is the call followed by the caller not knowing, which
  the import's keys are about (`RepeatCommit`).
* `GuestList` are sides, guests and bulk changes.  `PlaceSide` reads
  `max(sort_order) + 1`, and no unique index stands behind it.  A patch is an update
  that locks the guest and then, with the guest locked, waits for the side it gives
  them (`BeginUpdateGuest`, `UpdateGuest`); with a party size it locks the guest in a
  statement before (`BeginResizeParty`, `CheckSeat`, `ResizeParty`), because a seated
  guest keeps their party.  Setting and deleting a side go the other way round: the
  wedding and the side, then guests.
* `InvitationLinks`: the public reply is one statement that finds the link in its
  snapshot (`BeginReply`) and may wait for the link's row; PostgreSQL then reads
  the locked link again but not the guest it was joined with, so a link revoked
  meanwhile is refused and a changed allowance is not seen (`SaveReply`).
* `SeatingPlan`: assigning locks the guest, then the old and the new table sorted by
  identifier.  `Ledger`: every write that interprets the currency locks the wedding;
  `quote` and `cost` carry, as history, the currency an amount was saved under,
  which its row does not have.  `EnvelopeTemplates`: templates are counted under the
  wedding's lock.
* `GuestImport`: a mapping change is two transactions with an unlocked lookup in
  between (`LoadForMapping`, `BuildRows`, `ReplacePreview`); a commit locks the batch,
  checks version, lines and warnings against what the caller saw (`BeginCommit`), inserts
  the guests, whose foreign keys wait for the wedding and the sides (`InsertGuests`), and
  marks the batch (`CommitImport`), all in one transaction.  `Expire` and `Cleanup` may
  come in between.  `shown`, `added` and `told` are history; through them the module is
  mapped to `OneImport`.  `told` has the key of everyone who was told that the import is
  made.

### WeddingLists and GuestExport

A row has the time its transaction began, not the one it committed at
(`created_at` defaults to `now()`), so an insert can appear behind a cursor.
`Page` is a keyset page, `ExactCursor` the cursors that keep microseconds (tasks,
vendors, expenses, run sheet) and `DateCursor` those that pass through a JavaScript
`Date` (guests, weddings).  `Others` are the other members: inserts of one or more
rows in a transaction, and changes.  `GuestExport` is the response stream of
`streamGuestCsv`, one action a pull.

### CoupleDesk

`net`, `guestNet` and `menuNet` hold the requests of the page with the answers that have
not arrived.  Every request may be served at any time, in any order, or lost
before or after it is carried out, and its answer delivered at any later time.

* `ListPanel` is what the planning, budget and run sheet panels and, with
  `SeatingPanel`, the seating share: `gen` is their request generation, `pages` the
  cursor of each list, `busy` and `loading` what disables the controls.  `Reload`,
  `DeliverLoad`, `DeliverMore` and `AfterSave` keep the differences: planning empties its
  list and lets go of its controls, the others keep both until the answer.
* `GuestDesk` has two components.  The workspace reads the first page when the
  section is opened, keeps it and drops late answers by `guestRequestId` and
  `workspaceMutationVersion`; the guest list is mounted on that page and goes on with
  counters of its own (`requestId`, `mutationVersion`).
* `WeddingMenu` reads the weddings page by page and creates one.  `ChangeSection`,
  `ChooseWedding` and `DeliverCreated` replace the panel and what it keeps.
* Changes of texts are left out of a row, since no list is ordered or filtered by
  them; what is kept of an answer is which rows it has and after which committed
  change it was read (`at`).

## 3. What the runs check

| Run | Question | Properties |
| --- | --- | --- |
| `gate` | a request is admitted and released while two shells close, drain, migrate and open | `TypeOK`, `DrainedIsQuiet`, `ValidatedMigrationWasAlone`, `OpensAfterItsClosure`, refinement `GateSpec` |
| `gate_drain` | does a closed gate drain, and what do two releases by one shell publish? (`FairSpec`, published versions, late statements) | `ClosedGateDrains`, `PublishesTheRelease` |
| `outbox` | two workers with skewed clocks overtake each other on one job | `TypeOK`, `FenceIdentifiesClaim`, `ProviderCallsBounded`, `OneSenderPerLease`, `SentIsFinal` |
| `outbox_settles` | a second link is requested while the first is in flight: is every email settled? (`FairSpec`) | `EveryJobSettles`, `OnlyDeadMailVanishes`, `SupersededStaysQuiet` |
| `outbox_admission` | violation expected: see [the first finding](#7-findings) | `SendsAreAdmitted` |
| `auth` | three requests at a time on one address | `TypeOK`, `NoSessionOutlivesReset`, `OneLiveLink`, `VerifiedPasswordWasConfirmed`, `EachTokenOnce` |
| `auth_answers` | are requests that lock rows in opposite orders answered? (`FairSpec`) | `EveryRequestAnswered` |
| `cutover` | three commits are released, superseded, repeated, timed out and killed at every step while a visitor comes, writes and goes | `TypeOK`, `OpenSiteFits`, `BaselineWasChecked`, `PointHasTheData`, `FailureStaysClosed`, refinement `SiteSpec` |
| `workspace` | two API calls at a time, of any kind, overlap statement by statement on one wedding | `TypeOK`, `SeatsFit`, `OneLiveLink`, `SidesInOrder`, `WithinLimits`, `AmountsKeepTheirCurrency`, `OnlyKnownCircles`, `RepliesComeThroughOpenLinks`, refinement `ImportSpec` |
| `desk` | a member clicks through sections, weddings, filters and pages while answers are late, reordered or lost and others change the rows | `TypeOK`, `ShowsWhatWasChosen`, `FullListShowsSteadyRows`, `OwnSaveIsShown` |
| `guest_export` | violation expected: see [the second finding](#7-findings) | `ExportListsEveryGuest` |
| `guest_desk` | violation expected: see [the third finding](#7-findings) | `ArchivedStaysHidden` |

What they show:

* `DrainedIsQuiet` - the mode and the lease count are read separately and
  admissions never stop trying, but a drain that has returned for a closure that
  still stands means no lease and no running work.  It rests on the row lock
  between admission and close (drop it and the run fails).
* `ValidatedMigrationWasAlone` - the migration looks only before and after the
  SQL; because both looks compare `changed_at`, a gate opened and closed again in
  between is noticed.
* `OpensAfterItsClosure` - an open that timed out and arrives after a reclose of
  the same commit finds another `changed_at` and does nothing.
* `PublishesTheRelease` - what the open writes was validated against an older
  read of the row; still only versions built from the released commit replace
  published ones.
* `ClosedGateDrains` - with the platform ending every request, a closed gate
  empties, unless it is opened or an orphan is left; an orphan blocks drain and
  open until an operator deletes it, which is what the code does.
* `FenceIdentifiesClaim` - `leased_until` alone identifies an attempt: no two
  claims of a job have the same lease end, with any clocks.  It is what makes
  late outcomes harmless (`SentIsFinal`), and it depends on the backoff being
  positive (an immediate retry within the same clock reading would reuse the
  value).
* `NoSessionOutlivesReset` - `signIn` reads the account, verifies for a long time
  and inserts two round trips later; it rests on the `for update` of the insert's
  subquery (without it a session committed beside a reset survives it).
* `VerifiedPasswordWasConfirmed` - somebody who registers a pending address again
  replaces its password but thereby makes the older link useless.
* `OpenSiteFits` - whatever step of whatever run was lost or late, an open gate
  publishes exactly the pair that is served, and both were built for the schema
  the database has.  It needs a migration to concern both Workers even when the
  commits in between touched one (`Changed`), because failed and superseded runs
  make a release span several commits.
* `SiteSpec` - the same cutover seen from outside is `MaintainedSite`: promotions
  and migrations, late ones included, fall in closed and empty periods.
* `BaselineWasChecked` - two stores must agree before anything is planned, so a
  release that opened and was not recorded is never built upon.
* `PointHasTheData` - between the recovery point and the breaking migration
  nothing writes; it rests on the drain preceding the point and on the migration
  comparing the closure's timestamp.
* `FailureStaysClosed` - a run that failed behind its closure, or reclosed,
  leaves the site closed: a late open of the same commit finds another
  `changed_at`.
* `OneSenderPerLease`, `ProviderCallsBounded`, `EveryJobSettles`,
  `OnlyDeadMailVanishes`, `SupersededStaysQuiet` - see their comments.
* `SeatsFit` - five calls read or change what a table's seats depend on (assign,
  resize, delete, party size, archive), each with locks of its own; together they
  never oversell a table.  It rests on the guest's row being locked by every call
  that reads or changes a party or a seat, and the table's by every call that
  adds to it.
* `OneLiveLink`, `RepliesComeThroughOpenLinks` - archive, restore, invite and replace
  may overlap a reply in flight; a reply never lands through a link that was
  revoked before it is written, although the statement found the link open.
* `SidesInOrder`, `WithinLimits` - positions and counts are read before the insert;
  the wedding's row lock is all that keeps two creations apart.
* `AmountsKeepTheirCurrency` - the currency may change only while nothing is
  counted in it, and both sides of that race take the wedding's lock, a save
  without an amount excepted.
* `OnlyKnownCircles` - calls of a wedding can block each other for good in three ways:
  a bulk change is among them, which locks guests and a side in the order PostgreSQL
  finds them; a patch holds its guest and waits for the side it gives them, while a
  call that sets or deletes that side holds it and waits for guests; or two tables
  exchange their names.  PostgreSQL ends these with an error that the API reports.  Of
  any other calls that overlap, one always goes on.  TLC reaches the first two; names
  are left out, so the third is allowed of any two calls that change a table.  Renaming
  a side or a category is one statement and not modelled: the property does not speak
  of circles that such a statement is part of (two renames that exchange names, a
  rename beside a new order of the sides).
* `ImportSpec` - two mapping changes, a commit, its repetition and the cleanup
  overlap; the import is still the one the member confirmed, made once, and only
  the key it was made with is told that one: a commit with another key is refused.
* `ShowsWhatWasChosen` - an answer to an older question never lands on the page of
  another section, filter or wedding, and no row is shown twice.
* `FullListShowsSteadyRows` - a list read to its last page while others insert,
  complete, move and delete rows has every row that belonged to it all the time.
* `OwnSaveIsShown` - after a save and the reload it asks for, no older answer puts
  back what was read before the save.

Each property has at least one mutant of the modelled code that breaks it (the
operators commented "Mutant" beside the definitions they vary).

## 4. Bounds

* `MaxClock` bounds the timestamps taken in `ReleaseGate`, one per UPDATE sent and
  per evidence.  Five are enough to close, accept, open, and close and open
  again, which all the gate's races need; in `gate_drain` for the close and
  open of one release and the close of the next.
* One request and two shells, or one request and one batch, suffice for races
  between an admission and a close; two lease ids allow one orphan beside a live
  lease.
* `EmailOutbox`: two attempts stand for eight (first, last), with the backoff after the
  first, which is shorter than the lease (15 s and 120 s in the code), and a lease no
  longer than the token's life; from the fifth attempt on the code's backoff (240 s and
  more, `retryDelay`) is longer than the lease, which only the theorems cover: they
  assume it positive.  Skew 1 against a lease of 2 lets clocks disagree by a whole
  lease.  Two issues of one subject make one supersession.
* `AuthAccounts` has three requests, because a race of two needs a third to make
  the row they race for change again; three tokens (two links of one purpose and
  one of the other), two sessions, and two credential versions: one reset.
* `ReleaseCutover` has three commits (a web change, an API change with a breaking
  migration, one that touches neither Worker), so that a release spans a failed or
  superseded predecessor and one is skipped; `MaxClock` lets four gate statements
  be sent (two complete releases, or one with a reclose and another close),
  `MaxUploads` three preparations, one visitor.
* `Workspace`: two calls run at a time and a behaviour makes three (`MaxCalls`), so
  that a call can prepare the state two others race on.  Three sets of rows to
  start from (`MCRows`) have what longer histories would build: a seated, invited
  guest with two tables; a budget with a category and an unquoted vendor; a
  wedding about to import.  Limits are scaled to one or two.  The import has one
  batch of two lines and three mappings: no sides, one side, one wrong line.  Three
  calls are not enough for an import that waits for a side (it is staged and confirmed
  before), and two at a time not for circles of three: both are covered by the proof.
* `CoupleDesk`: three clicks (open, change, change again) and two committed changes;
  pages of one row, so that two rows make two pages; seven sets of rows, one or
  two for each kind of list, with a row still to come where a list may grow.  A
  section is opened only when it has rows (`InUse`), which leaves out panels that
  stay empty.  The first wedding is as old as the clock, so a new row may share
  its time.  `guest_desk` needs four clicks and one change.
* `GuestExport`: three guests, pages of two, a millisecond of two clock ticks.
* Symmetry is used only in runs without liveness properties.

## 5. Fairness

* `HolderFairness`: a process that is not killed goes on.  A request ends because
  the platform limits it or the client disconnects; nothing is assumed of the
  release commands or of the database granting the close's lock.
* `WorkFairness`: time passes, the loop or the minute trigger starts batches, a
  step that stays enabled is taken (a send ends by its 10 s timeout).
  `ClaimJobs` is strongly fair because a worker may be killed between admission
  and claim, but not every time.
* `RequestFairness`: a process that does not fail sends its next statement, and a
  row that keeps becoming free is granted to each of its waiters in turn (strong
  fairness of `Statement`); PostgreSQL breaks a deadlock after `deadlock_timeout`.
* `Workspace`, `ReleaseCutover`, `CoupleDesk` and `GuestExport` assume none: their
  properties are about what never happens, and a user or a release may stop.

## 6. Proofs

TLAPS proves, for any number of requests, batches, shells, commits, versions,
leases and timestamps, and any positive lease, backoff, lifetime, attempts and
any skew, for any number of concurrent requests, links and sessions of an
account, for any number of overlapping calls, guests, sides, tables, imports,
mappings, vendors and limits of a wedding, and for any rows, weddings, page size
and changes by others behind a browser page:

| Theorem | Statement |
| --- | --- |
| `ReleaseGateProofs!TypeCorrect` | `Spec => []TypeOK` |
| `DrainedStaysQuiet` | `Spec => []DrainedIsQuiet` |
| `MigrationAlone` | `Spec => []ValidatedMigrationWasAlone` |
| `NoLateOpen` | `Spec => OpensAfterItsClosure` |
| `OpeningPublishesTheRelease` | `Spec => PublishesTheRelease` |
| `ImplementsAdmissionGate` | `Spec => GateSpec` |
| `EmailOutboxProofs!TypeCorrect` | `Spec => []TypeOK` |
| `FencesIdentifyClaims` | `Spec => []FenceIdentifiesClaim` |
| `TakeoverAfterLease` | `Spec => []OneSenderPerLease` |
| `SentStaysSent` | `Spec => SentIsFinal` |
| `VanishingMailIsDead` | `Spec => OnlyDeadMailVanishes` |
| `SupersededIsQuiet` | `Spec => SupersededStaysQuiet` |
| `CallsAreBounded` | `Spec => []ProviderCallsBounded` |
| `AuthAccountsProofs!TypeCorrect` | `Spec => []TypeOK` |
| `ResetEndsSessions` | `Spec => []NoSessionOutlivesReset` |
| `OneLinkAtATime` | `Spec => []OneLiveLink` |
| `ConfirmedByOwner` | `Spec => VerifiedPasswordWasConfirmed` |
| `TokensUsedOnce` | `Spec => EachTokenOnce` |
| `ReleaseCutoverProofs!TypeCorrect` | `Spec => []TypeOK` |
| `OpenSitesFit` | `Spec => []OpenSiteFits` |
| `BaselinesWereChecked` | `Spec => []BaselineWasChecked` |
| `PointsHaveTheData` | `Spec => PointHasTheData` |
| `FailuresStayClosed` | `Spec => FailureStaysClosed` |
| `ImplementsTheSite` | `Spec => SiteSpec` |
| `WorkspaceProofs!TypeCorrect` | `Spec => []TypeOK` |
| `WorkspaceRules!ImportIsOneImport` | `Spec => ImportSpec` |
| `LinksAreSingle` | `Spec => []OneLiveLink` |
| `RepliesNeedOpenLinks` | `Spec => RepliesComeThroughOpenLinks` |
| `SidesStayInOrder` | `Spec => []SidesInOrder` |
| `LimitsAreKept` | `Spec => []WithinLimits` |
| `CurrencyIsKept` | `Spec => []AmountsKeepTheirCurrency` |
| `SeatsAlwaysFit` | `Spec => []SeatsFit` |
| `WorkspaceLocks!CirclesAreKnown` | `Spec => []OnlyKnownCircles` |
| `CoupleDeskProofs!TypeCorrect` | `Spec => []TypeOK` |
| `PageShowsWhatWasChosen` | `Spec => []ShowsWhatWasChosen` |
| `FullListsShowSteadyRows` | `Spec => []FullListShowsSteadyRows` |
| `OwnSavesAreShown` | `Spec => []OwnSaveIsShown` |

The only assumptions are those on the constants, which TLC evaluates in every
run: their types, null values that differ from the rest, and

* `GateAssumption`: the gate starts open;
* `CutoverAssumption`: every commit has its Workers and at most one review;
* `WeddingAssumption`, `LedgerAssumption`, `TemplatesAssumption`: finite sets of the
  rows that are counted; table identifiers are numbers, since they are sorted;
* `KindsAssumption`: rows of different tables are different rows, so a lock on one
  is no lock on another;
* `RowsAssumption`, `SeatedAssumption`: the rows a behaviour starts from satisfy the
  rules themselves (the tables start empty, and the theorems say that the calls
  keep the rules);
* `ListsAssumption`, `NoRowAssumption`: every row is in one list and rows are finitely
  many; identifiers are numbers, since keysets order them;
* `DeskAssumption`: each wedding has its lists, and the wedding shown at first is the
  newest one, since the page takes the first of the menu
  (`couple-workspace.tsx:160-165`).

*Gate.*  `IInv` adds to the type invariant: `LeaseInv` (a holder that works owns a
lease of the table, no two own the same, and a share lock is held only on an open
row); `TimeInv` (every timestamp in the row, in a statement or in somebody's
memory is below the clock, statements have distinct timestamps, and an open's
is later than the closure it names); `SnapshotInv` (a row somebody read with the
current `changed_at` *is* the current row unless it has been opened since);
`QuietInv` (while a controller's closure stands, from the moment it counted zero
leases no lease exists).  The last is why the row lock matters: counting zero
leases behind a closed gate stays true because no admission can be between its
read and its insert.  The refinement then needs only that an open finds no lease
and an insert happens under an open row.  `PublishInv` says what a sent open
carries.

*Outbox.*  `Base` is the type invariant with small facts about batches.
`FenceInv` relates every attempt somebody still works on, in a lane or in a late
statement, to the row: its lease end is not the row's unless it is the row's
attempt, and the next claim, which must be made at or after both the row's lease
end and its due time, will get a larger one.  `TurnInv` orders the attempts of
different workers.  `SettledInv` says a sent row has no lease, so no fence can
match it, and a superseded token has no unsent job.  `CallsInv` counts: the calls
made for a token and the lanes that have claimed its job and not called yet are
together no more than the attempts of its row, because a claim that adds such a
lane adds an attempt in the same statement.  A job is claimed again while a late
lane is still queued, so the lanes must be in the sum; and the row may be cleaned
up under a lane, after which the bound is `MaxAttempts` itself.

*Accounts.*  `LockInv` says who holds which row at which statement.  `IssueInv` says
that what a request found out about the account under its lock still holds and
that the tokens it invalidated are exactly the live ones of its purpose, hence
one live link after its commit.  `ConsumeInv` says that a locked token is unused
and that a reset about to commit has seen every valid session: nobody can insert
one without the account's row.  `TokenInv` (a reset link exists only for a verified
account) and `ConfirmInv` (a working verification link confirms the current
password) carry the two action properties.

*Cutover.*  The hard part is a command of a run that is over.  `ChangeInv` says that
while a migration or a promotion is on its way the site is closed and empty, no open
command would be accepted (`Fenced`: the closure it was sent for still stands), and it
is the one command the run waits for, or its run has ended and no later run has got
past the closed gate.  `OpenInv` says that a fenced open publishes what the Workers
serve now, fitting the schema, and belongs to the run that waits or to one that ended.
`StampInv` makes a closure's timestamp its own, so that a late close ends every
fence.  `RunInv` and `BaseInv` are what the run's checks established and nothing has
changed since: the gate's pair and the Workers are the baseline's until the run
promotes its own, a release without migrations expects the schema of its baseline, and
one with migrations uploads both Workers.  `DeadInv` says that after a run reported a
closed site nobody can open it; `DeadStays` that this never ends, since a new run finds
the gate closed.  The refinement then needs, for each command, where the gate stands
when it is carried out.

*Workspace.*  `WorkspaceProofs` first says what a call may rely on while it runs:
`CallInv` (an idle call holds nothing, no two calls hold the same row, a running
call holds what its operation locked first), and that rows once there stay rows
(`Stays`; guests and links are never deleted by these calls).  `Typed` adds the types of
the rows, `HeldInv` (a batch about to be committed is still the version its
caller confirmed, because its row is locked) and `PreviewInv` (the batch's rows are
the last preview shown, and it is committed exactly when it was imported).  With
`Typed` each statement of an import is a step of `OneImport` or a stutter.

`WorkspaceRules` needs, for each rule, what was decided under a lock to be still true
at the insert: `SidesInv` (the position in the call is larger than every side's, and
the count below the limit), `TablesInv`, `TemplatesInv` and `LedgerInv` (the currency in
a call that is about to write one is the budget's, or nothing is counted yet).
Each holds from the decision to the write only because the wedding's row is in
the call's locks and every call that could spoil the decision needs it too.
`SeatsInv` does the same for tables with five kinds of call: a party may grow, sit
down or lose its table only by a call that holds its guest, and a table fills or
shrinks only by one that holds the table, so what was counted under these locks is
what the write finds.  A table's people are the pairs of a guest and a seat number
(`Places`), so that the sum over its parties is the size of one set, and the
library's theorems about cardinality apply; a recursive sum could not be reasoned
about for every set of guests.

`WorkspaceLocks` proves the order of locks behind `OnlyKnownCircles`: `LocksInv` says what
each operation holds, shares and may still wait for.  Take calls that wait for each other
and leave out the known circles.  None of them waits for a table: of those that do, the
one that waits for the greatest table waits for a call that holds it, which then waits
for a greater one or for a name.  A patch waits for a side, which only a call that sets,
empties or changes sides in bulk holds while it waits, so there is none.  What is left
waits for the wedding, for a side or for a guest; each is held by a call that waits
itself, and such a call holds the wedding (sides, categories, vendors), shares it (an
import) or holds nothing (a guest about to be inserted).  The wedding is held by one call
at most, and it waits for none of the others.  The run's two calls make circles of two;
the theorem has no such bound.

*Page.*  `IInv` of `CoupleDeskProofs` has a part for each piece of the page.
`ListsInv` types the rows, and guests sit at tables of their own wedding; `ScopeInv`,
`MenuInv` and `GuestInv` say the same of the wedding chosen, the menu and the guests:
a guest request of the current scope, or of the list that is mounted, is about the
wedding on the page, whatever was chosen in between.  The panels need more, since an
answer is taken whenever its generation is the current one:

* `NetInv` says what such a request asked for (`WantedOK`: the present filter, and the
  lists of the present section and wedding) and, once served, what its answer is worth
  (`AnswerOK`: read after the last save, and with every row that was there all the
  time, up to the answer's own cursor).  `OneAtATime` keeps two answers from being
  merged: one load at most is wanted, and the panel is busy until the one request it
  waits for is answered.
* `PageInv` says that the page is empty or `PagesOK`: for each list, everything steady
  up to the cursor kept for it is shown.  A further page starts at that cursor
  (`MoreOK`), so appending it moves the cursor and keeps the statement.  It rests on
  two lemmas about keysets: `NothingIsSkipped` (a page of the first rows after a key
  has every row between that key and its own last one) and `ListsGoOn`, which every
  change of the lists keeps (a row nobody touched keeps its key and its filter,
  however many rows others insert, change or delete between two pages).
* `SavedInv` says that a mounted panel loads, saves, shows an error, or was read after
  the last save.  The disjuncts are those of the code's flow: a save ends in a
  reload or in an error, and a panel that changes its generation loads again.

`FullListShowsSteadyRows` is then `PagesOK` where no cursor is left, `OwnSaveIsShown` is
`SavedInv` when the panel is idle, and `ShowsWhatWasChosen` comes from `PageInv` and
`GuestInv`.  None of the three is inductive by itself: each says what the page shows
and nothing of the answers that are still to come.  TLC checked `IInv` on the instance
of `desk` before it was proved.

Checked by TLC only:

* liveness (`ClosedGateDrains`, `EveryJobSettles`, `EveryRequestAnswered`), which is
  outside the prover's reach;
* the properties of the three runs that find them violated (section 7).

Every invariant, action property and refinement of a passing run is stated by a
theorem of the table.

## 7. Findings

**A batch outlives its lease** (`outbox_admission`).
`docs/superpowers/specs/2026-09-26-worker-maintenance-cutover-design.md:120` says
that closing the gate waits for already admitted email sends.  In
`processEmailBatch` a lane whose `retryEmailJob` or `failEmailJob` statement
throws rejects `Promise.all` at once; `runAdmittedBatch` then releases the
batch's lease in its `finally` block while the other lanes are still inside
`sender.send`, and even start new ones.  The gate can be drained at that moment.
The run shows it: an email is being sent and its batch holds
no lease.  Nothing is lost (the outcome statements are fenced), but the drain
does not wait for those sends.  `ReleaseGate` takes the moment the batch function
settles for the end of its work, so `DrainedIsQuiet` speaks of admitted
functions, and this run shows where a batch outlives one.

**An export skips guests** (`guest_export`).
`docs/superpowers/plans/2026-09-23-guest-management.md:31` asks that traversal by
cursor "neither duplicates nor skips equal-timestamp guests", and
`packages/domain/src/cursor.test.ts:16` that cursors keep microseconds.
`listGuestExportPage` and `listGuests` make their cursor with `toISOString`, which
cuts `created_at` to milliseconds, while the next page compares the column itself.
The guests of one import share a `created_at`; when a page ends among them, the
rest of them are skipped, as are all rows of the same millisecond that come
after.  In the run three guests are imported, and the third is missing from an
export with pages of two.  The list of weddings has the same cursor; planning,
vendors, expenses and the run sheet do not (`FullListShowsSteadyRows` holds for
them).

**An archived guest comes back** (`guest_desk`).
The same plan says that "stale pre-filter and pre-mutation responses cannot
overwrite newer state" (:707-708) and that archiving "removes the row from active
view" (:709-710).  `CoupleWorkspace` keeps the guests of the first page; renaming or
deleting a side maps them into a new array (`couple-workspace.tsx:372-378`,
`:444-450`), and the effect of `guest-workspace.tsx:176-179` takes the new array for a
new page.  The list is set back to what was read when the section was opened:
guests archived since are listed again, later pages disappear.  The run shows the
first of these.

Observed while modelling and present in the models, without a line of the
repository that says otherwise:

* the first page of guests is dropped when a side was saved while it loaded, and
  the section then counts as loaded and empty (`couple-workspace.tsx:192-221`);
* a list load that ends during a save clears the busy flag the save has set;
* a view chosen while selected guests are given a side is followed by the list of
  the view before (`guest-workspace.tsx:378-395`);
* "load more" in the planning list leaves `busy` set when the filter changes while
  it loads, so the controls stay disabled (`planning-workspace.tsx:186-188`);
* creating a wedding has no idempotency key: a lost reply and a second try make
  two weddings;
* an amount is entered under the currency the page shows and stored under the one
  the budget has by then: `AmountsKeepTheirCurrency` is about the rows, not about what
  the member saw.

## 8. Not modelled

* Starvation of a close by a stream of share locks: the model lets a close wait
  for ever and claims nothing about it.
* The runner's clock: evidence timestamps and the database's are one clock.
* In `ReleaseCutover`: operators (recovery after a failure, hand-made promotions),
  the smoke's timestamps, builds and their scans, and rate or shape errors of the
  providers, which are all an error of the step (`Fail`).
* Provider inventories, argument parsing, SQL of the migrations, pages, headers
  and cookies; cryptography (hashes are opaque).
* The order of jobs within one batch (any job of the claimed set may be next).
* Rate limits and session expiry: a counter is one upsert that nothing else
  reads, and expiry only ends a session earlier than the model does.
* Reading and writing CSV text, e-mail and phone normalisation, password hashing,
  the token codec: pure functions whose result the models take as given.
* Of a wedding: names, addresses, notes, colours, settings and profile; amounts,
  totals and dates of the budget, the overview's counts and the RSVP summary, each
  read by one statement; layouts and print data of envelopes.
* Of the browser page: the overview panel, wedding settings, search, side and reply
  filters, archiving several guests at once (for one guest it is the button of the
  row), the form for the budget's currency, questions about unsaved forms, the
  import and envelope editors, sign-out, the public reply page and the account
  pages, which hold one request at a time.
* Components listed `not_modelled` in `PROJECT.json`, with their reasons.

## 9. What could follow

1. The order of the jobs in a batch, and with it how long a lane can stay queued behind
   others, which bounds how late a send can follow its claim.
2. `SessionLifetime` and `RateLimits` with several clocks, if a property about their
   drift is ever stated by the code or its documents.
