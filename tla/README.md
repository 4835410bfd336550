# Formal model of GBP Pilot Review

GBP Pilot Review polls the Google reviews of its clients, filters them, has a
language model draft replies, has a person validate them, and publishes the
validated replies after a delay during which they can still be undone. The
backend is a FastAPI application and Celery workers (Redis broker) over one
PostgreSQL database. This directory models that backend in TLA+: TLC checks small
instances, TLAPS proves the invariants for instances of any size.

Paths below are relative to `backend/app/` unless they say otherwise.

## Inventory

### How the parts run

* **HTTP requests** (FastAPI). One SQLAlchemy session each, READ COMMITTED, no
  autoflush. A handler loads a row, checks it, and commits later; there is no lock
  and no version column, and the UPDATE names only the columns that changed.
* **Celery workers**, two processes per queue in `docker-compose.prod.yml`.
  `task_acks_late` and `task_reject_on_worker_lost` (`celery_app.py:26-27`) give a
  message back when its worker is lost: every task can run twice. `autoretry_for`
  re-enqueues a task that raised; the last failure is stored as a dead letter.
* **Beat** enqueues polls, dispatches, token refreshes, digests and maintenance.
* **Shared state**: the tables, the broker's queues, and what Google shows.

### Components

| Component | State | Operations | What must be true | Modelled in |
|---|---|---|---|---|
| Validation and publication (`services/publication_service.py`, `api/v1/responses.py`, `tasks/publication_tasks.py`, `api/v1/admin/deletions.py`) | `responses.status`, dates, text; publication queue; the reply at Google | approve, cancel, edit, regenerate, delete; dispatch; publish | nothing leaves before its undo window; a cancellation stops the reply; one reply per review; what is shown is what was validated; every scheduled reply is decided | `Publication` |
| Publication date (`utils/time.py`) | none | `compute_publish_at` | the delay is respected, the date is in the window | `PublishAt` |
| Filtering (`services/filtering_service.py`, `tasks/polling_tasks.py`) | `reviews.status` | `decide` | no review is forgotten; three stars or fewer never reach the model | `Drafting` |
| Generation and quota (`services/generation_service.py`, `services/quota_service.py`, `repositories/quota_repository.py`) | `responses`, `quota_usage.count` | `generate_for_review`, `consume_or_raise` | the cap holds; what is counted is the calls whose result is stored | `Drafting` |
| Settings (`api/v1/settings.py`) | `client_settings` | patch | tasks that read before do not contradict the rules | `Drafting`, `Notices` (environment) |
| Polling (`services/polling_service.py`, `tasks/polling_tasks.py`) | `reviews`, the polling queue | dispatch, poll | each review is stored once and enqueued | `Intake` |
| OAuth (`services/oauth_service.py`, `tasks/oauth_tasks.py`) | `oauth_credentials`, `locations` | consent, refresh, revoke | a withdrawal is noticed; only a consent restores a credential | `Intake`, `Publication` |
| Google Business client (`integrations/google_business/`) | none | tokens, locations, reviews, replies | each answer is the error its callers expect | `Intake`, `Publication` |
| Subscriptions (`api/v1/webhooks.py`, `services/subscription_service.py`) | `subscriptions`, `webhook_events` | one handler per event | each event is applied once; the quota is the tier's | `Billing` |
| Thresholds (`tasks/maintenance_tasks.py`) | `quota_usage.last_alert_threshold` | the daily look | a threshold that is passed is noted, and noted only with its notification | `Notices` |
| Notifications (`services/notification_service.py`, `tasks/notification_tasks.py`) | `notifications` | dispatch, send, digests | what is marked sent was sent; nothing deferred is lost | `Notices` |
| Purge, GDPR (`tasks/maintenance_tasks.py`, `api/v1/me.py`) | soft deletions, every table | delete, purge | what was deleted is erased, nothing else is | `Accounts` |
| Authentication (`services/auth_service.py`) | `users`, `clients` | signup, the check of a request | one account per address, stored as a whole | `Accounts` |
| Administration (`api/v1/admin/`) | soft deletions, `audit_logs` | delete, suspend, reactivate, notes; delete a reply | see purge and publication | `Accounts`, `Publication` |
| Dead letters (`services/dlq_service.py`) | `dead_letter_jobs` | record, replay | a failed task is recorded | recording in `Drafting` |
| Retry and circuit breaker (`utils/`) | counters of a process | call | opens and closes again | not modelled |
| Reads, prompts, templates, formats, logging | – | – | formatting, reads, data | not modelled |

The hard behaviours, each with its line, are the `hazards` of `PROJECT.json`:
checks made stale by other requests (`publication_service.py:83`, `responses.py:71`),
duplicated messages (`publication_tasks.py:23`), workers lost between two commits
(`publication_service.py:121`), answers of Google that are lost (`:124`), check and
count in separate statements (`quota_service.py:25`), tasks that are run again on
rows that have moved on (`filtering_service.py:64`), constraints that roll back more
than what violates them (`polling_service.py:55`), loops that one failure ends
(`oauth_tasks.py:29`), mails that are sent before they are recorded
(`notification_service.py:72`, `maintenance_tasks.py:49`), and references that hold
up a deletion (`maintenance_tasks.py:70`).

## Modules

| Module | What it is |
|---|---|
| `Publication` | detailed specification of a reply from its validation to its publication |
| `ReplyLifecycle` | abstract specification: what publication promises for a reply |
| `PublicationRefinement` | the mapping of `Publication` onto `ReplyLifecycle` |
| `PublishAt` | `compute_publish_at`, and one approval that uses it |
| `Drafting` | detailed specification of a review from its detection to its draft |
| `Intake` | detailed specification of polls, consents and refreshed tokens |
| `Billing` | detailed specification of the deliveries of a subscription's events |
| `Notices` | detailed specification of thresholds, notifications and digests |
| `Accounts` | signup, deletion and purge over the foreign keys of the schema |
| `MCPublication`, `MCPublishAt`, `MCDrafting`, `MCIntake`, `MCBilling`, `MCNotices`, `MCAccounts` | instances for TLC |
| `PublicationProofs`, `RefinementProofs`, `PublishAtProofs`, `DraftingProofs`, `IntakeProofs`, `BillingProofs`, `NoticesProofs`, `AccountsProofs` | theorems checked by TLAPS |

How they touch: what `Intake` sends is what `Drafting` begins with (`detected`
reviews); a draft of `Drafting` is a pending reply of `Publication`, whose
regeneration is `Drafting`'s `Regenerate`; the tier that `Billing` writes is the one
`Drafting` and `Notices` read; the foreign keys of `Accounts` hold the rows all the
others write. Each reads what the others write as an input that may change at any
time (`ChangeTier`, `Charge`, `Connect`, `Withdraw`).

An operator whose comment begins with `Bug:` is not part of the specification: it is
the definition below or above it with an error, and the property named beside it in
`PROJECT.json` must fail with it.

### Publication

A caller `u` is a request. `Receive` is the handler up to its checks (`Admits` is
the conditions of the five handlers), and the `Commit...` actions are the rest: in
between any other process may move. Each remembers the columns it loaded, because a
column set to its loaded value is not written (`Column`). `Abandon` is a request
that dies. A deletion calls Google before it commits (`DeleteReply`, `CommitDelete`).

`Dispatch` is the beat task: the earliest `Limit` due rows each get a message. The
row locks of its query end with its commit and so protect nothing.

A worker takes a message (`Deliver`: the early returns of `publish_now` are there),
then reads the credential: `Blocked` (not active) or `Allowed`, after which it may
still lose it before `Claim` (commit of `publishing`), then
`CallGoogle`, whose outcomes are accepted, accepted with the answer lost, refused
for the token (401 when it is not honoured, 403 also when it is: both are
`GoogleAuthError`), failed, and then `Publish`, `RollBack` or `Fail`. `Fail` re-raises:
Celery enqueues the task again. `Crash` gives the message back at any point.
`Withdraw` and `Reauthorise` are the client's consent at Google.

`draft`, `pending_validation_client` and `pending_validation_team` are one status,
"pending": every guard of this code treats them alike. `awaiting_publication` is
never written.

### PublishAt

The two random draws are parameters. Local clocks are seconds plus an offset that
changes once, with Python's rule (`fold = 0`) for times that occur twice or not at
all, so that the model has the nights the clocks change.

### Drafting

A task is one transaction, but not one step: `FilterTake` loads the settings,
`FilterCommit` decides on them; `GenTake` loads review and quota, `GenCheck` reads
the committed count, `GenIncrement` locks the row of the month it then is (waiting
for the other transactions that hold it) and `GenCommit` makes draft and count
visible: an answer, a refusal and a failure of the model alike are stored and charged,
each with its `ai_status`. `GenFail` is a rollback at any point - the constraints
`uq_response_review_version` and of `quota_usage` are what refuses a second
insertion -, `FilterFail` the same for the filter, ending as a dead letter.
`FilterEnd`, `GenEnd`: the worker may be lost after its commit and before the
acknowledgement, so that the task runs again on a row that has moved on. A review's
text is three facts (present, in a supported language, matched by the blocklist).

`Drive` deserves a word. In the application nothing takes a review from `processing`
to `generate_response`; the load simulation and the integration tests do. The
constant `Driven` says whether such a driver exists; without one every review the
filter hands over waits for ever.

### Intake

A poll is one transaction that calls Google between its insertions. `PollTake` loads
the credential and the locations, `PollList` asks for a location's reviews with the
token it loaded (`Refuses`: 401 for a token that is not honoured, and, where `Forbids`
holds, 403 for one that is), `PollLookup` and `PollInsert` are the two statements for each
review, `PollCommit` makes them visible, `PollSend` enqueues one of them. What another
poll has inserted and not committed makes an insertion wait (`Waits`); once that is
committed the unique key refuses it and rolls the whole poll back (`PollDuplicate`),
and of polls that wait for one another in a circle, of whatever length, the database
fails one (`WaitsFor`, `OnCycle`, `PollDeadlock`). `PollRevoke` is the
`except GoogleAuthError` with its commit and its return without sends. `PollFail` and
`PollCrash` end a poll anywhere; `cut` remembers the reviews it had committed.

`Consent`, `ConsentFlush` and `ConsentCommit` are the callback: from the flush to the
commit the row is locked, and `list_locations` is called in between. A consent
is numbered; a token is the number of its grant and an age. `RefreshStart` loads the
expiring credentials, then `RefreshCall` with `RefreshGranted` or `RefreshRefused` for
each. A dead grant is answered 401 or 403 (`GoogleAuthError`), or 400, which
`_check_status` turns into an error that ends the task: `Refusals` says which of them
occur. Only the columns that differ from the loaded ones are written, which is why a
refresh leaves the status alone. `Withdraw` is the client's, at Google.

### Billing

A delivery is one transaction: `Receive` (`is_event_processed`), `Record` (the insert
whose unique key makes another delivery of the event wait, or refuses it), `Load`,
`Flush` (where the database refuses: `Refused` are the reasons), `Finish` (the commit
of event and subscription). `Ignore` is an event without a client or with nothing to
mark, `Misread` one whose handler fails before the database does, so that the `finally`
commits it unprocessed; then its redelivery is refused by `Record`. `Reject` is the
foreign key that refuses the row of a client there is not. A client may have a row from
its signup, whose number is NULL (`NullSid`); an event that inserts one without a number
stores the empty text (`NoSid`), which is a value of the unique index like another. `Handled` is what an event
does to a row, `Write` what two overlapping changes of one row leave. An answer 200
may be lost (`Answer`), a request too (`Abort`); any event that is not answered 200
is delivered again, in any order.

### Notices

The daily look goes client after client: `LookNext` computes the threshold, `LookSend`
sends, `LookCommit` is the commit inside `dispatch`. The threshold is set after that
commit and so written by the next one, that of another client or of the end of the
task (`pend`, `Recorded`). `NoteStart`, `NoteSend`, `NoteCommit` are
`send_notification` with its retries; `DigestStart`, `DigestNext`, `DigestMail`,
`DigestEnd` are a digest, two of which may overlap, with one commit at the end.
A mail can be refused, or accepted and the answer lost. `Charge` and `Change` are the
generation, the tier and the settings. Usage and threshold are rows of a month, and a
look is at the month it starts in; `NewMonth` comes at any moment.

### Accounts

A row is a table and an account. `Keys` are the foreign keys of the migration with
their `ON DELETE`; `Gone`, `Blocked` and `Kept` are what PostgreSQL does with them
for one statement, and `Purge` is the two statements of the task. Signup is a check,
a flush and a commit, with the waits and refusals of the two unique columns.
`Open` is `get_current_user`; the request that passed it acts later (`DeleteMe`,
`SoftDelete`, `Administer`, `Approve`, `Regenerate`), possibly for a user that has
been deleted meanwhile. `Connect` and `Draft` fill the tables. `Age` is the passing of
thirty days.

## Runs

Passing runs:

| Run | Instance | What it shows |
|---|---|---|
| `PublicationRaces` | 1 reply, 2 callers, 2 workers, 2 texts, 1 crash | whatever overlaps: no reply leaves before both dates of its row (`NothingSentEarly`), a cancellation that succeeded has stopped it (`CancelStopsReply`), the text shown is the row's (`ShownTextIsRowText`), a published row was accepted (`PublishedWasAccepted`) |
| `PublicationOneWorker` | 2 replies of 2 clients, batches of 1, 1 caller, 1 worker, 1 crash | with one worker a reply is sent once (`SentOnce`), completion and publication agree and are final (`CompletedIsPublished`, `PublishedIsFinal`), every step is one of the abstract life cycle (`LifecycleHolds`), a scheduled reply is decided, unless its client's authorisation is lost, a crash strands it, or due replies of clients without one fill the batch (`ScheduledIsDecided`) |
| `PublishAt` | every hour of two days around a change of clock, 12 windows, 4 zones, 5 ranges | `DelayRespected`, `DueInWindow`, `NoLongWait` |
| `Drafting` | 2 reviews of 3 kinds, 2 settings, 1 + 1 workers, 1 crash, 1 retry, 1 regeneration | reviews of three stars or fewer are never drafted (`LowRatingStaysHuman`), what awaits its answer has a response that was not published, so that no repeated task opens an answered review again (`AwaitingIsUnanswered`), and every detected review is filtered or dead-lettered (`DetectedIsFiltered`) |
| `MonthlyQuota` | 3 reviews, 2 generation workers, tiers of 1 and 2, 2 months | `QuotaNearlyHeld`: the cap is passed by less than the number of workers, also when the tier or the month changes between load, check and count; `CountIsStoredCalls`: a month is charged the calls whose result is stored, whichever generations overlap, collide or are sent twice |
| `Intake` | 1 client, 2 locations with a review each, 2 poll workers, 1 fault | a review is enqueued at most once and after it is stored (`EnqueuedOnce`), a revoked credential comes back by a consent alone (`OnlyConsentRestores`), a withdrawal is noticed (`WithdrawalNoticed`), colliding polls store every review in the end (`PostedIsStored`), and what is stored is enqueued but for polls cut short (`StoredIsEnqueued`) |
| `Billing` | 3 clients, one with the trial of its signup, 7 events, 2 requests at a time, 1 fault | each event is applied once and answered 200 only then (`AppliedOnce`), `QuotaOfTier`, at every moment the plan is what the applied events make of it in some order, and the whole row too while the client has one subscription number (`Serial`), an event that can be handled is processed, unless another client holds the number it would write (`SoundIsProcessed`) |
| `Notices` | 1 client, 2 digests, 1 task, 2 months, 1 fault, 1 change (of the quota, the mode or the month) | a recorded threshold has its notification (`RecordedIsStored`), a notification marked sent was mailed (`SentWasMailed`), a client is told of something no more often than there were occasions and faults, times the digests that may overlap (`RepeatsAreBounded`), what was deferred is told (`DeferredIsTold`), and a quota that is exhausted comes to be noted unless it is raised or the month ends (`ExhaustedIsNoted`) |
| `Accounts` | 3 signups (two share an address, two a name), 1 administrator, 3 acts | accounts are whole (`WholeAccounts`), nothing is erased early (`ErasedWasDeleted`), what was deleted is erased unless a reply or a regeneration names a user that is due (`ErasedUnlessReferred`) |

Runs in which the code does not do what a document says, each a finding in
`PROJECT.json`:

| Run | Shortest story |
|---|---|
| `DoubleReply` | two workers hold a message of one reply, both read `scheduled`, both call Google (`README.md:44` of the repository announces a lock that is released before the message is sent) |
| `FalseRevocation` | one client's dead grant is answered 400 and ends the refresh task (`docs/04-flows.md:71` has it revoked); the token of the next client dies, its poll is refused with 401, and a credential Google still honours is marked revoked |
| `BlockedPurge` | a user who validated a reply is deleted; thirty days later the purge is refused by the reply's reference to it, every day (`docs/06-security.md:58` promises the erasure) |

### Observations without a run

Read in the models while writing them; each is a consequence of the cited lines.

* Publication: an approval that loaded the row before a cancellation or a
  regeneration commits after it and brings the reply back (`responses.py:98`); a
  worker lost after the commit of `publishing` leaves the reply there for ever
  (`publication_service.py:121`); the due replies of clients without a credential
  fill every batch (`response_repository.py:32`), so that the replies of others wait as
  well, while `docs/04-flows.md:450` has the next dispatch publish them: `Crowded`, the
  last exception of `ScheduledIsDecided`.
* Drafting: the count of a month has the refusals and the failures of the model in it
  (`generation_service.py:59-117`), which `docs/01-database.md:96` leaves out
  ("hors refus IA"); after a regeneration the response is superseded, the second draft
  is refused as version 1 again (`generation_service.py:101`, `responses.py:98-99`), and a
  review in `awaiting_response` has nothing left to validate.
* Nothing enqueues the generation of a review the filter accepted
  (`filtering_service.py:99`), nor `send_notification`.
* Billing: the date of a payment is text the column refuses, so that the event can
  never be applied; a missing subscription number is stored as `""` in a unique
  column (`subscription_service.py:100`; `docs/01-database.md:83` has NULL), so that an
  order of the second client without one is refused at every delivery; so is an order of a
  client id without a row, by the foreign key; an event that failed before the
  database is stored and refused for ever (`subscription_service.py:88`); events that
  arrive out of order are applied so (`:108`); two overlapping events that name two
  subscription numbers of one client may leave the number of one with the tier of the
  other, which no order of the two gives, because each writes only the columns in
  which it differs from what it loaded: `Serial` asks for the whole row only where
  there is one number.
* Notices: what was deferred is never sent once the client turns digests off; a
  mail that was refused is stored `failed`, noted as told and not tried again (three
  retries in `docs/04-flows.md:377`); a quota exhausted after the last look of a month is
  never told, for the look is at the current month only (`maintenance_tasks.py:29-31`;
  `docs/04-flows.md:346` has the notice without such a condition); after an upgrade the threshold stays at 100, so that a second
  exhaustion of the month is not told.
* Accounts: deleting oneself deletes the user alone - its client stays polled and
  published; an address is taken until its deleted user is purged, and the signup
  fails instead of being refused; two names with one slug fail at the first flush,
  outside the `try` (`auth_service.py:60`); the purge writes no audit entry
  (`docs/01-database.md:373`); deleting again renews the thirty days.
* Replaying a dead letter calls `asyncio.run` inside the loop of its endpoint and
  raises before anything is sent (`dlq_service.py:90`).

### Bounds, and why they are enough

* The clock stops at `MaxTime`; an approval is taken only when its due date can be
  reached. One approval with its grace (1), its delay (3) and a tick more is the
  whole of a reply's life. `Grace`, `MinDelay` and `Latency` keep the order of the
  real 10 minutes, one hour and the length of a request: this is
  `TimingAssumption`, which a deployment that sets the undo period to the 60 minutes
  `config.py` allows would not meet.
* `QueueBound = 1`: a message beyond it is not counted. Two workers still hold the
  same reply together, since the dispatcher enqueues it again once it is taken.
* `MaxCrashes`, `MaxTokens`, `MaxMonth`, `MaxRegenerations` and the retries bound what happens
  otherwise without end; one crash, one renewal and one change of month are where
  the interesting interleavings are.
* Three reviews, because with two workers a broken check shows only at the third
  draft of a tier of one.
* `Intake`: `PollRetries = 0`, because a retry is one more poll and `Dispatch` brings
  those without bound. A page is a location of its own. Time passes only at rest
  (`Tick`): a task is shorter than half an hour. One client in the passing run,
  since polls of different clients share no row (a location belongs to one
  client: `place`); two in `FalseRevocation`, where the refresh task joins them. One
  consent each: what a second one meets is covered by the theorems, which bound
  neither.
* `PublicationOneWorker`: two clients and batches of one are the least in which the due
  reply of one fills the batch of the other.
* `Drafting`: `Answering` says whether drafts are published in the instance, as in the
  run with one worker; in `MonthlyQuota` they stay, which no count depends on. There a
  message that is sent twice (`Drive`) stands for retries and redeliveries, since each
  meets the same constraints.
* `Billing`: a subscription that is changed and cancelled, and the orders of two more
  clients, none with a number: these meet in the unique index. A change of number, two
  numbers of one client and two insertions for one client are not in the run; the safety
  theorems cover them, and any number of clients. `SoundIsProcessed`, which is liveness, is
  checked for these three clients only.
* `Notices`: one client and quotas of four and five, so that both thresholds are crossed,
  over two months; that the commit of one client writes the threshold of another is
  covered by the theorem `RecordedAreStored`. The one message is of an immediate event:
  what is deferred is the notice at 80 %.
* `Accounts`: one row per table stands for all of an account's rows in it, since a
  cascade takes all or none. Four foreign keys ON DELETE NO ACTION are left out:
  those of columns that nothing sets (parent review, related review and response) and the
  one to `prompt_versions`, which no purge touches. Three acts reach an approval, a deletion of its user and
  one of its client.
* `CHECK_DEADLOCK FALSE`: the system comes to rest when the clock or the months end
  and every queue is empty, which is no deadlock of the program.

### Fairness

Beat runs every minute (`WF` on `Dispatch` and `Tick`), requests end and workers work
(`WF` on their steps). Brokers deliver in order, so a message is not overtaken for
ever by those of other rows: `SF` on taking the message of a given row, strong
because a worker is busy and free again in between (`PollTake` for a client likewise).
A webhook is delivered again until it is answered 200, as Lemon Squeezy does: `SF` on
`Receive` of each event, strong because both requests may be busy. The daily look, the
digests and the purge are beat tasks: `WF` on `Beat`, on the steps of the look, on those
of the digests whichever worker takes them, and on `Purge`, which is disabled while the database refuses it. A lost worker, a withdrawn consent,
a consent, the passing of time in `Intake` and `Accounts`, a regeneration and the driver
are never required to happen.

## Proofs

All theorems hold for any numbers of rows, clients, requests and workers and any
bounds on crashes, retries and time, from the assumptions of the modules
(`...Assumption`, about the constants only) and, for publication, `TimingAssumption`.
Every invariant and every action property of the passing runs is proved; liveness
is not. Each module begins with `TypeCorrect`; what follows is what the others need
beyond types.

* **`PublicationProofs`**: `NeverEarly`, `CancelIsEffective`, `ShownIsStored`. These
  are not inductive: a request that has passed its check can still commit when the
  reply is on its way. `IInv` therefore says how far the due date lies
  beyond the instant such a request read the clock (`Dated`, `OpenDecisions`,
  `OpenCancels`): an approval or a cancellation ends within `Latency` of its read,
  and `MinDelay >= Grace + 2 * Latency` leaves no room for a dispatch before it.
  That is the reason the code is right without locks, and the deployment
  parameter on which it depends. `PublishedIsAccepted` rests on `AInv`: the work that
  is about to write `published` has Google's acceptance, and no row goes
  back to published otherwise.
  With one worker, and any number of callers, `OneWorkerSendsOnce`,
  `OneWorkerCompletes` and `OneWorkerIsFinal` rest on `SInv`: a send is only ahead of a
  reply that was not sent, because the status excludes `scheduled` from the claim to
  the outcome and there is no second worker that read it before. `FinishOutside` and
  `WorkEffect` say once what requests and workers may do to a row.
* **`RefinementProofs`**: `OneAtATimeImplements`, that `Publication` with one caller at a
  time, one worker and no regeneration implements `ReplyLifecycle` under the mapping of
  `PublicationRefinement`. `RInv` adds to `IInv` and `SInv` that what was checked still
  holds: a request finds the status it asked for (`Expected`), a worker the one it left
  (`Left`); each action then maps to one step of the life cycle or to none
  (`FinishMapped`, `WorkMapped`, `StepMapped`).
* **`PublishAtProofs`**: `DelayIsRespected`, `DueIsInWindow`, `WaitIsBounded`, over
  all instants, draws, windows and offsets. What the clocks go back appears in the
  statements, because `datetime.combine` picks the first of two equal local times.
* **`DraftingProofs`**: `QuotaHolds` is not inductive; `Committed(m)` is the set of
  generations that can still add to month `m` without meeting its cap - counted,
  checked, or with a quota loaded before the month that is greater than any it has
  known - and the invariant bounds the count plus the size of that set by the cap plus
  the workers less one. The check adds a worker only below the cap, a commit moves one
  from the set to the count, a new month starts with an empty count.
  `LowRatingsStayHuman`, `AwaitingUnanswered` and `CountsAreStoredCalls` rest on `DInv`: what
  asks for a generation was let through by the filter or already has a draft
  (`GoodOrDrafted`), and what a transaction has counted and not committed is the call
  whose result it will store. `ReviewsAreNotLost` follows a message: a review nobody has filtered
  has it in the queue or with a worker, or it ended among the dead letters; a decided
  review is never `detected` again (`DetectedKept`). Fairness is all that
  `DetectedIsFiltered` needs besides.
* **`IntakeProofs`**: `ReviewsEnqueuedOnce` from the found sets of open polls, which
  are apart from each other and from what is stored (`FoundApart`, `FoundIsFresh`: the
  unique key and its waits); `NothingForgotten` - every stored review was sent, is
  about to be, or was cut short - is the safety half of `StoredIsEnqueued`;
  `ConsentRestores` is an action property that needs only types. `PollsAreNotStuck`
  says for any number of workers why overlapping insertions are no deadlock: where
  nobody moves, each poll waits for another, a finite set in which everyone waits has
  a smallest subset with that property, and in that one everyone is also waited for
  (`CycleWithin`): a circle, which the database breaks.
* **`BillingProofs`**: `EventsApplyOnce` because a request past `Record` owns its event
  (`OwnedOnce`): no other is past it, and the row says `none`. `QuotaFollowsTier` because what a
  request loaded has the quota of its tier (`SeenIsThere`) and `Write` changes the two columns
  together: quotas of different tiers differ. `OverlapsAreSerial` rests on `VInv`, which
  says that the applied events have made each row (`Made`), that its tier and its status
  are each that of one of them (`TierIsGiven`, `StatusIsGiven`), and that what an open
  request has loaded was true once (`SeenWasTrue`): a column no applied event has touched
  is still that of the first row. Then a column that a request leaves unwritten, because its
  event agrees with what it loaded, is explained too. An order is then built that
  ends with the event or the two events the row shows (`OrderEnding`,
  `OrderEndingTwo`, `SomeOrderExplains`), and replayed (`ReplaySteps`, `ReplayMade`). The
  induction over the finite set of events it takes is `SetInduction`, from the
  well-founded order of the library rather than from its induction theorems.
  `SoundIsNotGivenUp` is the safety half of `SoundIsProcessed`: what is stored
  unprocessed, and refused for ever, is no event that could have been handled.
* **`NoticesProofs`**: `RecordedAreStored` from `PendIsStored` (a threshold that waits
  for the next commit has its notification) for any number of clients;
  `SentWereMailed` from `LookTold`, `NoteTold` and `MarkedTold`: whoever is about to
  write `sent` has mailed, also when two digests overlap. `RepeatsBounded` is a
  budget: `Spent(t)` counts the mails about a topic, the rows each digest can still mail
  (`Debt`, once for each worker, because each may have loaded a row before another
  marks it) and what a message or a threshold that is still open will store; no step
  raises it but a fault, by no more than the workers (`WithinBudget`). It needs that a digest
  comes to each client once (`DigShape`) and that the daily look tells a threshold
  only above the one recorded in its month (`LookShape`).
* **`AccountsProofs`**: `AccountsStayWhole` and `OnlyDeletedIsErased` from `Structure`
  (a row belongs to one account, and the chains of cascades end within the four
  steps of `Gone`, so that what is left refers to nothing that went) and `Status`.
  `OnlyRepliesRefuse`: of all the foreign keys it is those of `responses` and
  `regenerations` to a user that can refuse a purge, and they do whenever such a row names a
  user that is due; `PurgeLeavesNothing`: a purge that is not refused leaves nothing that is
  due. Together they are what `ErasedUnlessReferred` needs besides fairness.

`IntakeAssumption` and `NoticesAssumption` ask that the workers be finitely many, and the
latter that there be one for digests: processes of a deployment are.

Only model-checked is what the prover does not treat, liveness: `ScheduledIsDecided`,
`DetectedIsFiltered`, `WithdrawalNoticed`, `PostedIsStored`, `StoredIsEnqueued`,
`SoundIsProcessed`, `DeferredIsTold`, `ExhaustedIsNoted` and `ErasedUnlessReferred`.

## Not modelled

* Wording: prompts, templates, e-mails, review names, logs, HTTP bodies, the formats
  of the clients of Google, Anthropic, Resend and Telegram; ownership and role checks
  beyond `Owner`; passwords, verification links, cryptography of tokens and of
  webhooks.
* Retry and circuit breaker (`utils/`): counters of one process around the calls of
  the model client; a call that fails in the end is a task that fails.
* The engine shared by the event loops of successive `asyncio.run` calls in a
  worker: its failures appear as tasks that raise.
* Who validates a draft (`_route`), which no guard of publication looks at.
* Reads: administration lists, metrics, export, preview. They change no state.
* A failure to store a dead letter (`dlq_service.py:74`), which is only logged, and
  their replay, which never sends anything.
* Start-up, migrations as such, deployment.

## What is left

1. **Pipeline**: `Drafting` composed with `Publication` through `Answer` and
   `CommitRegenerate`: a regeneration yields no second draft
   (`generation_service.py:101`), an exhausted quota puts an answered review back to
   `processing` (`:61`).
2. An instance of `Publication` at the boundary of `TimingAssumption`: an undo period of
   sixty minutes (`config.py:59`), the least delay of a range.
3. An abstract specification of a subscription that `Billing` implements, of which
   `Serial` is the reading at every moment.
