------------------------------ MODULE Drafting ------------------------------
(***************************************************************************)
(* From a detected review to a draft, for one client: process_review_task  *)
(* and services/filtering_service.py; generate_response,                   *)
(* services/generation_service.py, services/quota_service.py and           *)
(* repositories/quota_repository.py; the regenerate endpoint.              *)
(*                                                                         *)
(* A task is one transaction.  What it writes before its commit is seen by *)
(* nobody, but the row of `quota_usage' it updated stays locked until the  *)
(* commit, across the call of the model.  Celery acknowledges a message    *)
(* after the task: a worker lost in between has it delivered again.        *)
(*                                                                         *)
(* The text of a review is three facts: whether it has any, whether its    *)
(* language is one of the two supported, whether the blocklist matches it. *)
(* Whose validation a draft waits for is left to Publication.              *)
(***************************************************************************)
EXTENDS Integers, FiniteSets

CONSTANTS
  Reviews,          \* reviews polling has stored and enqueued
  FilterWorkers,    \* processes of the polling queue
  GenWorkers,       \* processes of the generation queue
  Contents,         \* what a review can say
  Settings,         \* what the client's settings can be
  Quotas,           \* monthly_response_quota of the tiers
  Driven,           \* something outside app/ generates reviews in `processing'
  Answering,        \* bound: drafts are validated and published
  FilterRetries,    \* max_retries of process_review_task
  GenRetries,       \* max_retries of generate_response
  NoDraft,          \* the review has no row in `responses'
  MaxMonth,         \* bound: months
  MaxCrashes,       \* bound: workers lost
  MaxRegenerations  \* bound: calls of the regenerate endpoint

Content == [text: BOOLEAN, supported: BOOLEAN, flagged: BOOLEAN, rating: 1 .. 5]
Setting == [policy: {"ignore", "reply_4_5_only", "reply_all"}, blocking: BOOLEAN,
            override: {"none", "supported", "unsupported"}]

\* charged: the month whose count the draft is in, 0 for a template; ai_status: 1 when
\* the model answered, 0 when it refused or its call failed, -1 (NULL) for a template.
Draft == [status: {"pending", "published", "superseded"}, charged: 0 .. MaxMonth,
          ai_status: -1 .. 1]

\* Every tier has a quota (TIER_QUOTAS: 10, 50, 1000000).
ASSUME DraftingAssumption ==
  /\ Contents \subseteq Content /\ Settings \subseteq Setting
  /\ Quotas \subseteq Nat \ {0}
  /\ IsFiniteSet(GenWorkers) /\ IsFiniteSet(Reviews)
  /\ Driven \in BOOLEAN /\ Answering \in BOOLEAN
  /\ NoDraft \notin Draft
  /\ FilterRetries \in Nat /\ GenRetries \in Nat
  /\ MaxMonth \in Nat \ {0} /\ MaxCrashes \in Nat /\ MaxRegenerations \in Nat

VARIABLES
  content,    \* the text and rating of each review
  review,     \* reviews.status
  draft,      \* the one row of `responses' a review can have
  settings,   \* the client's settings
  quota,      \* the subscription's monthly_response_quota
  month,      \* current_year_month()
  rows,       \* months that have a row in `quota_usage'
  usage,      \* quota_usage.count, as committed
  ceiling,    \* history: the greatest quota in force in each month
  filterQ,    \* messages of process_review_task, with their retries
  genQ,       \* messages of generate_response, with their retries
  dead,       \* reviews whose process_review_task is dead-lettered
  asked,      \* regenerations committed and not enqueued yet
  flt,        \* filter workers
  gen,        \* generation workers
  crashes, regenerations

vars == <<content, review, draft, settings, quota, month, rows, usage, ceiling, filterQ,
          genQ, dead, asked, flt, gen, crashes, regenerations>>
account == <<quota, month, rows, usage, ceiling>>
environment == <<content, settings, regenerations>>

Months == 1 .. MaxMonth

ReviewStatuses == {"detected", "blocked_regex", "requires_human_validation",
                   "processing", "awaiting_response", "completed"}

Rest == [pc |-> "rest"]
FilterJob == [pc: {"loaded"}, r: Reviews, tries: 0 .. FilterRetries,
              settings: Settings]
\* seen, quota: what the task has loaded; holds: the months whose row it has locked;
\* at: the month it counts in.
GenJob == [pc: {"loaded", "checked", "counted"}, r: Reviews,
           tries: 0 .. GenRetries, seen: ReviewStatuses, quota: Quotas,
           holds: SUBSET Months, at: 0 .. MaxMonth]

TypeOK ==
  /\ content \in [Reviews -> Contents]
  /\ review \in [Reviews -> ReviewStatuses]
  /\ draft \in [Reviews -> Draft \cup {NoDraft}]
  /\ settings \in Settings
  /\ quota \in Quotas
  /\ month \in Months
  /\ rows \subseteq Months
  /\ usage \in [Months -> Nat]
  /\ ceiling \in [Months -> Nat]
  /\ filterQ \subseteq Reviews \X (0 .. FilterRetries)
  /\ genQ \subseteq Reviews \X (0 .. GenRetries)
  /\ dead \subseteq Reviews
  /\ asked \subseteq Reviews
  /\ flt \in [FilterWorkers -> FilterJob \cup {Rest}]
  /\ gen \in [GenWorkers -> GenJob \cup {Rest}]
  /\ crashes \in 0 .. MaxCrashes
  /\ regenerations \in 0 .. MaxRegenerations

Init ==
  /\ content \in [Reviews -> Contents]
  /\ review = [r \in Reviews |-> "detected"]
  /\ draft = [r \in Reviews |-> NoDraft]
  /\ settings \in Settings
  /\ quota \in Quotas
  /\ month = 1
  /\ rows = {}
  /\ usage = [m \in Months |-> 0]
  /\ ceiling = [m \in Months |-> IF m = 1 THEN quota ELSE 0]
  /\ filterQ = Reviews \X {0}
  /\ genQ = {}
  /\ dead = {}
  /\ asked = {}
  /\ flt = [w \in FilterWorkers |-> Rest]
  /\ gen = [w \in GenWorkers |-> Rest]
  /\ crashes = 0
  /\ regenerations = 0

\* Only a column whose value differs from the loaded one is written.
Column(loaded, new, current) == IF loaded = new THEN current ELSE new

-----------------------------------------------------------------------------
(* process_review_task.                                                    *)

Supported(c, s) ==
  IF s.override = "none" THEN c.supported ELSE s.override = "supported"

\* Bug: three stars are left to the model.
DecideThreeStars(c, s) ==
  CASE ~c.text -> "completed"
    [] c.text /\ Supported(c, s) /\ c.rating >= 3 -> "processing"
    [] OTHER -> "requires_human_validation"

\* Bug: the branch of the model forgets its status.
DecideUnfinished(c, s) ==
  IF c.text /\ ~(s.blocking /\ c.flagged) /\ Supported(c, s) /\ c.rating > 3
  THEN "filtering"
  ELSE "requires_human_validation"

\* FilteringService.decide, as the status the review is given.
Decide(c, s) ==
  CASE ~c.text /\ (s.policy = "ignore" \/ (s.policy = "reply_4_5_only" /\ c.rating < 4)) ->
         "completed"
    [] ~c.text /\ (s.policy = "reply_all" \/ (s.policy = "reply_4_5_only" /\ c.rating >= 4)) ->
         "awaiting_response"
    [] c.text /\ s.blocking /\ c.flagged -> "blocked_regex"
    [] c.text /\ ~(s.blocking /\ c.flagged) /\ Supported(c, s) /\ c.rating > 3 -> "processing"
    [] OTHER -> "requires_human_validation"

FilterTake(w, r) ==
  /\ flt[w] = Rest
  /\ \E t \in 0 .. FilterRetries :
       /\ <<r, t>> \in filterQ
       /\ filterQ' = filterQ \ {<<r, t>>}
       /\ flt' = [flt EXCEPT ![w] = [pc |-> "loaded", r |-> r, tries |-> t,
                                     settings |-> settings]]
  /\ UNCHANGED <<account, environment, crashes, review, draft, genQ, dead, asked, gen>>

\* A worker is lost: before its commit, or after it and before the message is
\* acknowledged.
Lost == crashes < MaxCrashes /\ crashes' = crashes + 1

FilterEnd(w) ==
  /\ flt' = [flt EXCEPT ![w] = Rest]
  /\ \/ UNCHANGED <<filterQ, crashes>>
     \/ Lost /\ filterQ' = filterQ \cup {<<flt[w].r, flt[w].tries>>}

Template == [status |-> "pending", charged |-> 0, ai_status |-> -1]

\* Bug: a template that exists already is skipped instead of refused.
FilterCommitSkips(w) ==
  /\ flt[w] # Rest
  /\ LET r == flt[w].r
         decision == Decide(content[r], flt[w].settings)
     IN  /\ review' = [review EXCEPT ![r] = decision]
         /\ draft' = IF decision = "awaiting_response" /\ draft[r] = NoDraft
                     THEN [draft EXCEPT ![r] = Template]
                     ELSE draft
  /\ FilterEnd(w)
  /\ UNCHANGED <<account, environment, genQ, dead, asked, gen>>

\* The commit.  No status is asked of the review; a template is version 1 of its
\* response, which the unique constraint refuses when there is one.
FilterCommit(w) ==
  /\ flt[w] # Rest
  /\ LET r == flt[w].r
         decision == Decide(content[r], flt[w].settings)
     IN  /\ decision = "awaiting_response" => draft[r] = NoDraft
         /\ review' = [review EXCEPT ![r] = decision]
         /\ draft' = IF decision = "awaiting_response"
                     THEN [draft EXCEPT ![r] = Template]
                     ELSE draft
  /\ FilterEnd(w)
  /\ UNCHANGED <<account, environment, genQ, dead, asked, gen>>

\* The database refuses: rolled back, retried, dead-lettered in the end.
FilterFail(w) ==
  /\ flt[w] # Rest
  /\ flt' = [flt EXCEPT ![w] = Rest]
  /\ IF flt[w].tries < FilterRetries
     THEN filterQ' = filterQ \cup {<<flt[w].r, flt[w].tries + 1>>} /\ UNCHANGED dead
     ELSE dead' = dead \cup {flt[w].r} /\ UNCHANGED filterQ
  /\ UNCHANGED <<account, environment, crashes, review, draft, genQ, asked, gen>>

FilterStep(w) == FilterCommit(w) \/ FilterFail(w)

\* Bug: messages are acknowledged before the task (no task_acks_late).
FilterCrashAcked(w) ==
  /\ flt[w] # Rest
  /\ Lost
  /\ flt' = [flt EXCEPT ![w] = Rest]
  /\ UNCHANGED <<account, environment, review, draft, filterQ, genQ, dead, asked, gen>>

FilterCrash(w) ==
  /\ flt[w] # Rest
  /\ Lost
  /\ filterQ' = filterQ \cup {<<flt[w].r, flt[w].tries>>}
  /\ flt' = [flt EXCEPT ![w] = Rest]
  /\ UNCHANGED <<account, environment, review, draft, genQ, dead, asked, gen>>

-----------------------------------------------------------------------------
(* generate_response.                                                      *)

GenTake(w, r) ==
  /\ gen[w] = Rest
  /\ \E t \in 0 .. GenRetries :
       /\ <<r, t>> \in genQ
       /\ genQ' = genQ \ {<<r, t>>}
       /\ gen' = [gen EXCEPT ![w] = [pc |-> "loaded", r |-> r, tries |-> t,
                                     seen |-> review[r], quota |-> quota,
                                     holds |-> {}, at |-> 0]]
  /\ UNCHANGED <<account, environment, crashes, review, draft, filterQ, dead, asked, flt>>

\* Another transaction has inserted or updated the row of this month.
Locked(w) == \E v \in GenWorkers \ {w} : gen[v] # Rest /\ month \in gen[v].holds

\* Bug: the quota itself is still free.
GenCheckOffByOne(w) ==
  /\ gen[w].pc = "loaded"
  /\ usage[month] <= gen[w].quota
  /\ month \notin rows => ~Locked(w)
  /\ gen' = [gen EXCEPT ![w].pc = "checked",
                        ![w].holds = IF month \in rows THEN {} ELSE {month}]
  /\ UNCHANGED <<account, environment, crashes, review, draft, filterQ, genQ, dead, asked, flt>>

\* The first half of consume_or_raise: the quota as loaded, the count as committed.
\* The first use of a month inserts its row, which locks it.
GenCheck(w) ==
  /\ gen[w].pc = "loaded"
  /\ usage[month] < gen[w].quota
  /\ month \notin rows => ~Locked(w)
  /\ gen' = [gen EXCEPT ![w].pc = "checked",
                        ![w].holds = IF month \in rows THEN {} ELSE {month}]
  /\ UNCHANGED <<account, environment, crashes, review, draft, filterQ, genQ, dead, asked, flt>>

GenEnd(w) ==
  /\ gen' = [gen EXCEPT ![w] = Rest]
  /\ \/ UNCHANGED <<genQ, crashes>>
     \/ Lost /\ genQ' = genQ \cup {<<gen[w].r, gen[w].tries>>}

\* QuotaExhaustedError: the task ends without an error.
GenExhausted(w) ==
  /\ gen[w].pc = "loaded"
  /\ month \in rows /\ usage[month] >= gen[w].quota
  /\ review' = [review EXCEPT ![gen[w].r] = Column(gen[w].seen, "processing", @)]
  /\ GenEnd(w)
  /\ UNCHANGED <<account, environment, draft, filterQ, dead, asked, flt>>

\* The second half: UPDATE ... SET count = count + 1 in the month it now is.  It
\* waits for the lock of the row and keeps it.
GenIncrement(w) ==
  /\ gen[w].pc = "checked"
  /\ ~Locked(w)
  /\ gen' = [gen EXCEPT ![w].pc = "counted", ![w].at = month,
                        ![w].holds = @ \cup {month}]
  /\ UNCHANGED <<account, environment, crashes, review, draft, filterQ, genQ, dead, asked, flt>>

\* What the transaction has done to `quota_usage' becomes visible.
Charge(w) ==
  /\ usage' = [usage EXCEPT ![gen[w].at] = @ + 1]
  /\ rows' = rows \cup gen[w].holds
  /\ UNCHANGED <<quota, month, ceiling>>

StoreDraft(w) ==
  /\ \E answer \in 0 .. 1 :
       draft' = [draft EXCEPT ![gen[w].r] = [status |-> "pending", charged |-> gen[w].at,
                                             ai_status |-> answer]]
  /\ review' = [review EXCEPT ![gen[w].r] = Column(gen[w].seen, "awaiting_response", @)]

\* Bug: the count is committed even when the draft is refused.
GenCommitCharges(w) ==
  /\ gen[w].pc = "counted"
  /\ IF draft[gen[w].r] = NoDraft THEN StoreDraft(w) ELSE UNCHANGED <<draft, review>>
  /\ Charge(w)
  /\ GenEnd(w)
  /\ UNCHANGED <<environment, filterQ, dead, asked, flt>>

\* The model has answered, or it has refused or its call failed: version 1 of the
\* response and one more on the count either way, unless the review has one already.
GenCommit(w) ==
  /\ gen[w].pc = "counted"
  /\ draft[gen[w].r] = NoDraft
  /\ StoreDraft(w)
  /\ Charge(w)
  /\ GenEnd(w)
  /\ UNCHANGED <<environment, filterQ, dead, asked, flt>>

\* An exception anywhere - the unique constraints of `responses' and of
\* `quota_usage' raise one: rolled back, retried, dead-lettered in the end.
GenFail(w) ==
  /\ gen[w] # Rest
  /\ gen' = [gen EXCEPT ![w] = Rest]
  /\ genQ' = IF gen[w].tries < GenRetries
             THEN genQ \cup {<<gen[w].r, gen[w].tries + 1>>}
             ELSE genQ
  /\ UNCHANGED <<account, environment, crashes, review, draft, filterQ, dead, asked, flt>>

GenStep(w) ==
  GenCheck(w) \/ GenExhausted(w) \/ GenIncrement(w) \/ GenCommit(w) \/ GenFail(w)

GenCrash(w) ==
  /\ gen[w] # Rest
  /\ Lost
  /\ genQ' = genQ \cup {<<gen[w].r, gen[w].tries>>}
  /\ gen' = [gen EXCEPT ![w] = Rest]
  /\ UNCHANGED <<account, environment, review, draft, filterQ, dead, asked, flt>>

-----------------------------------------------------------------------------
(* What asks for a generation.                                             *)

\* The endpoint commits, then enqueues; the process can be lost in between.
Regenerate(r) ==
  /\ draft[r] # NoDraft
  /\ regenerations < MaxRegenerations
  /\ regenerations' = regenerations + 1
  /\ draft' = [draft EXCEPT ![r].status = "superseded"]
  /\ asked' = asked \cup {r}
  /\ UNCHANGED <<account, content, settings, crashes, review, filterQ, genQ, dead, flt, gen>>

Enqueue(r) ==
  /\ r \in asked
  /\ asked' = asked \ {r}
  /\ \/ genQ' = genQ \cup {<<r, 0>>}
     \/ UNCHANGED genQ
  /\ UNCHANGED <<account, environment, crashes, review, draft, filterQ, dead, flt, gen>>

\* Nothing in app/ takes a review from `processing' to its generation; the load
\* simulation and the integration tests do.
Drive(r) ==
  /\ Driven
  /\ review[r] = "processing"
  /\ genQ' = genQ \cup {<<r, 0>>}
  /\ UNCHANGED <<account, environment, crashes, review, draft, filterQ, dead, asked, flt, gen>>

-----------------------------------------------------------------------------
(* The rest of the application, and time.                                  *)

\* Publication sends the draft and completes the review.
Answer(r) ==
  /\ Answering
  /\ draft[r] # NoDraft /\ draft[r].status = "pending"
  /\ draft' = [draft EXCEPT ![r].status = "published"]
  /\ review' = [review EXCEPT ![r] = "completed"]
  /\ UNCHANGED <<account, environment, crashes, filterQ, genQ, dead, asked, flt, gen>>

PatchSettings ==
  /\ settings' \in Settings \ {settings}
  /\ UNCHANGED <<account, content, crashes, regenerations, review, draft, filterQ, genQ,
                 dead, asked, flt, gen>>

Larger(a, b) == IF a >= b THEN a ELSE b

\* A Lemon Squeezy event gives the subscription another tier.
ChangeTier ==
  /\ quota' \in Quotas \ {quota}
  /\ ceiling' = [ceiling EXCEPT ![month] = Larger(@, quota')]
  /\ UNCHANGED <<month, rows, usage, environment, crashes, review, draft, filterQ, genQ,
                 dead, asked, flt, gen>>

NewMonth ==
  /\ month < MaxMonth
  /\ month' = month + 1
  /\ ceiling' = [ceiling EXCEPT ![month + 1] = quota]
  /\ UNCHANGED <<quota, rows, usage, environment, crashes, review, draft, filterQ, genQ,
                 dead, asked, flt, gen>>

Next ==
  \/ \E w \in FilterWorkers :
       \/ \E r \in Reviews : FilterTake(w, r)
       \/ FilterStep(w)
       \/ FilterCrash(w)
  \/ \E w \in GenWorkers :
       \/ \E r \in Reviews : GenTake(w, r)
       \/ GenStep(w)
       \/ GenCrash(w)
  \/ \E r \in Reviews : Regenerate(r) \/ Enqueue(r) \/ Drive(r) \/ Answer(r)
  \/ PatchSettings
  \/ ChangeTier
  \/ NewMonth

Spec == Init /\ [][Next]_vars

\* Workers run, and no message is overtaken for ever.
Fairness ==
  /\ \A w \in FilterWorkers : WF_vars(FilterStep(w))
  /\ \A w \in GenWorkers : WF_vars(GenStep(w))
  /\ \A r \in Reviews : SF_vars(\E w \in FilterWorkers : FilterTake(w, r))
  /\ \A r \in Reviews : SF_vars(\E w \in GenWorkers : GenTake(w, r))
  /\ \A r \in Reviews : WF_vars(Enqueue(r))

FairSpec == Spec /\ Fairness

-----------------------------------------------------------------------------
(* Properties.                                                             *)

\* Loading the quota, checking it and counting are three statements: generations
\* that overlap can pass the cap, but by less than the number of workers, whatever
\* the tier does meanwhile and also where a month ends between two of them.
QuotaNearlyHeld ==
  \A m \in 1 .. month : usage[m] <= ceiling[m] + Cardinality(GenWorkers) - 1

\* What a month is charged is the calls of the model whose result is stored, the
\* refused and the failed ones among them: a generation that is rolled back, retried,
\* redelivered or refused by the unique constraint costs nothing and is not charged
\* twice.  (docs/01-database.md says that a refusal is not counted.)
CountIsStoredCalls ==
  \A m \in Months :
    usage[m] = Cardinality({r \in Reviews : draft[r] # NoDraft /\ draft[r].charged = m})

\* A review with a text and three stars or fewer is never handed to the model,
\* whatever the settings become between filtering and generation.
LowRatingStaysHuman ==
  \A r \in Reviews :
    draft[r] # NoDraft /\ draft[r].charged > 0 => content[r].text /\ content[r].rating > 3

\* A review awaiting its answer has a response that was not published: no repeated
\* filtering or generation reopens a review that has been answered.  After a
\* regeneration that response is superseded, and nothing is left to validate.
AwaitingIsUnanswered ==
  \A r \in Reviews :
    review[r] = "awaiting_response" => draft[r] # NoDraft /\ draft[r].status # "published"

\* A stored review is filtered, or its message ends among the dead letters where
\* an administrator sees it.
DetectedIsFiltered ==
  \A r \in Reviews :
    review[r] = "detected" ~> (review[r] # "detected" \/ r \in dead)
=============================================================================
