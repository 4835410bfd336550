-------------------------------- MODULE Intake --------------------------------
(***************************************************************************)
(* From Google to a stored review, and the credential on which it depends: *)
(* services/polling_service.py with its Celery task, the consent callback  *)
(* (OAuthService.exchange_and_persist) and the task that refreshes tokens  *)
(* (tasks/oauth_tasks.py, OAuthService.refresh).                           *)
(*                                                                         *)
(* A poll is one transaction that calls Google between its insertions.  It *)
(* works with the access token and the status it loaded first.  An inserted*)
(* review is seen by nobody before the commit, but a second insertion of it*)
(* waits for that commit.                                                  *)
(*                                                                         *)
(* Time is half hours, the period of the refresh task.  A page of a        *)
(* location's reviews is taken for a location of its own.  The status      *)
(* `expiring' is never written; publication, which revokes a credential as *)
(* a poll does, is left out.                                               *)
(***************************************************************************)
EXTENDS Integers, FiniteSets

CONSTANTS
  Clients, Locations, PollWorkers,
  Reviews,       \* the reviews Google shows
  Manages,       \* the locations of each client at Google
  ReviewAt,      \* the location of each review
  NoClient,      \* the location has no row
  NoCred,        \* the client has no row in `oauth_credentials'
  Life,          \* half hours an access token lives
  Horizon,       \* half hours before its end at which it is refreshed
  Refusals,      \* how the client of Google reports a dead grant: "auth", "other"
  Forbids,       \* Google answers 403 to grants it honours
  PollRetries,   \* max_retries of poll_client_reviews
  MaxConsents,   \* bound: consents of each client
  MaxFaults      \* bound: calls or transactions that fail otherwise, workers lost

Grants == 0 .. MaxConsents
Token == [grant: Grants, age: 0 .. Life]
Row == [access: Token, refresh: Grants, status: {"active", "revoked"}]

\* A token lives sixty minutes and is refreshed when it has sixty left at most.
ASSUME IntakeAssumption ==
  /\ IsFiniteSet(PollWorkers)
  /\ Manages \in [Clients -> SUBSET Locations]
  /\ ReviewAt \in [Reviews -> Locations]
  /\ NoClient \notin Clients
  /\ Life \in Nat \ {0} /\ Horizon \in 1 .. Life
  /\ Refusals \subseteq {"auth", "other"} /\ Forbids \in BOOLEAN
  /\ PollRetries \in Nat /\ MaxConsents \in Nat /\ MaxFaults \in Nat
  /\ NoCred \notin Row \cup Grants

VARIABLES
  stored,     \* reviews.google_review_id
  sent,       \* messages of process_review_task that have been sent for a review
  cut,        \* history: reviews of a poll that ended between its commit and its sends
  place,      \* locations: the client a location's row belongs to
  cred,       \* oauth_credentials
  consents,   \* how often a client has consented; a grant is the number of its consent
  withdrawn,  \* the last grant the client has withdrawn
  pollQ,      \* messages of poll_client_reviews, with their retries
  poll,       \* poll workers
  con,        \* the callback request of each client
  due,        \* the message of refresh_expiring_tokens
  ref,        \* the refresh task
  faults

vars == <<stored, sent, cut, place, cred, consents, withdrawn, pollQ, poll, con,
          due, ref, faults>>
credentials == <<place, cred, consents, withdrawn, con>>
polling == <<stored, sent, cut, pollQ, poll>>
refreshing == <<due, ref>>

Rest == [pc |-> "rest"]
\* token: what the poll loaded; left: the locations to ask; page: reviews listed and
\* not looked up; absent: the one that was not found; found: those inserted.
PollJob == [pc: {"polling", "refused", "sending"}, c: Clients, tries: 0 .. PollRetries,
            token: Token, left: SUBSET Locations, page: SUBSET Reviews,
            absent: SUBSET Reviews, found: SUBSET Reviews]
ConJob == [pc: {"loaded", "flushed"}, status: {"none", "active", "revoked"}]
\* todo: the credentials the query gave, with the refresh token they had then.
RefJob == [pc: {"loop", "granted", "refused"}, at: Clients,
           todo: [Clients -> Grants \cup {NoCred}]]

TypeOK ==
  /\ stored \subseteq Reviews /\ cut \subseteq Reviews
  /\ sent \in [Reviews -> Nat]
  /\ place \in [Locations -> Clients \cup {NoClient}]
  /\ cred \in [Clients -> Row \cup {NoCred}]
  /\ consents \in [Clients -> Grants] /\ withdrawn \in [Clients -> Grants]
  /\ pollQ \subseteq Clients \X (0 .. PollRetries)
  /\ poll \in [PollWorkers -> PollJob \cup {Rest}]
  /\ con \in [Clients -> ConJob \cup {Rest}]
  /\ due \in BOOLEAN
  /\ ref \in RefJob \cup {Rest}
  /\ faults \in 0 .. MaxFaults

Init ==
  /\ stored = {} /\ cut = {}
  /\ sent = [r \in Reviews |-> 0]
  /\ place = [l \in Locations |-> NoClient]
  /\ cred = [c \in Clients |-> NoCred]
  /\ consents = [c \in Clients |-> 0] /\ withdrawn = [c \in Clients |-> 0]
  /\ pollQ = {}
  /\ poll = [w \in PollWorkers |-> Rest]
  /\ con = [c \in Clients |-> Rest]
  /\ due = FALSE /\ ref = Rest
  /\ faults = 0

\* Only a column whose value differs from the loaded one is written.
Column(loaded, new, current) == IF loaded = new THEN current ELSE new

Active(c) == cred[c] # NoCred /\ cred[c].status = "active"
Accepts(c, token) == token.grant > withdrawn[c] /\ token.age < Life

\* 401 for a token that is not honoured, 403 also for one that is: GoogleAuthError.
Refuses(c, token) == Accepts(c, token) => Forbids

\* The callback has updated the row and not committed: other writers wait.
Locked(c) == con[c] # Rest /\ con[c].pc = "flushed"

Fault == faults < MaxFaults /\ faults' = faults + 1

-----------------------------------------------------------------------------
(* poll_client_reviews.                                                    *)

\* The beat task enqueues a poll of every client.
Dispatch ==
  /\ pollQ' = pollQ \cup (Clients \X {0})
  /\ UNCHANGED <<stored, sent, cut, poll, credentials, refreshing, faults>>

\* Without an active credential the task ends at once.
PollTake(w, c) ==
  /\ poll[w] = Rest
  /\ \E t \in 0 .. PollRetries :
       /\ <<c, t>> \in pollQ
       /\ pollQ' = pollQ \ {<<c, t>>}
       /\ poll' = IF Active(c)
                  THEN [poll EXCEPT ![w] =
                         [pc |-> "polling", c |-> c, tries |-> t, token |-> cred[c].access,
                          left |-> {l \in Locations : place[l] = c},
                          page |-> {}, absent |-> {}, found |-> {}]]
                  ELSE poll
  /\ UNCHANGED <<stored, sent, cut, credentials, refreshing, faults>>

Reading(w) == poll[w] # Rest /\ poll[w].pc = "polling" /\ poll[w].absent = {}

\* Bug: the first location is the only one that is asked.
PollListFirst(w) ==
  /\ Reading(w) /\ poll[w].page = {}
  /\ \E l \in poll[w].left :
       \/ /\ Accepts(poll[w].c, poll[w].token)
          /\ poll' = [poll EXCEPT ![w].left = {},
                                  ![w].page = {r \in Reviews : ReviewAt[r] = l}]
       \/ /\ Refuses(poll[w].c, poll[w].token)
          /\ poll' = [poll EXCEPT ![w].pc = "refused"]
  /\ UNCHANGED <<stored, sent, cut, pollQ, credentials, refreshing, faults>>

\* list_reviews for one more location.
PollList(w) ==
  /\ Reading(w) /\ poll[w].page = {}
  /\ \E l \in poll[w].left :
       \/ /\ Accepts(poll[w].c, poll[w].token)
          /\ poll' = [poll EXCEPT ![w].left = @ \ {l},
                                  ![w].page = {r \in Reviews : ReviewAt[r] = l}]
       \/ /\ Refuses(poll[w].c, poll[w].token)
          /\ poll' = [poll EXCEPT ![w].pc = "refused"]
  /\ UNCHANGED <<stored, sent, cut, pollQ, credentials, refreshing, faults>>

\* get_by_google_id: what is committed or inserted by this poll is there.
PollLookup(w) ==
  /\ Reading(w)
  /\ \E r \in poll[w].page :
       poll' = [poll EXCEPT ![w].page = @ \ {r},
                            ![w].absent = {r} \ (stored \cup poll[w].found)]
  /\ UNCHANGED <<stored, sent, cut, pollQ, credentials, refreshing, faults>>

\* Another poll has inserted the review and not committed.
Waits(w, r) == \E v \in PollWorkers \ {w} :
  poll[v] # Rest /\ poll[v].pc # "sending" /\ r \in poll[v].found

\* Bug: google_review_id is not unique.
PollInsertAgain(w) ==
  /\ poll[w] # Rest
  /\ \E r \in poll[w].absent :
       poll' = [poll EXCEPT ![w].absent = {}, ![w].found = @ \cup {r}]
  /\ UNCHANGED <<stored, sent, cut, pollQ, credentials, refreshing, faults>>

PollInsert(w) ==
  /\ poll[w] # Rest
  /\ \E r \in poll[w].absent :
       /\ ~Waits(w, r) /\ r \notin stored
       /\ poll' = [poll EXCEPT ![w].absent = {}, ![w].found = @ \cup {r}]
  /\ UNCHANGED <<stored, sent, cut, pollQ, credentials, refreshing, faults>>

\* What a task that raises leaves in the queue: a retry, unless it was the last.
Retried(w) == IF poll[w].tries < PollRetries
              THEN pollQ \cup {<<poll[w].c, poll[w].tries + 1>>}
              ELSE pollQ

\* The unique constraint: all that this poll inserted is rolled back.
PollDuplicate(w) ==
  /\ poll[w] # Rest /\ poll[w].absent \cap stored # {}
  /\ poll' = [poll EXCEPT ![w] = Rest] /\ pollQ' = Retried(w)
  /\ UNCHANGED <<stored, sent, cut, credentials, refreshing, faults>>

\* v has looked up a review that w has inserted.
WaitsFor(v, w) ==
  /\ v # w /\ poll[v] # Rest /\ poll[w] # Rest /\ poll[w].pc # "sending"
  /\ poll[v].absent \cap poll[w].found # {}

OnCycle(w) ==
  \E S \in SUBSET PollWorkers :
    /\ w \in S
    /\ \A x \in S : (\E y \in S : WaitsFor(x, y)) /\ (\E y \in S : WaitsFor(y, x))

\* Polls wait for one another's insertions: the database fails one, and one that waited
\* for it is given what it waited for.
PollDeadlock(w, v) ==
  /\ WaitsFor(v, w) /\ OnCycle(w)
  /\ poll' = [poll EXCEPT ![w] = Rest,
                          ![v].absent = {}, ![v].found = @ \cup poll[v].absent]
  /\ pollQ' = Retried(w)
  /\ UNCHANGED <<stored, sent, cut, credentials, refreshing, faults>>

PollCommit(w) ==
  /\ Reading(w) /\ poll[w].page = {} /\ poll[w].left = {}
  /\ stored' = stored \cup poll[w].found
  /\ poll' = [poll EXCEPT ![w].pc = "sending"]
  /\ UNCHANGED <<sent, cut, pollQ, credentials, refreshing, faults>>

\* Bug: the status is left to the retry.
PollRevokeForgets(w) ==
  /\ poll[w] # Rest /\ poll[w].pc = "refused" /\ ~Locked(poll[w].c)
  /\ stored' = stored \cup poll[w].found /\ cut' = cut \cup poll[w].found
  /\ poll' = [poll EXCEPT ![w] = Rest]
  /\ UNCHANGED <<sent, pollQ, credentials, refreshing, faults>>

\* Bug: a status that has no column value of its own here.
PollRevokeExpires(w) ==
  /\ poll[w] # Rest /\ poll[w].pc = "refused" /\ ~Locked(poll[w].c)
  /\ cred' = [cred EXCEPT ![poll[w].c].status = "expired"]
  /\ stored' = stored \cup poll[w].found /\ cut' = cut \cup poll[w].found
  /\ poll' = [poll EXCEPT ![w] = Rest]
  /\ UNCHANGED <<sent, pollQ, place, consents, withdrawn, con, refreshing, faults>>

\* GoogleAuthError: the commit keeps what was inserted, the task returns 0 and sends
\* nothing.
PollRevoke(w) ==
  /\ poll[w] # Rest /\ poll[w].pc = "refused" /\ ~Locked(poll[w].c)
  /\ cred' = [cred EXCEPT ![poll[w].c].status = "revoked"]
  /\ stored' = stored \cup poll[w].found /\ cut' = cut \cup poll[w].found
  /\ poll' = [poll EXCEPT ![w] = Rest]
  /\ UNCHANGED <<sent, pollQ, place, consents, withdrawn, con, refreshing, faults>>

\* Bug: one message for the whole poll.
PollSendOne(w) ==
  /\ poll[w] # Rest /\ poll[w].pc = "sending"
  /\ \E r \in poll[w].found :
       /\ sent' = [sent EXCEPT ![r] = @ + 1]
       /\ poll' = [poll EXCEPT ![w].found = {}]
  /\ UNCHANGED <<stored, cut, pollQ, credentials, refreshing, faults>>

PollSend(w) ==
  /\ poll[w] # Rest /\ poll[w].pc = "sending"
  /\ \E r \in poll[w].found :
       /\ sent' = [sent EXCEPT ![r] = @ + 1]
       /\ poll' = [poll EXCEPT ![w].found = @ \ {r}]
  /\ UNCHANGED <<stored, cut, pollQ, credentials, refreshing, faults>>

PollEnd(w) ==
  /\ poll[w] # Rest /\ poll[w].pc = "sending" /\ poll[w].found = {}
  /\ poll' = [poll EXCEPT ![w] = Rest]
  /\ UNCHANGED <<stored, sent, cut, pollQ, credentials, refreshing, faults>>

PollStep(w) ==
  \/ PollList(w) \/ PollLookup(w) \/ PollInsert(w) \/ PollDuplicate(w)
  \/ (\E v \in PollWorkers : PollDeadlock(w, v))
  \/ PollCommit(w) \/ PollRevoke(w) \/ PollSend(w) \/ PollEnd(w)

\* What a poll that ends here has committed and will not send.
CutShort(w) == cut' = cut \cup (IF poll[w].pc = "sending" THEN poll[w].found ELSE {})

\* Google, the database or the broker fails.
PollFail(w) ==
  /\ poll[w] # Rest
  /\ Fault
  /\ poll' = [poll EXCEPT ![w] = Rest] /\ pollQ' = Retried(w)
  /\ CutShort(w)
  /\ UNCHANGED <<stored, sent, credentials, refreshing>>

\* The worker is lost and the message delivered again.
PollCrash(w) ==
  /\ poll[w] # Rest
  /\ Fault
  /\ poll' = [poll EXCEPT ![w] = Rest]
  /\ pollQ' = pollQ \cup {<<poll[w].c, poll[w].tries>>}
  /\ CutShort(w)
  /\ UNCHANGED <<stored, sent, credentials, refreshing>>

-----------------------------------------------------------------------------
(* The consent callback.                                                   *)

\* Google exchanges the code for a new grant; the row is loaded.
Consent(c) ==
  /\ con[c] = Rest /\ consents[c] < MaxConsents
  /\ consents' = [consents EXCEPT ![c] = @ + 1]
  /\ con' = [con EXCEPT ![c] = [pc |-> "loaded",
               status |-> IF cred[c] = NoCred THEN "none" ELSE cred[c].status]]
  /\ UNCHANGED <<place, cred, withdrawn, polling, refreshing, faults>>

\* The flush locks the row until the commit, across list_locations.
ConsentFlush(c) ==
  /\ con[c] # Rest /\ con[c].pc = "loaded"
  /\ con' = [con EXCEPT ![c].pc = "flushed"]
  /\ UNCHANGED <<place, cred, consents, withdrawn, polling, refreshing, faults>>

\* The locations are stored with it; google_location_id is unique over all clients.
ConsentCommit(c) ==
  /\ Locked(c)
  /\ consents[c] > withdrawn[c]
  /\ \A l \in Manages[c] : place[l] \in {c, NoClient}
  /\ place' = [l \in Locations |-> IF l \in Manages[c] THEN c ELSE place[l]]
  /\ cred' = [cred EXCEPT ![c] =
               [access |-> [grant |-> consents[c], age |-> 0], refresh |-> consents[c],
                status |-> IF con[c].status = "none" THEN "active"
                           ELSE Column(con[c].status, "active", cred[c].status)]]
  /\ con' = [con EXCEPT ![c] = Rest]
  /\ UNCHANGED <<consents, withdrawn, polling, refreshing, faults>>

\* Rolled back: the grant is given and the row knows nothing of it.
ConsentFail(c) ==
  /\ con[c] # Rest
  /\ con' = [con EXCEPT ![c] = Rest]
  /\ UNCHANGED <<place, cred, consents, withdrawn, polling, refreshing, faults>>

ConsentStep(c) == ConsentFlush(c) \/ ConsentCommit(c) \/ ConsentFail(c)

\* The client withdraws, at Google, what it has consented to so far.
Withdraw(c) ==
  /\ withdrawn[c] < consents[c]
  /\ withdrawn' = [withdrawn EXCEPT ![c] = consents[c]]
  /\ UNCHANGED <<place, cred, consents, con, polling, refreshing, faults>>

-----------------------------------------------------------------------------
(* refresh_expiring_tokens.                                                *)

Expiring(c) == Active(c) /\ Life - cred[c].access.age <= Horizon

RefreshStart ==
  /\ due /\ ref = Rest
  /\ due' = FALSE
  /\ ref' = IF \E c \in Clients : Expiring(c)
            THEN [pc |-> "loop", at |-> CHOOSE c \in Clients : TRUE,
                  todo |-> [c \in Clients |-> IF Expiring(c) THEN cred[c].refresh ELSE NoCred]]
            ELSE Rest
  /\ UNCHANGED <<credentials, polling, faults>>

\* A dead grant is GoogleAuthError for 401 and 403, and for 400 - what the token
\* endpoint answers - an error that ends the loop.  403 can also meet a live one.
RefreshCall(c) ==
  /\ ref # Rest /\ ref.pc = "loop" /\ ref.todo[c] # NoCred
  /\ IF ref.todo[c] > withdrawn[c]
     THEN \/ ref' = [ref EXCEPT !.pc = "granted", !.at = c]
          \/ Forbids /\ ref' = [ref EXCEPT !.pc = "refused", !.at = c]
     ELSE \/ "auth" \in Refusals /\ ref' = [ref EXCEPT !.pc = "refused", !.at = c]
          \/ "other" \in Refusals /\ ref' = Rest
  /\ UNCHANGED <<due, credentials, polling, faults>>

RefreshNext == ref' = IF \E c \in Clients \ {ref.at} : ref.todo[c] # NoCred
                      THEN [ref EXCEPT !.pc = "loop", !.todo[ref.at] = NoCred]
                      ELSE Rest

\* Bug: every column is written.
RefreshGrantedAll ==
  /\ ref # Rest /\ ref.pc = "granted" /\ ~Locked(ref.at)
  /\ cred' = [cred EXCEPT ![ref.at] =
       [access |-> [grant |-> ref.todo[ref.at], age |-> 0],
        refresh |-> ref.todo[ref.at], status |-> "active"]]
  /\ RefreshNext
  /\ UNCHANGED <<due, place, consents, withdrawn, con, polling, faults>>

\* The access token alone changes: refresh token and status have their loaded values.
RefreshGranted ==
  /\ ref # Rest /\ ref.pc = "granted" /\ ~Locked(ref.at)
  /\ cred' = [cred EXCEPT ![ref.at].access = [grant |-> ref.todo[ref.at], age |-> 0]]
  /\ RefreshNext
  /\ UNCHANGED <<due, place, consents, withdrawn, con, polling, faults>>

RefreshRefused ==
  /\ ref # Rest /\ ref.pc = "refused" /\ ~Locked(ref.at)
  /\ cred' = [cred EXCEPT ![ref.at].status = "revoked"]
  /\ RefreshNext
  /\ UNCHANGED <<due, place, consents, withdrawn, con, polling, faults>>

RefreshStep ==
  RefreshStart \/ (\E c \in Clients : RefreshCall(c)) \/ RefreshGranted \/ RefreshRefused

\* A call that fails for another reason ends the loop too; the task has no retry.
RefreshFail ==
  /\ ref # Rest /\ Fault
  /\ ref' = Rest
  /\ UNCHANGED <<due, credentials, polling>>

RefreshCrash ==
  /\ ref # Rest /\ Fault
  /\ ref' = Rest /\ due' = TRUE
  /\ UNCHANGED <<credentials, polling>>

-----------------------------------------------------------------------------
(* Time.                                                                   *)

\* Half an hour, longer than any request or task takes.
Tick ==
  /\ ~due /\ ref = Rest
  /\ \A w \in PollWorkers : poll[w] = Rest
  /\ \A c \in Clients : con[c] = Rest
  /\ due' = TRUE
  /\ cred' = [c \in Clients |->
       IF cred[c] = NoCred \/ cred[c].access.age = Life THEN cred[c]
       ELSE [cred[c] EXCEPT !.access.age = @ + 1]]
  /\ UNCHANGED <<ref, place, consents, withdrawn, con, polling, faults>>

Next ==
  \/ Dispatch \/ RefreshStep \/ RefreshFail \/ RefreshCrash \/ Tick
  \/ \E w \in PollWorkers :
       (\E c \in Clients : PollTake(w, c)) \/ PollStep(w) \/ PollFail(w) \/ PollCrash(w)
  \/ \E c \in Clients : Consent(c) \/ ConsentStep(c) \/ Withdraw(c)

Spec == Init /\ [][Next]_vars

\* Beat runs, workers and requests end, no poll is overtaken for ever.
Fairness ==
  /\ WF_vars(Dispatch)
  /\ \A w \in PollWorkers : WF_vars(PollStep(w))
  /\ \A c \in Clients : WF_vars(ConsentStep(c))
  /\ \A c \in Clients : SF_vars(\E w \in PollWorkers : PollTake(w, c))

FairSpec == Spec /\ Fairness

-----------------------------------------------------------------------------
(* Properties.                                                             *)

\* However polls overlap, are retried or are delivered again, a review is enqueued
\* at most once, and only after it is stored.
EnqueuedOnce == \A r \in Reviews : sent[r] <= 1 /\ (sent[r] > 0 => r \in stored)

\* A credential that is marked revoked stays so until its client consents again: a
\* refresh that overlaps the revocation does not undo it.
OnlyConsentRestores ==
  [][\A c \in Clients :
       cred[c] # NoCred /\ cred[c].status = "revoked" /\ cred'[c].status = "active"
         => Locked(c)]_vars

\* A client that withdraws its consent at Google is seen to have done so, also when
\* the refresh task only ever fails on it.
WithdrawalNoticed ==
  \A c \in Clients :
    Active(c) /\ cred[c].refresh <= withdrawn[c]
      ~> ~(Active(c) /\ cred[c].refresh <= withdrawn[c])

\* The reviews of a client whose credential works are all stored in the end, whatever
\* polls collide over them.
PostedIsStored ==
  \A c \in Clients :
    Active(c) ~> ~Active(c) \/ \A r \in Reviews : place[ReviewAt[r]] = c => r \in stored

\* A stored review is enqueued, but for those of a poll that ended between its
\* commit and its sends: refused by Google at a later location, lost, or failed.
StoredIsEnqueued == []<>(\A r \in stored : sent[r] > 0 \/ r \in cut)

-----------------------------------------------------------------------------
(* What the documents say and the code does not do.                        *)

\* Only a credential whose grant Google refuses is marked revoked.
HonouredStaysActive ==
  \A c \in Clients :
    cred[c] # NoCred /\ cred[c].status = "revoked" => cred[c].refresh <= withdrawn[c]
=============================================================================
