---------------------------- MODULE Publication ----------------------------
(***************************************************************************)
(* Publication of validated replies: backend/app/services/                 *)
(* publication_service.py, the endpoints of api/v1/responses.py and        *)
(* api/v1/admin/deletions.py that move a response, the Celery tasks of     *)
(* tasks/publication_tasks.py and the dispatch query of                    *)
(* repositories/response_repository.py.                                    *)
(*                                                                         *)
(* Three kinds of process share the `responses' rows:                      *)
(*   - HTTP requests (Callers): each loads the row, checks it, and commits *)
(*     its change later, in one transaction, at READ COMMITTED and with no *)
(*     row lock between the two;                                           *)
(*   - the beat task, which enqueues the due responses every minute;       *)
(*   - the publication workers, which consume those messages, commit       *)
(*     `publishing', call Google, and commit the outcome.                  *)
(*                                                                         *)
(* draft, pending_validation_client and pending_validation_team are one    *)
(* status here, "pending": every guard of this code treats them alike.     *)
(* Time is counted in ticks.  Texts are opaque.                            *)
(***************************************************************************)
EXTENDS Integers, FiniteSets

CONSTANTS
  Responses,     \* the rows of `responses'
  Clients,       \* tenants: one OAuth credential each
  ClientOf,      \* the tenant a response belongs to
  Callers,       \* HTTP requests that may be in progress together
  Workers,       \* publication worker processes
  Texts,         \* contents a reply can have
  Ops,           \* the endpoints the callers use
  Grace,         \* undo_grace_period_minutes
  MinDelay,      \* the least delay compute_publish_at returns
  MaxDelay,      \* the greatest one
  Latency,       \* a request commits at most this long after its read
  Limit,         \* LIMIT of the dispatch query (100)
  NoReply,       \* Google shows no reply
  MaxTime,       \* bound: the clock
  QueueBound,    \* bound: messages in the broker for one response
  MaxCrashes,    \* bound: worker crashes
  MaxTokens      \* bound: access tokens issued to one client

Endpoints == {"approve", "cancel", "edit", "regenerate", "delete"}

\* The shape of the constants.
ASSUME ConstantsAssumption ==
  /\ ClientOf \in [Responses -> Clients]
  /\ Ops \subseteq Endpoints
  /\ NoReply \notin Texts
  /\ MinDelay \in Nat /\ MaxDelay \in Nat /\ MinDelay <= MaxDelay
  /\ Grace \in Nat /\ Latency \in Nat /\ Limit \in Nat \ {0}
  /\ MaxTime \in Nat /\ MaxCrashes \in Nat
  /\ QueueBound \in Nat \ {0} /\ MaxTokens \in Nat \ {0}

\* The undo window is at least a minute (config.py: ge=1), and the shortest
\* publication delay outlasts it by two request latencies.
ASSUME TimingAssumption == Grace >= 1 /\ MinDelay >= Grace + 2 * Latency

VARIABLES
  now,      \* the clock
  resp,     \* the rows of `responses'
  cred,     \* the rows of `oauth_credentials'
  done,     \* responses whose review is `completed'
  req,      \* HTTP requests between their read and their commit
  queue,    \* messages of the publication queue, per response
  wk,       \* publication workers
  granted,  \* the access token Google honours for a client, 0: none
  google,   \* the reply Google shows for the review of a response
  puts,     \* how many replies of a response Google accepted
  crashes

vars == <<now, resp, cred, done, req, queue, wk, granted, google, puts, crashes>>

NoTime == -1       \* NULL in a timestamp column
Times == 0 .. MaxTime
Dues == -1 .. MaxTime + MaxDelay + Grace
Tokens == 1 .. MaxTokens

Statuses == {"pending", "scheduled", "publishing", "published", "failed",
             "cancelled", "superseded"}

Row == [status: Statuses, active: BOOLEAN, text: Texts, sched: Dues,
        undo: Dues, deleted: BOOLEAN]

\* A request that has loaded its row and not committed yet: the loaded columns it
\* compares with, when it read the clock and, for a deletion, the client's token
\* and whether the reply is gone at Google.
Seen == [status: Statuses, active: BOOLEAN, text: Texts]
Idle == [op |-> "none"]
Request == [op: Ops, r: Responses, seen: Seen, at: Times, token: Tokens, gone: BOOLEAN]

Rest == [pc |-> "rest"]
Job == [pc: {"loaded", "publishing", "answered"}, r: Responses, text: Texts,
        token: 0 .. MaxTokens, answer: {"none", "ok", "auth", "error"}]

TypeOK ==
  /\ now \in Times
  /\ resp \in [Responses -> Row]
  /\ cred \in [Clients -> [status: {"active", "revoked"}, token: Tokens]]
  /\ done \subseteq Responses
  /\ req \in [Callers -> Request \cup {Idle}]
  /\ queue \in [Responses -> 0 .. QueueBound]
  /\ wk \in [Workers -> Job \cup {Rest}]
  /\ granted \in [Clients -> 0 .. MaxTokens]
  /\ google \in [Responses -> Texts \cup {NoReply}]
  /\ puts \in [Responses -> Nat]
  /\ crashes \in 0 .. MaxCrashes

\* The first version of a response waits for its validation.
Init ==
  /\ now = 0
  /\ resp \in [Responses -> {row \in Row :
        /\ row.status = "pending" /\ row.active /\ ~row.deleted
        /\ row.sched = NoTime /\ row.undo = NoTime}]
  /\ cred = [c \in Clients |-> [status |-> "active", token |-> 1]]
  /\ done = {}
  /\ req = [u \in Callers |-> Idle]
  /\ queue = [r \in Responses |-> 0]
  /\ wk = [w \in Workers |-> Rest]
  /\ granted = [c \in Clients |-> 1]
  /\ google = [r \in Responses |-> NoReply]
  /\ puts = [r \in Responses |-> 0]
  /\ crashes = 0

Least(a, b) == IF a <= b THEN a ELSE b

\* The ORM emits only the columns whose value differs from the loaded one: a
\* column set to the value it was loaded with keeps what is in the table.
Column(loaded, new, current) == IF loaded = new THEN current ELSE new

-----------------------------------------------------------------------------
(* HTTP requests: load and check ...                                       *)

\* Bug: the undo deadline is not compared.
AdmitsLateCancel(op, r) ==
  CASE op \in {"approve", "edit"} -> resp[r].status = "pending"
    [] op = "cancel" -> resp[r].status = "scheduled"
    [] OTHER -> TRUE

\* Bug: a scheduled response can still be edited.
AdmitsLateEdit(op, r) ==
  CASE op = "approve" -> resp[r].status = "pending"
    [] op = "edit" -> resp[r].status \in {"pending", "scheduled"}
    [] op = "cancel" -> resp[r].status = "scheduled" /\ resp[r].undo > now
    [] OTHER -> TRUE

Admits(op, r) ==
  CASE op \in {"approve", "edit"} -> resp[r].status = "pending"
    [] op = "cancel" -> resp[r].status = "scheduled" /\ resp[r].undo > now
    [] op = "regenerate" -> TRUE
    [] op = "delete" -> /\ resp[r].status = "published" /\ ~resp[r].deleted
                        /\ cred[ClientOf[r]].status = "active"

\* A request whose check fails answers 4xx and changes nothing.  Clock bound:
\* an approval is taken only when the clock can reach its due time.
Receive(u, op, r) ==
  /\ req[u] = Idle
  /\ Admits(op, r)
  /\ op = "approve" => now + MaxDelay <= MaxTime
  /\ req' = [req EXCEPT ![u] =
       [op |-> op, r |-> r, at |-> now,
        seen |-> [status |-> resp[r].status, active |-> resp[r].active,
                  text |-> resp[r].text],
        token |-> cred[ClientOf[r]].token, gone |-> FALSE]]
  /\ UNCHANGED <<now, resp, cred, done, queue, wk, granted, google, puts, crashes>>

(* ... and commit.                                                         *)
Commit(u, op, row) ==
  /\ req[u].op = op
  /\ resp' = [resp EXCEPT ![req[u].r] = row]
  /\ req' = [req EXCEPT ![u] = Idle]
  /\ UNCHANGED <<now, cred, done, queue, wk, granted, google, puts, crashes>>

Current(u) == resp[req[u].r]

\* schedule_publication: it does not look at is_active.
CommitApprove(u) ==
  /\ req[u].op = "approve"
  /\ \E d \in MinDelay .. MaxDelay :
       Commit(u, "approve",
              [Current(u) EXCEPT !.status = "scheduled",
                                 !.sched = req[u].at + d,
                                 !.undo = req[u].at + Grace])

CommitCancel(u) ==
  /\ req[u].op = "cancel"
  /\ Commit(u, "cancel",
            [Current(u) EXCEPT !.status = "cancelled",
                               !.active = Column(req[u].seen.active, FALSE, @)])

CommitEdit(u) ==
  /\ req[u].op = "edit"
  /\ \E t \in Texts :
       Commit(u, "edit",
              [Current(u) EXCEPT !.text = Column(req[u].seen.text, t, @)])

\* regenerate also asks for a new generation, which is outside this module.
CommitRegenerate(u) ==
  /\ req[u].op = "regenerate"
  /\ Commit(u, "regenerate",
            [Current(u) EXCEPT
               !.status = Column(req[u].seen.status, "superseded", @),
               !.active = Column(req[u].seen.active, FALSE, @)])

\* delete_published_response first removes the reply at Google.  The call can
\* fail (502/504, the row is left alone) whether or not Google applied it.
DeleteReply(u) ==
  /\ req[u].op = "delete" /\ ~req[u].gone
  /\ \/ /\ req[u].token = granted[ClientOf[req[u].r]]
        /\ google' = [google EXCEPT ![req[u].r] = NoReply]
        /\ req' \in {[req EXCEPT ![u].gone = TRUE], [req EXCEPT ![u] = Idle]}
     \/ /\ req' = [req EXCEPT ![u] = Idle]
        /\ UNCHANGED google
  /\ UNCHANGED <<now, resp, cred, done, queue, wk, granted, puts, crashes>>

CommitDelete(u) ==
  /\ req[u].op = "delete" /\ req[u].gone
  /\ Commit(u, "delete",
            [Current(u) EXCEPT !.deleted = TRUE,
                               !.active = Column(req[u].seen.active, FALSE, @)])

\* The API process dies, or the commit fails: the transaction rolls back.
Abandon(u) ==
  /\ req[u] # Idle
  /\ req' = [req EXCEPT ![u] = Idle]
  /\ UNCHANGED <<now, resp, cred, done, queue, wk, granted, google, puts, crashes>>

Finish(u) ==
  \/ CommitApprove(u) \/ CommitCancel(u) \/ CommitEdit(u) \/ CommitRegenerate(u)
  \/ DeleteReply(u) \/ CommitDelete(u) \/ Abandon(u)

-----------------------------------------------------------------------------
(* The beat task.                                                          *)

\* Bugs: scheduled_at is not compared, or compared for equality.
DueAtOnce == {r \in Responses : resp[r].status = "scheduled"}
DueThisTick == {r \in Responses : resp[r].status = "scheduled" /\ resp[r].sched = now}

Due == {r \in Responses : resp[r].status = "scheduled" /\ resp[r].sched <= now}

\* ORDER BY scheduled_at LIMIT n.
Batches ==
  {B \in SUBSET Due :
     /\ Cardinality(B) = Least(Limit, Cardinality(Due))
     /\ \A b \in B, d \in Due \ B : resp[b].sched <= resp[d].sched}

\* One more message in the broker.  Queue bound: beyond QueueBound copies of
\* the same message another one makes no difference and is not counted.
Enqueue(n) == Least(n + 1, QueueBound)

\* dispatch_due_publications: the row locks of the query are released by its
\* commit, before the messages are sent.
Dispatch ==
  /\ \E B \in Batches :
       /\ \E b \in B : queue[b] < QueueBound
       /\ queue' = [r \in Responses |-> IF r \in B THEN Enqueue(queue[r]) ELSE queue[r]]
  /\ UNCHANGED <<now, resp, cred, done, req, wk, granted, google, puts, crashes>>

-----------------------------------------------------------------------------
(* publish_response / publish_now.                                         *)

\* Bugs: an interrupted publication is taken up again; only withdrawn responses
\* are left out.
PublishableInterrupted(r) ==
  resp[r].status \in {"scheduled", "publishing"} /\ ~(resp[r].undo > now)
PublishableUnlessWithdrawn(r) ==
  resp[r].status \notin {"pending", "cancelled", "superseded"} /\ ~(resp[r].undo > now)

Publishable(r) == resp[r].status = "scheduled" /\ ~(resp[r].undo > now)

\* A worker takes a message and loads the response; the two early returns of
\* publish_now acknowledge it and do nothing.
Deliver(w, r) ==
  /\ wk[w] = Rest
  /\ queue[r] > 0
  /\ queue' = [queue EXCEPT ![r] = @ - 1]
  /\ wk' = IF Publishable(r)
           THEN [wk EXCEPT ![w] = [pc |-> "loaded", r |-> r, text |-> resp[r].text,
                                   token |-> 0, answer |-> "none"]]
           ELSE wk
  /\ UNCHANGED <<now, resp, cred, done, req, granted, google, puts, crashes>>

\* The credential is not active: only failure_reason is written.
Blocked(w) ==
  /\ wk[w].pc = "loaded" /\ wk[w].token = 0
  /\ cred[ClientOf[wk[w].r]].status # "active"
  /\ wk' = [wk EXCEPT ![w] = Rest]
  /\ UNCHANGED <<now, resp, cred, done, req, queue, granted, google, puts, crashes>>

\* It is active: its token is read.
Allowed(w) ==
  /\ wk[w].pc = "loaded" /\ wk[w].token = 0
  /\ cred[ClientOf[wk[w].r]].status = "active"
  /\ wk' = [wk EXCEPT ![w].token = cred[ClientOf[wk[w].r]].token]
  /\ UNCHANGED <<now, resp, cred, done, req, queue, granted, google, puts, crashes>>

\* Bug: the review is completed before Google has answered.
ClaimCompletes(w) ==
  /\ wk[w].pc = "loaded" /\ wk[w].token # 0
  /\ resp' = [resp EXCEPT ![wk[w].r].status = "publishing"]
  /\ wk' = [wk EXCEPT ![w].pc = "publishing"]
  /\ done' = done \cup {wk[w].r}
  /\ UNCHANGED <<now, cred, req, queue, granted, google, puts, crashes>>

\* status = publishing is committed, whatever the row and the credential have become.
Claim(w) ==
  /\ wk[w].pc = "loaded" /\ wk[w].token # 0
  /\ resp' = [resp EXCEPT ![wk[w].r].status = "publishing"]
  /\ wk' = [wk EXCEPT ![w].pc = "publishing"]
  /\ UNCHANGED <<now, cred, done, req, queue, granted, google, puts, crashes>>

\* reply_to_review: a PUT that replaces the reply of the review.
Accepted(w) ==
  /\ wk[w].token = granted[ClientOf[wk[w].r]]
  /\ google' = [google EXCEPT ![wk[w].r] = wk[w].text]
  /\ puts' = [puts EXCEPT ![wk[w].r] = @ + 1]

Answered(w, a) == wk' = [wk EXCEPT ![w].pc = "answered", ![w].answer = a]

\* Bug: the status of Google's answer is not checked.
CallGoogleUnchecked(w) ==
  /\ wk[w].pc = "publishing"
  /\ \/ Accepted(w)
     \/ UNCHANGED <<google, puts>>
  /\ Answered(w, "ok")
  /\ UNCHANGED <<now, resp, cred, done, req, queue, granted, crashes>>

\* Google answers 2xx, or applies the reply and the answer is lost; answers 401 to a
\* token it does not honour, or 403 to one it does; or fails (429, 5xx, other 4xx,
\* network).
CallGoogle(w) ==
  /\ wk[w].pc = "publishing"
  /\ \/ Accepted(w) /\ Answered(w, "ok")
     \/ Accepted(w) /\ Answered(w, "error")
     \/ \E a \in {"auth", "error"} : Answered(w, a) /\ UNCHANGED <<google, puts>>
  /\ UNCHANGED <<now, resp, cred, done, req, queue, granted, crashes>>

Settled(w, answer, status) ==
  /\ wk[w].pc = "answered" /\ wk[w].answer = answer
  /\ resp' = [resp EXCEPT ![wk[w].r].status = status]
  /\ wk' = [wk EXCEPT ![w] = Rest]

Publish(w) ==
  /\ Settled(w, "ok", "published")
  /\ done' = done \cup {wk[w].r}
  /\ UNCHANGED <<now, cred, req, queue, granted, google, puts, crashes>>

\* Bug: the credential is marked `expired', which nothing in the code handles.
RollBackExpires(w) ==
  /\ Settled(w, "auth", "scheduled")
  /\ cred' = [cred EXCEPT ![ClientOf[wk[w].r]].status = "expired"]
  /\ UNCHANGED <<now, done, req, queue, granted, google, puts, crashes>>

\* GoogleAuthError: back to scheduled, the credential is revoked.
RollBack(w) ==
  /\ Settled(w, "auth", "scheduled")
  /\ cred' = [cred EXCEPT ![ClientOf[wk[w].r]].status = "revoked"]
  /\ UNCHANGED <<now, done, req, queue, granted, google, puts, crashes>>

\* Bug: any failure puts the response back in the schedule.
FailReschedules(w) ==
  /\ Settled(w, "error", "scheduled")
  /\ UNCHANGED <<now, cred, done, req, queue, granted, google, puts, crashes>>

\* Any other exception: failed, re-raised, and retried by Celery.
Fail(w) ==
  /\ Settled(w, "error", "failed")
  /\ queue' = [queue EXCEPT ![wk[w].r] = Enqueue(@)]
  /\ UNCHANGED <<now, cred, done, req, granted, google, puts, crashes>>

Work(w) ==
  Blocked(w) \/ Allowed(w) \/ Claim(w) \/ CallGoogle(w) \/ Publish(w) \/ RollBack(w) \/ Fail(w)

\* The worker process is lost: acks_late and reject_on_worker_lost put the
\* message back.
Crash(w) ==
  /\ wk[w] # Rest
  /\ crashes < MaxCrashes
  /\ crashes' = crashes + 1
  /\ queue' = [queue EXCEPT ![wk[w].r] = Enqueue(@)]
  /\ wk' = [wk EXCEPT ![w] = Rest]
  /\ UNCHANGED <<now, resp, cred, done, req, granted, google, puts>>

-----------------------------------------------------------------------------
(* The client's authorisation, and time.                                   *)

\* The client withdraws its consent at Google, or the access token lapses.
Withdraw(c) ==
  /\ granted[c] # 0
  /\ granted' = [granted EXCEPT ![c] = 0]
  /\ UNCHANGED <<now, resp, cred, done, req, queue, wk, google, puts, crashes>>

\* exchange_and_persist after a new consent: a new token, status active.
Reauthorise(c) ==
  /\ granted[c] = 0 \/ cred[c].status = "revoked"
  /\ cred[c].token < MaxTokens
  /\ cred' = [cred EXCEPT ![c] = [status |-> "active", token |-> cred[c].token + 1]]
  /\ granted' = [granted EXCEPT ![c] = cred[c].token + 1]
  /\ UNCHANGED <<now, resp, done, req, queue, wk, google, puts, crashes>>

\* Latency is an assumption on requests only: workers may stall for ever.
Tick ==
  /\ now < MaxTime
  /\ \A u \in Callers : req[u] # Idle => now < req[u].at + Latency
  /\ now' = now + 1
  /\ UNCHANGED <<resp, cred, done, req, queue, wk, granted, google, puts, crashes>>

Next ==
  \/ \E u \in Callers :
       \/ \E op \in Ops, r \in Responses : Receive(u, op, r)
       \/ Finish(u)
  \/ Dispatch
  \/ \E w \in Workers :
       \/ \E r \in Responses : Deliver(w, r)
       \/ Work(w)
       \/ Crash(w)
  \/ \E c \in Clients : Withdraw(c) \/ Reauthorise(c)
  \/ Tick

Spec == Init /\ [][Next]_vars

\* Beat fires, workers run and requests end.  The broker is first in first
\* out, so the message of one response is not overtaken for ever.
Fairness ==
  /\ WF_vars(Tick)
  /\ WF_vars(Dispatch)
  /\ \A u \in Callers : WF_vars(Finish(u))
  /\ \A w \in Workers : WF_vars(Work(w))
  /\ \A r \in Responses : SF_vars(\E w \in Workers : Deliver(w, r))

FairSpec == Spec /\ Fairness

-----------------------------------------------------------------------------
(* Safety that holds whatever the number of callers, workers and crashes.  *)

Held(r) == \E w \in Workers : wk[w] # Rest /\ wk[w].r = r

\* A reply has been sent, or is about to be: a message for it exists, a worker
\* holds it, or Google accepted it.
OnItsWay(r) == queue[r] > 0 \/ Held(r) \/ puts[r] > 0

\* The undo window and the publication delay are over before anything is sent:
\* even when several approvals overlap and the last to commit moves both dates,
\* no reply is on its way to Google before the dates the row now shows.
NothingSentEarly ==
  \A r \in Responses : OnItsWay(r) => resp[r].undo <= now /\ resp[r].sched <= now

\* A cancellation that succeeds has stopped the reply: no cancelled response is
\* shown by Google or in the hands of a worker, although cancel_publication
\* takes no lock and commits after its check.
CancelStopsReply ==
  \A r \in Responses : resp[r].status = "cancelled" => ~OnItsWay(r)

\* The reply Google shows is the text of the row: a PATCH that was in progress
\* while the response was approved cannot change the row behind the reply.
ShownTextIsRowText ==
  \A r \in Responses : google[r] \in {NoReply, resp[r].text}

\* A published response was really accepted by Google at least once.
PublishedWasAccepted ==
  \A r \in Responses : resp[r].status = "published" => puts[r] > 0

-----------------------------------------------------------------------------
(* Safety of a single worker, crashes included.                            *)

\* However often the dispatcher enqueues a response, and whatever redelivery or
\* retry adds, Google accepts its reply at most once.
SentOnce == \A r \in Responses : puts[r] <= 1

\* A completed review keeps a response that says it was published, or one that a
\* regeneration has replaced.
CompletedIsPublished ==
  \A r \in done : resp[r].status \in {"published", "superseded"}

\* No late write of a worker, an approval or a cancellation takes a published
\* response back; only a regeneration replaces it.
PublishedIsFinal ==
  [][\A r \in Responses : resp[r].status = "published" =>
        resp'[r].status \in {"published", "superseded"}]_vars

-----------------------------------------------------------------------------
(* Liveness.                                                               *)

Usable(r) == cred[ClientOf[r]].status = "active"

\* A worker was lost after it committed `publishing': the row says so and no
\* worker is at it.
Stranded(r) == resp[r].status = "publishing" /\ ~Held(r)

\* The batch is filled without r: rows that are due no later and that no worker may send
\* keep their place in it.
Crowded(r) ==
  Cardinality({s \in Due \ {r} : ~Usable(s) /\ resp[s].sched <= resp[r].sched}) >= Limit

\* A scheduled response is decided - published, failed, cancelled, replaced - unless
\* its client's authorisation is lost, a crash strands it, or the due responses of
\* clients whose authorisation is lost fill the batch: neither redelivery, the undo window
\* nor the responses of usable clients leave it waiting, in batches of any size.
ScheduledIsDecided ==
  \A r \in Responses :
    resp[r].status = "scheduled" ~>
      \/ resp[r].status \notin {"scheduled", "publishing"}
      \/ ~Usable(r)
      \/ Stranded(r)
      \/ Crowded(r)
=============================================================================
