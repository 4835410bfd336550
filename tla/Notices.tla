------------------------------- MODULE Notices -------------------------------
(***************************************************************************)
(* What a client is told: the daily look at the quotas                     *)
(* (tasks/maintenance_tasks.py, check_quota_thresholds), the notification  *)
(* service with its task, and the digests of deferred notifications        *)
(* (tasks/notification_tasks.py).                                          *)
(*                                                                         *)
(* A notification is inserted, sent if it is urgent or its client wants no *)
(* digest, and committed with the outcome; the threshold it is about is    *)
(* written after that, with the next commit.  A digest mails what it reads *)
(* as deferred, client after client, and commits once, at its end.         *)
(*                                                                         *)
(* The usage and the threshold of a client are rows of their own in each   *)
(* month, and a look is at the month it starts in.  Nothing in the         *)
(* repository enqueues send_notification: its messages are given.          *)
(***************************************************************************)
EXTENDS Integers, FiniteSets, Sequences

CONSTANTS
  Clients, DigestWorkers,
  Asks,           \* messages of send_notification: clients, events and months
  Prefs,          \* the notification preference of each client
  NoPref,         \* the client has none
  Levels,         \* numbers of replies a client may have come to when it is looked at
  Quotas,         \* monthly_response_quota of the tiers
  NoticeRetries,  \* max_retries of send_notification
  MaxMonth,       \* bound: months after the first
  MaxChanges,     \* bound: changes of a quota, of the digest mode and of the month
  MaxFaults       \* bound: mails refused, their answers lost, tasks lost

\* IMMEDIATE_EVENT_TYPES
Immediate == {"oauth_revoked", "publish_failed", "quota_exhausted", "publish_succeeded"}
Events == Immediate \cup {"quota_warning_80", "other"}
Months == 0 .. MaxMonth
Topics == Clients \X Events \X Months

Pref == [channel: {"email", "telegram", "sms"}, email: BOOLEAN, chat: BOOLEAN]

ASSUME NoticesAssumption ==
  /\ Clients # {}
  /\ IsFiniteSet(DigestWorkers) /\ DigestWorkers # {}
  /\ Asks \subseteq Topics
  /\ Prefs \in [Clients -> Pref \cup {NoPref}] /\ NoPref \notin Pref
  /\ Levels \subseteq Nat /\ Quotas \subseteq Nat
  /\ NoticeRetries \in Nat /\ MaxMonth \in Nat /\ MaxChanges \in Nat /\ MaxFaults \in Nat

VARIABLES
  month,     \* current_year_month()
  used,      \* quota_usage.count, by month
  alert,     \* quota_usage.last_alert_threshold, by month
  quota,     \* subscriptions.monthly_response_quota
  digest,    \* client_settings.digest_mode
  rows,      \* notifications, committed
  mails,     \* history: how often a client was written to about an event
  look,      \* check_quota_thresholds
  due,       \* its message
  note,      \* send_notification, for each of its messages
  dig,       \* send_pending_digests, for each worker
  changes, faults

vars == <<month, used, alert, quota, digest, rows, mails, look, due, note, dig, changes,
          faults>>
account == <<month, used, quota, digest, changes>>

Rest == [pc |-> "rest"]
States == {"pending", "deferred", "sent", "failed"}
Thresholds == {0, 80, 100}

\* month: the one that is looked at; quotas: those the query gave; pend: thresholds to be written with the next commit;
\* c, level, status: the notification that is being dispatched.
LookJob == [pc: {"loop", "dispatch"}, month: Months, todo: SUBSET Clients,
            quotas: [Clients -> Quotas], pend: [Clients -> Thresholds], c: Clients, level: {80, 100},
            status: States]
NoteJob == [pc: {"queued", "dispatch", "done"}, tries: 0 .. NoticeRetries, status: States]
\* batch: rows in the mail that is being sent; marked: rows to be written as sent.
DigJob == [pc: {"loop", "mail"}, todo: SUBSET Clients, c: Clients,
           batch: SUBSET Nat, marked: SUBSET Nat]

TypeOK ==
  /\ month \in Months
  /\ used \in [Months -> [Clients -> Nat]] /\ alert \in [Months -> [Clients -> Thresholds]]
  /\ quota \in [Clients -> Quotas] /\ digest \in [Clients -> BOOLEAN]
  /\ rows \in Seq([topic: Topics, status: States \ {"pending"}])
  /\ mails \in [Topics -> Nat]
  /\ look \in LookJob \cup {Rest} /\ due \in BOOLEAN
  /\ note \in [Asks -> NoteJob]
  /\ dig \in [DigestWorkers -> DigJob \cup {Rest}]
  /\ changes \in 0 .. MaxChanges /\ faults \in 0 .. MaxFaults

Init ==
  /\ month = 0
  /\ used = [m \in Months |-> [c \in Clients |-> 0]]
  /\ alert = [m \in Months |-> [c \in Clients |-> 0]]
  /\ quota \in [Clients -> Quotas] /\ digest \in [Clients -> BOOLEAN]
  /\ rows = <<>>
  /\ mails = [t \in Topics |-> 0]
  /\ look = Rest /\ due = FALSE
  /\ note = [a \in Asks |-> [pc |-> "queued", tries |-> 0, status |-> "pending"]]
  /\ dig = [w \in DigestWorkers |-> Rest]
  /\ changes = 0 /\ faults = 0

Fault == faults < MaxFaults /\ faults' = faults + 1

Wrote(T) == mails' = [t \in Topics |-> IF t \in T THEN mails[t] + 1 ELSE mails[t]]

-----------------------------------------------------------------------------
(* NotificationService.dispatch.                                           *)

\* Bug: a status that the enumeration does not have.
InsertedDelayed(t) ==
  IF t[2] \in Immediate \/ ~digest[t[1]] THEN "pending" ELSE "delayed"

\* The status a notification is inserted with; one that is pending is sent now.
Inserted(t) == IF t[2] \in Immediate \/ ~digest[t[1]] THEN "pending" ELSE "deferred"

\* Telegram falls back on e-mail when it is not configured; nothing else is a channel.
Reachable(c) ==
  /\ Prefs[c] # NoPref
  /\ \/ Prefs[c].channel = "telegram" /\ Prefs[c].chat
     \/ Prefs[c].channel \in {"email", "telegram"} /\ Prefs[c].email

\* _send, with its outcome: accepted; refused; accepted, and the answer lost.
Sends(t, status) ==
  \/ ~Reachable(t[1]) /\ status = "failed" /\ UNCHANGED <<mails, faults>>
  \/ Reachable(t[1]) /\ status = "sent" /\ Wrote({t}) /\ UNCHANGED faults
  \/ Reachable(t[1]) /\ status = "failed" /\ Fault /\ (Wrote({t}) \/ UNCHANGED mails)

Store(t, status) == rows' = Append(rows, [topic |-> t, status |-> status])

-----------------------------------------------------------------------------
(* check_quota_thresholds.                                                 *)

\* Bug: a quota that is used up to the last reply is not exhausted.
CrossedStrictly(c, m, monthly) ==
  LET pct == (used[m][c] * 100) \div monthly
  IN IF pct > 100 /\ alert[m][c] < 100 THEN 100
     ELSE IF pct >= 80 /\ alert[m][c] < 80 THEN 80 ELSE 0

\* The threshold a client has passed in a month and is not marked as told of, 0 if there
\* is none.
Crossed(c, m, monthly) ==
  LET pct == (used[m][c] * 100) \div monthly
  IN IF pct >= 100 /\ alert[m][c] < 100 THEN 100
     ELSE IF pct >= 80 /\ alert[m][c] < 80 THEN 80 ELSE 0

Topic(c, level, m) == <<c, IF level = 100 THEN "quota_exhausted" ELSE "quota_warning_80", m>>
LookTopic == Topic(look.c, look.level, look.month)

\* Every morning.
Beat ==
  /\ ~due /\ look = Rest
  /\ due' = TRUE
  /\ UNCHANGED <<account, alert, rows, mails, look, note, dig, faults>>

LookStart ==
  /\ due /\ look = Rest /\ due' = FALSE
  /\ look' = [pc |-> "loop", month |-> month, todo |-> Clients, quotas |-> quota,
              pend |-> [c \in Clients |-> 0], c |-> CHOOSE c \in Clients : TRUE,
              level |-> 80, status |-> "pending"]
  /\ UNCHANGED <<account, alert, rows, mails, note, dig, faults>>

\* The usage is loaded; a threshold that was passed is dispatched.
LookNext(c) ==
  /\ look # Rest /\ look.pc = "loop" /\ c \in look.todo
  /\ LET level == IF look.quotas[c] <= 0 THEN 0
                  ELSE Crossed(c, look.month, look.quotas[c])
     IN look' = IF level = 0 THEN [look EXCEPT !.todo = @ \ {c}]
                ELSE [look EXCEPT !.pc = "dispatch", !.todo = @ \ {c}, !.c = c,
                                  !.level = level,
                                  !.status = Inserted(Topic(c, level, look.month))]
  /\ UNCHANGED <<account, alert, rows, mails, due, note, dig, faults>>

LookSend ==
  /\ look # Rest /\ look.pc = "dispatch" /\ look.status = "pending"
  /\ \E status \in {"sent", "failed"} :
       /\ Sends(LookTopic, status)
       /\ look' = [look EXCEPT !.status = status]
  /\ UNCHANGED <<account, alert, rows, due, note, dig>>

\* What was to be written with the next commit.
Recorded == [alert EXCEPT ![look.month] =
  [c \in Clients |-> IF look.pend[c] = 0 THEN alert[look.month][c] ELSE look.pend[c]]]

\* Bug: a notification that could not be sent is not stored.
LookCommitSent ==
  /\ look # Rest /\ look.pc = "dispatch" /\ look.status # "pending"
  /\ IF look.status = "failed" THEN UNCHANGED rows
     ELSE Store(LookTopic, look.status)
  /\ alert' = Recorded
  /\ look' = [look EXCEPT !.pc = "loop",
                          !.pend = [c \in Clients |-> IF c = look.c THEN look.level ELSE 0]]
  /\ UNCHANGED <<account, mails, due, note, dig, faults>>

\* The commit of dispatch, which writes the thresholds of the clients before; this
\* client's is only set after it.
LookCommit ==
  /\ look # Rest /\ look.pc = "dispatch" /\ look.status # "pending"
  /\ Store(LookTopic, look.status)
  /\ alert' = Recorded
  /\ look' = [look EXCEPT !.pc = "loop",
                          !.pend = [c \in Clients |-> IF c = look.c THEN look.level ELSE 0]]
  /\ UNCHANGED <<account, mails, due, note, dig, faults>>

LookEnd ==
  /\ look # Rest /\ look.pc = "loop" /\ look.todo = {}
  /\ alert' = Recorded /\ look' = Rest
  /\ UNCHANGED <<account, rows, mails, due, note, dig, faults>>

LookStep == LookStart \/ (\E c \in Clients : LookNext(c)) \/ LookSend \/ LookCommit \/ LookEnd

\* The task fails and has no retry, or its worker is lost and it is delivered again.
LookFail ==
  /\ look # Rest /\ Fault
  /\ look' = Rest /\ due' \in BOOLEAN
  /\ UNCHANGED <<account, alert, rows, mails, note, dig>>

-----------------------------------------------------------------------------
(* send_notification.                                                      *)

NoteStart(a) ==
  /\ note[a].pc = "queued"
  /\ note' = [note EXCEPT ![a].pc = "dispatch", ![a].status = Inserted(a)]
  /\ UNCHANGED <<account, alert, rows, mails, look, due, dig, faults>>

NoteSend(a) ==
  /\ note[a].pc = "dispatch" /\ note[a].status = "pending"
  /\ \E status \in {"sent", "failed"} :
       Sends(a, status) /\ note' = [note EXCEPT ![a].status = status]
  /\ UNCHANGED <<account, alert, rows, look, due, dig>>

NoteCommit(a) ==
  /\ note[a].pc = "dispatch" /\ note[a].status # "pending"
  /\ Store(a, note[a].status)
  /\ note' = [note EXCEPT ![a].pc = "done"]
  /\ UNCHANGED <<account, alert, mails, look, due, dig, faults>>

NoteStep(a) == NoteStart(a) \/ NoteSend(a) \/ NoteCommit(a)

\* Any exception is retried, the last one is not.
NoteFail(a) ==
  /\ note[a].pc = "dispatch" /\ Fault
  /\ note' = [note EXCEPT ![a] =
       IF @.tries < NoticeRetries
       THEN [pc |-> "queued", tries |-> @.tries + 1, status |-> "pending"]
       ELSE [@ EXCEPT !.pc = "done"]]
  /\ UNCHANGED <<account, alert, rows, mails, look, due, dig>>

\* Lost, and delivered again.
NoteCrash(a) ==
  /\ note[a].pc = "dispatch" /\ Fault
  /\ note' = [note EXCEPT ![a].pc = "queued", ![a].status = "pending"]
  /\ UNCHANGED <<account, alert, rows, mails, look, due, dig>>

-----------------------------------------------------------------------------
(* send_pending_digests.                                                   *)

\* Every quarter of an hour, whether or not the last run has ended.
DigestStart(w) ==
  /\ dig[w] = Rest
  /\ \E c \in Clients : digest[c]
  /\ dig' = [dig EXCEPT ![w] = [pc |-> "loop", todo |-> {c \in Clients : digest[c]},
               c |-> CHOOSE c \in Clients : TRUE, batch |-> {}, marked |-> {}]]
  /\ UNCHANGED <<account, alert, rows, mails, look, due, note, faults>>

Deferred(c) == {i \in DOMAIN rows : rows[i].topic[1] = c /\ rows[i].status = "deferred"}

\* Bug: the rows are marked when they are read.
DigestNextMarks(w, c) ==
  /\ dig[w] # Rest /\ dig[w].pc = "loop" /\ c \in dig[w].todo
  /\ dig' = IF Deferred(c) = {} \/ Prefs[c] = NoPref
            THEN [dig EXCEPT ![w].todo = @ \ {c}]
            ELSE [dig EXCEPT ![w].todo = @ \ {c}, ![w].pc = "mail", ![w].c = c,
                             ![w].batch = Deferred(c), ![w].marked = @ \cup Deferred(c)]
  /\ UNCHANGED <<account, alert, rows, mails, look, due, note, faults>>

\* Bug: the digest goes to Telegram only.
DigestNextByChannel(w, c) ==
  /\ dig[w] # Rest /\ dig[w].pc = "loop" /\ c \in dig[w].todo
  /\ dig' = IF Deferred(c) # {} /\ Prefs[c] # NoPref /\ Prefs[c].chat
            THEN [dig EXCEPT ![w].todo = @ \ {c}, ![w].pc = "mail", ![w].c = c,
                             ![w].batch = Deferred(c)]
            ELSE [dig EXCEPT ![w].todo = @ \ {c}]
  /\ UNCHANGED <<account, alert, rows, mails, look, due, note, faults>>

\* A digest goes by e-mail whatever the channel is.
DigestNext(w, c) ==
  /\ dig[w] # Rest /\ dig[w].pc = "loop" /\ c \in dig[w].todo
  /\ dig' = IF Deferred(c) # {} /\ Prefs[c] # NoPref /\ Prefs[c].email
            THEN [dig EXCEPT ![w].todo = @ \ {c}, ![w].pc = "mail", ![w].c = c,
                             ![w].batch = Deferred(c)]
            ELSE [dig EXCEPT ![w].todo = @ \ {c}]
  /\ UNCHANGED <<account, alert, rows, mails, look, due, note, faults>>

TopicsOf(I) == {rows[i].topic : i \in I}

\* Bug: what was mailed is not remembered.
DigestMailForgets(w) ==
  /\ dig[w] # Rest /\ dig[w].pc = "mail"
  /\ Wrote(TopicsOf(dig[w].batch))
  /\ dig' = [dig EXCEPT ![w].pc = "loop", ![w].batch = {}]
  /\ UNCHANGED <<account, alert, rows, look, due, note, faults>>

\* A mail that is refused leaves its rows deferred.
DigestMail(w) ==
  /\ dig[w] # Rest /\ dig[w].pc = "mail"
  /\ \/ /\ Wrote(TopicsOf(dig[w].batch)) /\ UNCHANGED faults
        /\ dig' = [dig EXCEPT ![w].pc = "loop", ![w].batch = {},
                              ![w].marked = @ \cup dig[w].batch]
     \/ /\ Fault /\ (Wrote(TopicsOf(dig[w].batch)) \/ UNCHANGED mails)
        /\ dig' = [dig EXCEPT ![w].pc = "loop", ![w].batch = {}]
  /\ UNCHANGED <<account, alert, rows, look, due, note>>

DigestEnd(w) ==
  /\ dig[w] # Rest /\ dig[w].pc = "loop" /\ dig[w].todo = {}
  /\ rows' = [i \in DOMAIN rows |->
                IF i \in dig[w].marked THEN [rows[i] EXCEPT !.status = "sent"] ELSE rows[i]]
  /\ dig' = [dig EXCEPT ![w] = Rest]
  /\ UNCHANGED <<account, alert, mails, look, due, note, faults>>

DigestStep(w) ==
  DigestStart(w) \/ (\E c \in Clients : DigestNext(w, c)) \/ DigestMail(w) \/ DigestEnd(w)

DigestFail(w) ==
  /\ dig[w] # Rest /\ Fault
  /\ dig' = [dig EXCEPT ![w] = Rest]
  /\ UNCHANGED <<account, alert, rows, mails, look, due, note>>

-----------------------------------------------------------------------------
(* The client's account.                                                   *)

\* Replies are generated.
Charge(c) ==
  /\ \E n \in Levels : n > used[month][c] /\ used' = [used EXCEPT ![month][c] = n]
  /\ UNCHANGED <<month, alert, quota, digest, rows, mails, look, due, note, dig, changes, faults>>

\* Another tier, or another mode.
Change(c) ==
  /\ changes < MaxChanges /\ changes' = changes + 1
  /\ \/ \E q \in Quotas \ {quota[c]} : quota' = [quota EXCEPT ![c] = q] /\ UNCHANGED digest
     \/ digest' = [digest EXCEPT ![c] = ~@] /\ UNCHANGED quota
  /\ UNCHANGED <<month, used, alert, rows, mails, look, due, note, dig, faults>>

\* Also while a look is under way, or its message waits.
NewMonth ==
  /\ month < MaxMonth /\ month' = month + 1
  /\ changes < MaxChanges /\ changes' = changes + 1
  /\ UNCHANGED <<used, alert, quota, digest, rows, mails, look, due, note, dig, faults>>

Next ==
  \/ Beat \/ LookStep \/ LookFail
  \/ \E a \in Asks : NoteStep(a) \/ NoteFail(a) \/ NoteCrash(a)
  \/ \E w \in DigestWorkers : DigestStep(w) \/ DigestFail(w)
  \/ (\E c \in Clients : Charge(c) \/ Change(c)) \/ NewMonth

Spec == Init /\ [][Next]_vars

\* Beat runs, and so do workers; which of them take the digests is open.
Fairness ==
  /\ WF_vars(Beat) /\ WF_vars(LookStep)
  /\ \A a \in Asks : WF_vars(NoteStep(a))
  /\ WF_vars(\E w \in DigestWorkers : DigestStep(w))

FairSpec == Spec /\ Fairness

-----------------------------------------------------------------------------
(* Properties.                                                             *)

\* A threshold is recorded only when the notification about it is stored, whatever is
\* lost between the two commits.
RecordedIsStored ==
  \A c \in Clients, m \in Months : alert[m][c] # 0 =>
    \E i \in DOMAIN rows : rows[i].topic = Topic(c, alert[m][c], m)

\* A notification is marked sent only when its client was written to.
SentWasMailed ==
  \A i \in DOMAIN rows : rows[i].status = "sent" => mails[rows[i].topic] > 0

\* What calls for a notification: a message, or a threshold, which is passed once a month.
Occasions(t) == (IF t \in Asks THEN 1 ELSE 0)
              + (IF t[2] \in {"quota_warning_80", "quota_exhausted"} THEN 1 ELSE 0)

\* A client is told of what happened once: again only after a failure, or by a digest
\* that overlaps another.
RepeatsAreBounded ==
  \A t \in Topics : mails[t] <= (Occasions(t) + faults) * Cardinality(DigestWorkers)

\* What was deferred is told in the end, if its client still wants digests.
DeferredIsTold ==
  \A c \in Clients :
    Prefs[c] # NoPref /\ Prefs[c].email =>
      (Deferred(c) # {} ~> Deferred(c) = {} \/ ~digest[c])

\* A quota that is exhausted comes to be noted as told, unless it is raised or another
\* month, with nothing used, begins first.  What is exhausted after the last look of a month
\* stays without a notice, and one whose mail was refused is noted too.
ExhaustedIsNoted ==
  \A c \in Clients :
    quota[c] > 0 /\ used[month][c] >= quota[c]
      ~> alert[month][c] = 100 \/ used[month][c] < quota[c]
=============================================================================
