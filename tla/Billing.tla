------------------------------- MODULE Billing -------------------------------
(***************************************************************************)
(* What Lemon Squeezy tells of a subscription: api/v1/webhooks.py and      *)
(* services/subscription_service.py.                                       *)
(*                                                                         *)
(* An event is delivered until it is answered 200, in any order and more   *)
(* than once at a time.  A request is one transaction: it looks the event  *)
(* up, inserts it, loads the subscription, flushes its change and commits  *)
(* both.  The unique key of the event makes a second request for it wait   *)
(* for the first; the change waits for other uncommitted changes of the    *)
(* same row.  A change that fails in the database rolls back everything;   *)
(* one that fails before it reaches the database leaves the event stored,  *)
(* with its error and unprocessed.                                         *)
(*                                                                         *)
(* Signatures, customer numbers and dates are left out, but for the date   *)
(* of a payment, which is written as the text it came as and refused.      *)
(***************************************************************************)
EXTENDS Integers, FiniteSets

CONSTANTS
  Clients, Events,
  Requests,     \* requests that are handled at a time
  Message,      \* what each event says
  First,        \* the subscription each client has at first
  Quota,        \* TIER_QUOTAS
  Sids,         \* subscription numbers of Lemon Squeezy
  NoSid,        \* an event without one, and the empty text it is stored as
  NullSid,      \* the NULL of a row that no event has written
  NoSub,        \* the client has no row in `subscriptions'
  MaxFaults     \* bound: requests lost, answers lost, failures of the database

Tiers == {"starter", "pro", "business"}
Statuses == {"trial", "active", "past_due", "cancelled"}

Upserts == {"subscription_created", "subscription_updated", "order_created"}
Cancels == {"subscription_cancelled", "subscription_expired"}
Types == Upserts \cup Cancels
           \cup {"subscription_payment_failed", "subscription_payment_success", "other"}

\* `sid' is one column with a unique index: an event that inserts a row without a number
\* stores the empty text, a value like another; the trial row of a signup has NULL, of
\* which there may be many.
Row == [tier: Tiers, quota: Nat, status: Statuses, sid: Sids \cup {NoSid, NullSid}]

\* client: named, missing, not an identifier at all, or one that has no row.
\* product: which of the words the name of the product contains.
Payload == [type: Types, client: Clients \cup {"missing", "malformed", "unknown"},
            product: SUBSET {"business", "pro"}, sid: Sids \cup {NoSid}, dated: BOOLEAN]

ASSUME BillingAssumption ==
  /\ Message \in [Events -> Payload]
  /\ Clients \cap {"missing", "malformed", "unknown"} = {}
  /\ NoSid \notin Sids /\ NullSid \notin Sids \cup {NoSid}
  /\ Quota \in [Tiers -> Nat] /\ \A s, t \in Tiers : Quota[s] = Quota[t] => s = t
  /\ First \in [Clients -> Row \cup {NoSub}]
  /\ \A c \in Clients : First[c] # NoSub => First[c].quota = Quota[First[c].tier]
  /\ NoSub \notin Row
  /\ MaxFaults \in Nat

VARIABLES
  event,      \* webhook_events: no row, stored unprocessed, processed
  sub,        \* subscriptions
  req,        \* what each request does
  applied,    \* history: how often an event has been processed
  acked,      \* events that Lemon Squeezy has seen answered 200
  faults

vars == <<event, sub, req, applied, acked, faults>>

Rest == [pc |-> "rest"]
Job == [pc: {"checked", "recorded", "loaded", "flushed"}, e: Events,
        seen: Row \cup {NoSub}]

TypeOK ==
  /\ event \in [Events -> {"none", "failed", "processed"}]
  /\ sub \in [Clients -> Row \cup {NoSub}]
  /\ req \in [Requests -> Job \cup {Rest}]
  /\ applied \in [Events -> Nat]
  /\ acked \subseteq Events
  /\ faults \in 0 .. MaxFaults

Init ==
  /\ event = [e \in Events |-> "none"]
  /\ sub = First
  /\ req = [h \in Requests |-> Rest]
  /\ applied = [e \in Events |-> 0]
  /\ acked = {}
  /\ faults = 0

At(h, pc) == req[h] # Rest /\ req[h].pc = pc

Fault == faults < MaxFaults /\ faults' = faults + 1

-----------------------------------------------------------------------------
(* What an event does to a subscription.                                   *)

\* A heuristic on the name of the product.
Tier(product) == IF "business" \in product THEN "business"
                 ELSE IF "pro" \in product THEN "pro" ELSE "starter"

\* Bug: the quota is that of the subscription's first tier.
UpsertKeepsQuota(m, row) ==
  IF row = NoSub
  THEN [tier |-> Tier(m.product), quota |-> Quota[Tier(m.product)], status |-> "active",
        sid |-> m.sid]
  ELSE [row EXCEPT !.tier = Tier(m.product), !.status = "active",
                   !.sid = IF m.sid = NoSid THEN @ ELSE m.sid]

\* _upsert_subscription
Upsert(m, row) ==
  IF row = NoSub
  THEN [tier |-> Tier(m.product), quota |-> Quota[Tier(m.product)], status |-> "active",
        sid |-> m.sid]
  ELSE [row EXCEPT !.tier = Tier(m.product), !.quota = Quota[Tier(m.product)],
                   !.status = "active", !.sid = IF m.sid = NoSid THEN @ ELSE m.sid]

\* _cancel, _mark_past_due, _mark_active: nothing without a row.
Mark(row, status) == IF row = NoSub THEN NoSub ELSE [row EXCEPT !.status = status]

\* Bug: a status that no handler of the code writes.
HandledExpires(m, row) ==
  IF m.type \in Upserts THEN Upsert(m, row)
  ELSE IF m.type \in Cancels THEN Mark(row, "expired")
  ELSE IF m.type = "subscription_payment_failed" THEN Mark(row, "past_due")
  ELSE IF m.type = "subscription_payment_success" THEN Mark(row, "active")
  ELSE row

\* The row the handler of a message makes of the row it loaded.
Handled(m, row) ==
  IF m.type \in Upserts THEN Upsert(m, row)
  ELSE IF m.type \in Cancels THEN Mark(row, "cancelled")
  ELSE IF m.type = "subscription_payment_failed" THEN Mark(row, "past_due")
  ELSE IF m.type = "subscription_payment_success" THEN Mark(row, "active")
  ELSE row

\* Bug: the row is written as it was loaded.
WriteAll(seen, new, current) == IF seen = new THEN current ELSE new

\* Only the columns that differ from the loaded ones are written.
Write(seen, new, current) ==
  IF seen = new THEN current ELSE IF seen = NoSub THEN new
  ELSE [tier |-> IF seen.tier = new.tier THEN current.tier ELSE new.tier,
        quota |-> IF seen.quota = new.quota THEN current.quota ELSE new.quota,
        status |-> IF seen.status = new.status THEN current.status ELSE new.status,
        sid |-> IF seen.sid = new.sid THEN current.sid ELSE new.sid]

-----------------------------------------------------------------------------
(* A delivery.                                                             *)

\* The answer 200 arrives, or is lost.
Answer(e) == \/ acked' = acked \cup {e} /\ UNCHANGED faults
             \/ acked' = acked /\ Fault

\* is_event_processed: an event that is processed is answered at once.
Receive(h, e) ==
  /\ req[h] = Rest /\ e \notin acked
  /\ IF event[e] = "processed"
     THEN Answer(e) /\ UNCHANGED req
     ELSE req' = [req EXCEPT ![h] = [pc |-> "checked", e |-> e, seen |-> NoSub]]
          /\ UNCHANGED <<acked, faults>>
  /\ UNCHANGED <<event, sub, applied>>

\* Another request has inserted the event and not committed.
Inserted(e) == \E h \in Requests : req[h] # Rest /\ req[h].pc # "checked" /\ req[h].e = e

\* Bug: the events have no unique key.
RecordAgain(h) ==
  /\ At(h, "checked")
  /\ req' = [req EXCEPT ![h].pc = "recorded"]
  /\ UNCHANGED <<event, sub, applied, acked, faults>>

\* record_event: a row that is there, processed or not, fails the request.
Record(h) ==
  /\ At(h, "checked") /\ ~Inserted(req[h].e)
  /\ req' = IF event[req[h].e] = "none" THEN [req EXCEPT ![h].pc = "recorded"]
            ELSE [req EXCEPT ![h] = Rest]
  /\ UNCHANGED <<event, sub, applied, acked, faults>>

\* Bug: the date of its processing is set after the commit, and lost.
CommitUndated(h, outcome) ==
  /\ event' = [event EXCEPT ![req[h].e] = "failed"]
  /\ req' = [req EXCEPT ![h] = Rest]

Commit(h, outcome) ==
  /\ event' = [event EXCEPT ![req[h].e] = outcome]
  /\ req' = [req EXCEPT ![h] = Rest]

Process(h) ==
  /\ Commit(h, "processed")
  /\ applied' = [applied EXCEPT ![req[h].e] = @ + 1]
  /\ Answer(req[h].e)

\* It names no client, or one without any row that it would only mark.
Idle(m) == m.client = "missing" \/ (m.client = "unknown" /\ m.type \notin Upserts)

\* An event that names no client is processed, with an error in its row; one that has
\* nothing to mark is processed.
Ignore(h) ==
  /\ At(h, "recorded") /\ Idle(Message[req[h].e])
  /\ Process(h)
  /\ UNCHANGED sub

\* The handler fails before the database does: `finally' commits the event unprocessed,
\* and the request is answered 500.
Misread(h) ==
  /\ At(h, "recorded") /\ Message[req[h].e].client = "malformed"
  /\ Commit(h, "failed")
  /\ UNCHANGED <<sub, applied, acked, faults>>

\* The foreign key of `subscriptions' refuses the row of a client that has none: nothing
\* is committed, and the request is answered 500.
Reject(h) ==
  /\ At(h, "recorded")
  /\ Message[req[h].e].client = "unknown" /\ Message[req[h].e].type \in Upserts
  /\ req' = [req EXCEPT ![h] = Rest]
  /\ UNCHANGED <<event, sub, applied, acked, faults>>

Load(h) ==
  /\ At(h, "recorded") /\ Message[req[h].e].client \in Clients
  /\ req' = [req EXCEPT ![h].pc = "loaded", ![h].seen = sub[Message[req[h].e].client]]
  /\ UNCHANGED <<event, sub, applied, acked, faults>>

Client(h) == Message[req[h].e].client
New(h) == Handled(Message[req[h].e], req[h].seen)
Inserts(h) == req[h].seen = NoSub /\ New(h) # NoSub

\* A cancellation writes its date, also over another.
Writes(h) == New(h) # NoSub /\ (New(h) # req[h].seen \/ Message[req[h].e].type \in Cancels)
WritesSid(h) == Writes(h) /\ (~Inserts(h) => New(h).sid # req[h].seen.sid)

\* The change waits for an uncommitted one of the same row, or of the same number.
Held(h) == \E k \in Requests \ {h} :
  /\ At(k, "flushed") /\ Writes(k)
  /\ \/ Client(k) = Client(h)
     \/ WritesSid(k) /\ WritesSid(h) /\ New(k).sid = New(h).sid

\* A row was inserted meanwhile; the number is another client's; the date is text.
Refused(h) ==
  \/ Inserts(h) /\ sub[Client(h)] # NoSub
  \/ WritesSid(h) /\ \E d \in Clients \ {Client(h)} : sub[d] # NoSub /\ sub[d].sid = New(h).sid
  \/ /\ Message[req[h].e].type = "subscription_payment_success" /\ Message[req[h].e].dated
     /\ req[h].seen # NoSub

Flush(h) ==
  /\ At(h, "loaded") /\ ~(Writes(h) /\ Held(h)) /\ ~Refused(h)
  /\ req' = [req EXCEPT ![h].pc = "flushed"]
  /\ UNCHANGED <<event, sub, applied, acked, faults>>

\* After the database has refused the change nothing is committed; the answer is 500.
FlushFails(h) ==
  /\ At(h, "loaded") /\ ~(Writes(h) /\ Held(h)) /\ Refused(h)
  /\ req' = [req EXCEPT ![h] = Rest]
  /\ UNCHANGED <<event, sub, applied, acked, faults>>

Finish(h) ==
  /\ At(h, "flushed")
  /\ sub' = [sub EXCEPT ![Client(h)] = Write(req[h].seen, New(h), @)]
  /\ Process(h)

RequestStep(h) ==
  \/ Record(h) \/ Ignore(h) \/ Misread(h) \/ Reject(h)
  \/ Load(h) \/ Flush(h) \/ FlushFails(h) \/ Finish(h)

\* The process is lost, or its connection to the database.
Abort(h) ==
  /\ req[h] # Rest /\ Fault
  /\ req' = [req EXCEPT ![h] = Rest]
  /\ UNCHANGED <<event, sub, applied, acked>>

Next == \E h \in Requests :
          (\E e \in Events : Receive(h, e)) \/ RequestStep(h) \/ Abort(h)

Spec == Init /\ [][Next]_vars

\* An event that the handlers can handle for its client.
Sound(e) ==
  LET m == Message[e]
  IN /\ m.client # "malformed" /\ ~(m.client = "unknown" /\ m.type \in Upserts)
     /\ ~(m.type = "subscription_payment_success" /\ m.dated)

\* Requests end, and Lemon Squeezy repeats what was not answered 200; of events that fail
\* every time that is not assumed.
Fairness ==
  /\ \A h \in Requests : WF_vars(RequestStep(h))
  /\ \A e \in {f \in Events : Sound(f)} : SF_vars(\E h \in Requests : Receive(h, e))

FairSpec == Spec /\ Fairness

-----------------------------------------------------------------------------
(* Properties.                                                             *)

\* However an event is repeated, its change is made once, and it is answered 200 only
\* when that is committed.
AppliedOnce ==
  \A e \in Events : applied[e] <= 1 /\ (e \in acked => applied[e] = 1)

\* The quota is that of the tier, though columns are written one by one over what
\* other requests have written.
QuotaOfTier == \A c \in Clients : sub[c] # NoSub => sub[c].quota = Quota[sub[c].tier]

Orders(S) == {o \in [1 .. Cardinality(S) -> S] : \A i, j \in DOMAIN o : o[i] = o[j] => i = j}

Done(c) == {e \in Events : applied[e] > 0 /\ Message[e].client = c}

\* What the events of an order, one after the other, make of a client's first row.
Replay(c, o) ==
  LET after[n \in {0} \cup DOMAIN o] ==
        IF n = 0 THEN First[c] ELSE Handled(Message[o[n]], after[n - 1])
  IN after

Plan(row) == IF row = NoSub THEN NoSub
             ELSE [tier |-> row.tier, quota |-> row.quota, status |-> row.status]

\* The subscription numbers a client is ever given.
Numbers(c) ==
  ({Message[e].sid : e \in {f \in Events : Message[f].client = c /\ Message[f].type \in Upserts}}
   \cup {row.sid : row \in {First[c]} \ {NoSub}}) \ {NoSid, NullSid}

\* The plan of a client is what its events make of it one after the other: requests that
\* overlap lose nothing of what the others wrote.  So is its whole row, if there is one
\* number: of two, one event's may stay with the other's tier.
Serial ==
  \A c \in Clients : \E o \in Orders(Done(c)) :
    LET row == Replay(c, o)[Cardinality(Done(c))]
    IN /\ Plan(row) = Plan(sub[c])
       /\ (\A s, t \in Numbers(c) : s = t) => row = sub[c]

\* The number that the event would write is another client's.  An order without a number
\* writes the empty text when its client has no row yet.
Taken(e) ==
  LET m == Message[e]
  IN /\ m.client \in Clients /\ m.type \in Upserts
     /\ m.sid = NoSid => sub[m.client] = NoSub
     /\ \E d \in Clients \ {m.client} : sub[d] # NoSub /\ sub[d].sid = m.sid

\* An event that can be handled is processed in the end, whatever is lost on the way,
\* unless the number it would write stays another client's: then the unique index refuses
\* it at every delivery, for orders without a number from the second client on.
SoundIsProcessed ==
  \A e \in Events : Sound(e) => <>(event[e] = "processed") \/ []<>Taken(e)
=============================================================================
