---------------------------- MODULE BillingProofs ----------------------------
(***************************************************************************)
(* Proofs about Billing, for any number of clients, events and requests    *)
(* and any failures: the types, QuotaOfTier, AppliedOnce, Serial, and that *)
(* no event that can be handled is stored unprocessed.                     *)
(***************************************************************************)
EXTENDS Billing, FiniteSetTheorems, TLAPS

(***************************************************************************)
(* A request past Record owns its event: it alone has inserted the row,    *)
(* and no committed row is there.  A request that has loaded a client's    *)
(* row finds that row again when it writes.                                *)
(***************************************************************************)

Owning(h) == req[h] # Rest /\ req[h].pc # "checked"

OwnedOnce ==
  \A h \in Requests : Owning(h) =>
    /\ event[req[h].e] = "none"
    /\ \A k \in Requests : Owning(k) /\ req[k].e = req[h].e => k = h

CountedOnce == \A e \in Events : applied[e] = IF event[e] = "processed" THEN 1 ELSE 0

AckedIsProcessed == \A e \in acked : event[e] = "processed"

Consistent(row) == row # NoSub => row.quota = Quota[row.tier]

SeenIsThere ==
  \A h \in Requests : req[h] # Rest =>
    /\ Consistent(req[h].seen)
    /\ req[h].pc \in {"loaded", "flushed"} => Client(h) \in Clients
    /\ req[h].pc \in {"checked", "recorded"} => req[h].seen = NoSub
    /\ req[h].seen # NoSub => sub[Client(h)] # NoSub

IInv == TypeOK /\ OwnedOnce /\ CountedOnce /\ AckedIsProcessed

QInv == TypeOK /\ QuotaOfTier /\ SeenIsThere

-----------------------------------------------------------------------------
(* What the handlers make of a row.                                        *)

LEMMA TierType == ASSUME NEW p PROVE Tier(p) \in Tiers
  BY DEF Tier, Tiers

\* A handler makes a row of a row, keeps what has none without one or gives it one, and
\* never parts the quota from the tier.
LEMMA HandledRow ==
  ASSUME NEW m \in Payload, NEW row \in Row \cup {NoSub}, Consistent(row)
  PROVE  /\ Handled(m, row) \in Row \cup {NoSub}
         /\ Consistent(Handled(m, row))
         /\ row # NoSub => Handled(m, row) \in Row
<1>1. Tier(m.product) \in Tiers /\ Quota[Tier(m.product)] \in Nat /\ m.sid \in Sids \cup {NoSid}
  BY TierType, BillingAssumption DEF Payload
<1>2. /\ Upsert(m, row) \in Row
      /\ Upsert(m, row).quota = Quota[Upsert(m, row).tier]
  <2>1. CASE row = NoSub
    BY <1>1, <2>1 DEF Upsert, Row, Statuses
  <2>2. CASE row \in Row
    <3>1. row # NoSub
      BY <2>2, BillingAssumption
    <3>2. Upsert(m, row) = [row EXCEPT !.tier = Tier(m.product),
             !.quota = Quota[Tier(m.product)], !.status = "active",
             !.sid = IF m.sid = NoSid THEN @ ELSE m.sid]
      BY <3>1 DEF Upsert
    <3> QED
      BY <1>1, <2>2, <3>2 DEF Row, Statuses
  <2> QED
    BY <2>1, <2>2
<1>3. ASSUME NEW s \in Statuses
      PROVE  /\ Mark(row, s) \in Row \cup {NoSub}
             /\ Consistent(Mark(row, s))
             /\ row # NoSub => Mark(row, s) \in Row
  BY <1>3 DEF Mark, Row, Consistent
<1>4. "cancelled" \in Statuses /\ "past_due" \in Statuses /\ "active" \in Statuses
  BY DEF Statuses
<1> QED
  BY <1>2, <1>3, <1>4 DEF Handled, Consistent

\* The columns of Write come from the loaded, the new and the current row; tier and quota
\* come from the same one, since tiers with the same quota are the same.
LEMMA WriteRow ==
  ASSUME NEW seen \in Row \cup {NoSub}, NEW new \in Row \cup {NoSub},
         NEW current \in Row \cup {NoSub},
         seen # NoSub => new \in Row /\ current \in Row,
         Consistent(seen), Consistent(new), Consistent(current)
  PROVE  /\ Write(seen, new, current) \in Row \cup {NoSub}
         /\ Consistent(Write(seen, new, current))
         /\ current # NoSub /\ (seen = NoSub => new = seen \/ new # NoSub)
              => Write(seen, new, current) # NoSub
<1>1. CASE seen = new \/ seen = NoSub
  BY <1>1 DEF Write
<1>2. CASE seen # new /\ seen # NoSub
  <2> DEFINE out == [tier |-> IF seen.tier = new.tier THEN current.tier ELSE new.tier,
        quota |-> IF seen.quota = new.quota THEN current.quota ELSE new.quota,
        status |-> IF seen.status = new.status THEN current.status ELSE new.status,
        sid |-> IF seen.sid = new.sid THEN current.sid ELSE new.sid]
  <2>1. Write(seen, new, current) = out
    BY <1>2 DEF Write
  <2>2. seen \in Row /\ new \in Row /\ current \in Row
    BY <1>2
  <2>3. out \in Row
    BY <2>2 DEF Row
  <2>4. out # NoSub
    BY <2>3, BillingAssumption
  <2>5. seen.quota = new.quota <=> seen.tier = new.tier
    <3>1. /\ seen.quota = Quota[seen.tier] /\ new.quota = Quota[new.tier]
          /\ seen.tier \in Tiers /\ new.tier \in Tiers
      BY <2>2, BillingAssumption DEF Consistent, Row
    <3> QED
      BY <3>1, BillingAssumption
  <2>6. new.quota = Quota[new.tier] /\ current.quota = Quota[current.tier]
    BY <2>2, BillingAssumption DEF Consistent
  <2>7. out.quota = Quota[out.tier]
    BY <2>5, <2>6
  <2> QED
    BY <2>1, <2>3, <2>4, <2>7 DEF Consistent
<1> QED
  BY <1>1, <1>2

-----------------------------------------------------------------------------
(* Type correctness.                                                       *)

LEMMA JobType ==
  ASSUME TypeOK, NEW h \in Requests, req[h] # Rest
  PROVE  /\ req[h] \in Job /\ req[h].e \in Events
         /\ Message[req[h].e] \in Payload
  BY BillingAssumption DEF TypeOK, Job

LEMMA AnswerType ==
  ASSUME TypeOK, NEW e \in Events, Answer(e)
  PROVE  acked' \subseteq Events /\ faults' \in 0 .. MaxFaults
  BY BillingAssumption DEF TypeOK, Answer, Fault

LEMMA RestStays ==
  ASSUME TypeOK, NEW h \in Requests
  PROVE  [req EXCEPT ![h] = Rest] \in [Requests -> Job \cup {Rest}]
  BY DEF TypeOK

LEMMA InitType == Init => TypeOK
  BY BillingAssumption DEF Init, TypeOK

\* One step of one request.
Step(h) == (\E e \in Events : Receive(h, e)) \/ RequestStep(h) \/ Abort(h)

LEMMA ProcessType ==
  ASSUME TypeOK, NEW h \in Requests, req[h] # Rest, Process(h)
  PROVE  /\ event' \in [Events -> {"none", "failed", "processed"}]
         /\ req' \in [Requests -> Job \cup {Rest}]
         /\ applied' \in [Events -> Nat]
         /\ acked' \subseteq Events /\ faults' \in 0 .. MaxFaults
<1>1. /\ req[h].e \in Events /\ Answer(req[h].e)
  BY JobType DEF Process
<1>2. acked' \subseteq Events /\ faults' \in 0 .. MaxFaults
  BY <1>1, AnswerType
<1>3. req' \in [Requests -> Job \cup {Rest}]
  BY RestStays DEF Process, Commit
<1> QED
  BY <1>1, <1>2, <1>3 DEF Process, Commit, TypeOK

\* A request changes its place in the handler, and what it has seen only when it loads.
LEMMA MovedType ==
  ASSUME TypeOK, NEW h \in Requests, req[h] # Rest,
         NEW pc \in {"checked", "recorded", "loaded", "flushed"}
  PROVE  [req EXCEPT ![h].pc = pc] \in [Requests -> Job \cup {Rest}]
<1>1. req[h] \in Job
  BY JobType
<1>2. [req[h] EXCEPT !.pc = pc] \in Job
  BY <1>1 DEF Job
<1> QED
  BY <1>2 DEF TypeOK

LEMMA LoadType ==
  ASSUME TypeOK, NEW h \in Requests, Load(h)
  PROVE  /\ req' \in [Requests -> Job \cup {Rest}]
         /\ req' = [req EXCEPT ![h] = [pc |-> "loaded", e |-> req[h].e, seen |-> sub[Client(h)]]]
         /\ Client(h) \in Clients
<1>1. req[h] \in Job /\ Client(h) \in Clients
  BY JobType DEF Load, At, Client
<1>2. sub[Client(h)] \in Row \cup {NoSub}
  BY <1>1 DEF TypeOK
<1>3. req' = [req EXCEPT ![h] = [pc |-> "loaded", e |-> req[h].e, seen |-> sub[Client(h)]]]
  <2> DEFINE row == sub[Client(h)]
             mid == [pc |-> "loaded", e |-> req[h].e, seen |-> req[h].seen]
  <2>1. [req[h] EXCEPT !.pc = "loaded"] = mid
    BY <1>1 DEF Job
  <2>2. [mid EXCEPT !.seen = row] = [pc |-> "loaded", e |-> req[h].e, seen |-> row]
    OBVIOUS
  <2>3. req' = [req EXCEPT ![h] = [req[h] EXCEPT !.pc = "loaded", !.seen = row]]
    BY DEF Load, Client, TypeOK
  <2> QED
    BY <2>1, <2>2, <2>3
<1>4. [pc |-> "loaded", e |-> req[h].e, seen |-> sub[Client(h)]] \in Job
  BY <1>1, <1>2 DEF Job
<1> QED
  BY <1>1, <1>3, <1>4 DEF TypeOK

\* All but the row that Finish writes.
LEMMA OtherType ==
  ASSUME TypeOK, NEW h \in Requests, Step(h)
  PROVE  /\ event' \in [Events -> {"none", "failed", "processed"}]
         /\ req' \in [Requests -> Job \cup {Rest}]
         /\ applied' \in [Events -> Nat]
         /\ acked' \subseteq Events /\ faults' \in 0 .. MaxFaults
<1>1. CASE \E e \in Events : Receive(h, e)
  <2>1. PICK e \in Events : Receive(h, e)
    BY <1>1
  <2>2. acked' \subseteq Events /\ faults' \in 0 .. MaxFaults
    BY <2>1, AnswerType DEF Receive, TypeOK
  <2>3. [pc |-> "checked", e |-> e, seen |-> NoSub] \in Job
    BY DEF Job
  <2> QED
    BY <2>1, <2>2, <2>3 DEF Receive, TypeOK
<1>2. CASE Record(h)
  BY <1>2, MovedType, RestStays DEF Record, At, TypeOK
<1>3. CASE Ignore(h) \/ Finish(h)
  BY <1>3, ProcessType DEF Ignore, Finish, At
<1>4. CASE Misread(h)
  <2>1. req[h].e \in Events
    BY <1>4, JobType DEF Misread, At
  <2> QED
    BY <1>4, <2>1, RestStays DEF Misread, Commit, TypeOK
<1>5. CASE Load(h)
  BY <1>5, LoadType DEF Load, TypeOK
<1>6. CASE Flush(h)
  BY <1>6, MovedType DEF Flush, At, TypeOK
<1>7. CASE FlushFails(h)
  BY <1>7, RestStays DEF FlushFails, TypeOK
<1>8. CASE Abort(h)
  BY <1>8, RestStays, BillingAssumption DEF Abort, Fault, TypeOK
<1>9. CASE Reject(h)
  BY <1>9, RestStays DEF Reject, TypeOK
<1> QED
  BY <1>1, <1>2, <1>3, <1>4, <1>5, <1>6, <1>7, <1>8, <1>9 DEF Step, RequestStep

-----------------------------------------------------------------------------
(* The quota and the tier.                                                 *)

\* What a request that has flushed makes of the row it loaded.
LEMMA NewRow ==
  ASSUME TypeOK, SeenIsThere, NEW h \in Requests, req[h] # Rest
  PROVE  /\ req[h].seen \in Row \cup {NoSub} /\ Consistent(req[h].seen)
         /\ New(h) \in Row \cup {NoSub} /\ Consistent(New(h))
         /\ req[h].seen # NoSub => New(h) \in Row
<1>1. /\ req[h].seen \in Row \cup {NoSub} /\ Message[req[h].e] \in Payload
  BY JobType DEF Job
<1>2. Consistent(req[h].seen)
  BY DEF SeenIsThere
<1> QED
  BY <1>1, <1>2, HandledRow DEF New

LEMMA FinishRow ==
  ASSUME QInv, NEW h \in Requests, Finish(h)
  PROVE  /\ Client(h) \in Clients
         /\ sub' \in [Clients -> Row \cup {NoSub}]
         /\ QuotaOfTier'
         /\ \A c \in Clients : sub[c] # NoSub => sub'[c] # NoSub
<1> DEFINE c == Client(h)
           out == Write(req[h].seen, New(h), sub[c])
<1>1. req[h] # Rest /\ req[h].pc = "flushed"
  BY DEF Finish, At
<1>2. c \in Clients /\ (req[h].seen # NoSub => sub[c] # NoSub)
  BY <1>1 DEF QInv, SeenIsThere
<1>3. sub[c] \in Row \cup {NoSub} /\ Consistent(sub[c])
  BY <1>2 DEF QInv, TypeOK, QuotaOfTier, Consistent
<1>4. /\ req[h].seen \in Row \cup {NoSub} /\ Consistent(req[h].seen)
      /\ New(h) \in Row \cup {NoSub} /\ Consistent(New(h))
      /\ req[h].seen # NoSub => New(h) \in Row
  BY <1>1, NewRow DEF QInv
<1>5. /\ out \in Row \cup {NoSub} /\ Consistent(out)
      /\ sub[c] # NoSub => out # NoSub
  <2>1. req[h].seen # NoSub => New(h) \in Row /\ sub[c] \in Row
    BY <1>2, <1>3, <1>4
  <2>2. req[h].seen = NoSub => New(h) = req[h].seen \/ New(h) # NoSub
    OBVIOUS
  <2> QED
    BY <2>1, <2>2, <1>3, <1>4, WriteRow
<1>6. sub' = [sub EXCEPT ![c] = out]
  BY DEF Finish
<1> HIDE DEF out, c
<1>7. sub' \in [Clients -> Row \cup {NoSub}]
  BY <1>2, <1>5, <1>6 DEF QInv, TypeOK
<1>8. \A d \in Clients : sub'[d] = IF d = c THEN out ELSE sub[d]
  BY <1>6 DEF QInv, TypeOK
<1>9. QuotaOfTier'
  BY <1>5, <1>8 DEF QInv, QuotaOfTier, Consistent
<1> QED
  BY <1>2, <1>5, <1>7, <1>8, <1>9 DEF c

\* Every other step leaves the rows alone.
LEMMA RowsStay ==
  ASSUME NEW h \in Requests, Step(h)
  PROVE  Finish(h) \/ sub' = sub
  BY DEF Step, RequestStep, Receive, Record, Ignore, Misread, Reject, Load, Flush, FlushFails,
     Abort

\* What a step makes of a request: it ends, stays, starts, moves or loads.
LEMMA SeenStep ==
  ASSUME QInv, NEW h \in Requests, Step(h), NEW k \in Requests, req'[k] # Rest
  PROVE  \/ req[k] # Rest /\ req'[k] = req[k]
         \/ req'[k].pc = "checked" /\ req'[k].seen = NoSub
         \/ /\ req[k] # Rest /\ req[k].pc = "checked" /\ req'[k].pc = "recorded"
            /\ req'[k].seen = req[k].seen
         \/ /\ Load(h) /\ k = h
            /\ req'[k] = [pc |-> "loaded", e |-> req[k].e, seen |-> sub[Client(k)]]
         \/ /\ req[k] # Rest /\ req[k].pc = "loaded" /\ req'[k].pc = "flushed"
            /\ req'[k].e = req[k].e /\ req'[k].seen = req[k].seen
<1>0. TypeOK /\ (req[h] # Rest => req[h] \in Job)
  BY JobType DEF QInv
<1>1. CASE k # h
  <2>1. req'[k] = req[k]
    BY <1>0, <1>1 DEF Step, RequestStep, Receive, Record, Ignore, Misread, Reject, Load,
       Flush, FlushFails, Abort, Finish, Process, Commit, TypeOK
  <2> QED
    BY <2>1
<1>2. CASE k = h /\ \E e \in Events : Receive(h, e)
  BY <1>0, <1>2 DEF Receive, TypeOK
<1>3. CASE k = h /\ Record(h)
  BY <1>0, <1>3 DEF Record, At, TypeOK, Job
<1>4. CASE k = h /\ Load(h)
  BY <1>0, <1>4, LoadType DEF TypeOK
<1>5. CASE k = h /\ Flush(h)
  BY <1>0, <1>5 DEF Flush, At, TypeOK, Job
<1>6. CASE k = h /\ (Ignore(h) \/ Misread(h) \/ Reject(h) \/ FlushFails(h) \/ Finish(h) \/ Abort(h))
  BY <1>0, <1>6 DEF Ignore, Misread, Reject, FlushFails, Finish, Abort, Process, Commit, TypeOK
<1> QED
  BY <1>1, <1>2, <1>3, <1>4, <1>5, <1>6 DEF Step, RequestStep

LEMMA QuotaStep ==
  ASSUME QInv, NEW h \in Requests, Step(h)
  PROVE  QInv'
<1>1. /\ sub' \in [Clients -> Row \cup {NoSub}]
      /\ QuotaOfTier'
      /\ \A c \in Clients : sub[c] # NoSub => sub'[c] # NoSub
  BY RowsStay, FinishRow DEF QInv, QuotaOfTier, TypeOK
<1>2. TypeOK'
  BY <1>1, OtherType DEF QInv, TypeOK
<1>3. SeenIsThere'
  <2> SUFFICES ASSUME NEW k \in Requests, req'[k] # Rest
               PROVE  /\ Consistent(req'[k].seen)
                      /\ req'[k].pc \in {"loaded", "flushed"} => Client(k)' \in Clients
                      /\ req'[k].pc \in {"checked", "recorded"} => req'[k].seen = NoSub
                      /\ req'[k].seen # NoSub => sub'[Client(k)'] # NoSub
    BY DEF SeenIsThere, Consistent
  <2>0. Consistent(NoSub) /\ Client(k)' = Message[req'[k].e].client
    BY DEF Consistent, Client
  <2>1. CASE req[k] # Rest /\ req'[k] = req[k]
    <3>1. Client(k)' = Client(k) /\ (req[k].seen # NoSub => Client(k) \in Clients)
      <4>1. req[k].pc \in {"checked", "recorded", "loaded", "flushed"}
        BY <2>1, JobType DEF QInv, Job
      <4> QED
        BY <2>1, <4>1 DEF QInv, SeenIsThere, Client
    <3> QED
      BY <1>1, <2>1, <3>1 DEF QInv, SeenIsThere
  <2>2. CASE req'[k].pc = "checked" /\ req'[k].seen = NoSub
    BY <2>0, <2>2
  <2>3. CASE /\ req[k] # Rest /\ req[k].pc = "checked" /\ req'[k].pc = "recorded"
             /\ req'[k].seen = req[k].seen
    BY <2>0, <2>3 DEF QInv, SeenIsThere
  <2>4. CASE /\ Load(h) /\ k = h
             /\ req'[k] = [pc |-> "loaded", e |-> req[k].e, seen |-> sub[Client(k)]]
    <3>1. Client(k) \in Clients /\ Client(k)' = Client(k)
      BY <2>4, LoadType DEF QInv, Client
    <3>2. Consistent(sub[Client(k)])
      BY <3>1 DEF QInv, QuotaOfTier, Consistent
    <3> QED
      BY <1>1, <2>4, <3>1, <3>2
  <2>5. CASE /\ req[k] # Rest /\ req[k].pc = "loaded" /\ req'[k].pc = "flushed"
             /\ req'[k].e = req[k].e /\ req'[k].seen = req[k].seen
    <3>1. /\ Client(k)' = Client(k) /\ Client(k) \in Clients
          /\ Consistent(req[k].seen)
          /\ req[k].seen # NoSub => sub[Client(k)] # NoSub
      BY <2>5 DEF QInv, SeenIsThere, Client
    <3> QED
      BY <1>1, <2>5, <3>1
  <2> QED
    BY <2>1, <2>2, <2>3, <2>4, <2>5, SeenStep
<1> QED
  BY <1>1, <1>2, <1>3 DEF QInv

LEMMA QuotaInit == Init => QInv
<1> SUFFICES ASSUME Init PROVE QInv
  OBVIOUS
<1>1. QuotaOfTier
  BY BillingAssumption DEF Init, QuotaOfTier
<1>2. SeenIsThere
  BY DEF Init, SeenIsThere
<1> QED
  BY <1>1, <1>2, InitType DEF QInv

LEMMA QuotaStutter == QInv /\ UNCHANGED vars => QInv'
  BY DEF QInv, vars, TypeOK, QuotaOfTier, SeenIsThere, Client

LEMMA QuotaInvariant == Spec => []QInv
<1>1. QInv /\ [Next]_vars => QInv'
  BY QuotaStep, QuotaStutter DEF Next, Step
<1> QED
  BY <1>1, QuotaInit, PTL DEF Spec

\* The variables always have their types.
THEOREM TypeCorrect == Spec => []TypeOK
<1>1. QInv => TypeOK
  BY DEF QInv
<1> QED
  BY <1>1, QuotaInvariant, PTL

\* The quota of a subscription is that of its tier, whatever events overlap: though a
\* request writes only the columns that differ from those it loaded, tier and quota are
\* written together, since no two tiers have one quota.
THEOREM QuotaFollowsTier == Spec => []QuotaOfTier
<1>1. QInv => QuotaOfTier
  BY DEF QInv
<1> QED
  BY <1>1, QuotaInvariant, PTL

-----------------------------------------------------------------------------
(* Once.                                                                   *)

\* The events that have been processed are those counted, and only Process counts.
LEMMA OnceStep ==
  ASSUME IInv, TypeOK', NEW h \in Requests, Step(h)
  PROVE  IInv'
<1>0. TypeOK /\ (req[h] # Rest => req[h] \in Job /\ req[h].e \in Events)
  BY JobType DEF IInv
<1>1. CASE \E e \in Events : Receive(h, e)
  <2>1. PICK e \in Events : Receive(h, e)
    BY <1>1
  <2>2. event' = event /\ applied' = applied /\ AckedIsProcessed'
    BY <2>1 DEF Receive, Answer, IInv, AckedIsProcessed
  <2>3. \A k \in Requests : Owning(k)' => Owning(k) /\ req'[k] = req[k]
    BY <1>0, <2>1 DEF Receive, Owning, TypeOK
  <2> QED
    BY <2>2, <2>3 DEF IInv, OwnedOnce, CountedOnce, Owning
<1>2. CASE Record(h)
  <2>1. event' = event /\ applied' = applied /\ acked' = acked
    BY <1>2 DEF Record
  <2>2. CASE event[req[h].e] = "none"
    <3>1. /\ req[h] # Rest /\ ~Inserted(req[h].e)
          /\ \A k \in Requests : k # h => req'[k] = req[k]
          /\ req'[h].e = req[h].e
      BY <1>0, <1>2, <2>2 DEF Record, At, TypeOK
    <3>2. \A k \in Requests \ {h} : Owning(k) => req[k].e # req[h].e
      BY <3>1 DEF Inserted, Owning
    <3>3. OwnedOnce'
      BY <2>1, <2>2, <3>1, <3>2 DEF IInv, OwnedOnce, Owning
    <3> QED
      BY <2>1, <3>3 DEF IInv, CountedOnce, AckedIsProcessed
  <2>3. CASE event[req[h].e] # "none"
    <3>1. \A k \in Requests : Owning(k)' => Owning(k) /\ req'[k] = req[k]
      BY <1>0, <1>2, <2>3 DEF Record, Owning, TypeOK
    <3> QED
      BY <2>1, <3>1 DEF IInv, OwnedOnce, CountedOnce, AckedIsProcessed, Owning
  <2> QED
    BY <2>2, <2>3
<1>3. CASE Ignore(h) \/ Finish(h)
  <2> DEFINE e == req[h].e
  <2>1. Owning(h) /\ Process(h) /\ e \in Events
    BY <1>0, <1>3 DEF Ignore, Finish, At, Owning
  <2>2. event[e] = "none" /\ \A k \in Requests : Owning(k) /\ req[k].e = e => k = h
    BY <2>1 DEF IInv, OwnedOnce
  <2>3. /\ event' = [event EXCEPT ![e] = "processed"]
        /\ applied' = [applied EXCEPT ![e] = @ + 1]
        /\ acked' = acked \cup {e} \/ acked' = acked
        /\ req' = [req EXCEPT ![h] = Rest]
    BY <2>1 DEF Process, Commit, Answer
  <2>4. \A k \in Requests : Owning(k)' => Owning(k) /\ req'[k] = req[k] /\ k # h
    BY <1>0, <2>3 DEF Owning, TypeOK
  <2> HIDE DEF e
  <2>5. OwnedOnce'
    BY <1>0, <2>1, <2>2, <2>3, <2>4 DEF IInv, OwnedOnce, Owning, TypeOK
  <2>6. applied[e] = 0
    BY <2>1, <2>2 DEF IInv, CountedOnce
  <2>7. CountedOnce' /\ AckedIsProcessed'
    BY <1>0, <2>1, <2>3, <2>6 DEF IInv, CountedOnce, AckedIsProcessed, TypeOK
  <2> QED
    BY <2>5, <2>7 DEF IInv
<1>4. CASE Misread(h)
  <2> DEFINE e == req[h].e
  <2>1. Owning(h) /\ e \in Events
    BY <1>0, <1>4 DEF Misread, At, Owning
  <2>2. event[e] = "none" /\ \A k \in Requests : Owning(k) /\ req[k].e = e => k = h
    BY <2>1 DEF IInv, OwnedOnce
  <2>3. /\ event' = [event EXCEPT ![e] = "failed"] /\ applied' = applied /\ acked' = acked
        /\ req' = [req EXCEPT ![h] = Rest]
    BY <1>4 DEF Misread, Commit
  <2>4. \A k \in Requests : Owning(k)' => Owning(k) /\ req'[k] = req[k] /\ k # h
    BY <1>0, <2>3 DEF Owning, TypeOK
  <2> HIDE DEF e
  <2>5. OwnedOnce'
    BY <1>0, <2>1, <2>2, <2>3, <2>4 DEF IInv, OwnedOnce, Owning, TypeOK
  <2>6. CountedOnce' /\ AckedIsProcessed'
    BY <1>0, <2>1, <2>2, <2>3 DEF IInv, CountedOnce, AckedIsProcessed, TypeOK
  <2> QED
    BY <2>5, <2>6 DEF IInv
<1>5. CASE Load(h) \/ Flush(h)
  <2>1. event' = event /\ applied' = applied /\ acked' = acked
    BY <1>5 DEF Load, Flush
  <2>2. Owning(h) /\ req'[h].e = req[h].e
    <3>1. CASE Load(h)
      <4>1. req' = [req EXCEPT ![h] = [pc |-> "loaded", e |-> req[h].e,
                                       seen |-> sub[Client(h)]]]
        BY <1>0, <3>1, LoadType
      <4>2. req'[h].e = req[h].e
        BY <1>0, <4>1 DEF TypeOK
      <4> QED
        BY <3>1, <4>2 DEF Load, At, Owning
    <3>2. CASE Flush(h)
      BY <1>0, <3>2 DEF Flush, At, Owning, TypeOK, Job
    <3> QED
      BY <1>5, <3>1, <3>2
  <2>3. \A k \in Requests : k # h => req'[k] = req[k]
    BY <1>0, <1>5 DEF Load, Flush, TypeOK
  <2>4. \A k \in Requests : Owning(k)' => Owning(k) /\ req'[k].e = req[k].e
    BY <2>2, <2>3 DEF Owning
  <2> QED
    BY <2>1, <2>4 DEF IInv, OwnedOnce, CountedOnce, AckedIsProcessed, Owning
<1>6. CASE Reject(h) \/ FlushFails(h) \/ Abort(h)
  <2>1. /\ event' = event /\ applied' = applied /\ acked' = acked
        /\ \A k \in Requests : Owning(k)' => Owning(k) /\ req'[k] = req[k]
    BY <1>0, <1>6 DEF Reject, FlushFails, Abort, Owning, TypeOK
  <2> QED
    BY <2>1 DEF IInv, OwnedOnce, CountedOnce, AckedIsProcessed, Owning
<1> QED
  BY <1>1, <1>2, <1>3, <1>4, <1>5, <1>6 DEF Step, RequestStep

LEMMA OnceInvariant == Spec => []IInv
<1>1. Init => IInv
  BY InitType DEF Init, IInv, OwnedOnce, CountedOnce, AckedIsProcessed, Owning
<1>2. IInv /\ UNCHANGED vars => IInv'
  BY DEF IInv, vars, TypeOK, OwnedOnce, CountedOnce, AckedIsProcessed, Owning
<1>3. IInv /\ TypeOK' /\ [Next]_vars => IInv'
  BY <1>2, OnceStep DEF Next, Step
<1> QED
  BY <1>1, <1>3, TypeCorrect, PTL DEF Spec

\* However its deliveries are repeated, lost or handled at the same time, the change of an
\* event is made at most once, and an event that was answered 200 has been committed.
THEOREM EventsApplyOnce == Spec => []AppliedOnce
<1>1. IInv => AppliedOnce
  BY DEF IInv, TypeOK, CountedOnce, AckedIsProcessed, AppliedOnce
<1> QED
  BY <1>1, OnceInvariant, PTL

-----------------------------------------------------------------------------
(* Induction.  The induction theorems of the library take a predicate as a *)
(* parameter; over a set it follows from the well-foundedness of strict    *)
(* inclusion.                                                              *)

LEMMA LeastElement ==
  ASSUME NEW T, T \subseteq Nat, T # {}
  PROVE  \E n \in T : \A m \in T : n <= m
<1> DEFINE R == StrictSubsetOrdering(Nat)
           F == FiniteSubsetsOf(Nat)
           U == {X \in SUBSET Nat : \E n \in T : X = 1 .. n}
<1>1. IsWellFoundedOn(R, F)
  BY FS_StrictSubsetOrderingWellFounded
<1>2. U \subseteq F
  <2> SUFFICES ASSUME NEW n \in Nat PROVE 1 .. n \in F
    OBVIOUS
  <2>1. 1 .. n \in SUBSET Nat /\ IsFiniteSet(1 .. n)
    BY FS_Interval
  <2> QED
    BY <2>1 DEF FiniteSubsetsOf
<1>3. U # {}
  <2>1. PICK n \in T : TRUE
    OBVIOUS
  <2>2. 1 .. n \in SUBSET Nat
    BY <2>1
  <2> QED
    BY <2>1, <2>2
<1> HIDE DEF R, F, U
<1>4. \E X \in U : \A Y \in U : ~(<<Y, X>> \in R)
  BY <1>1, <1>2, <1>3, WFMin
<1>5. PICK n \in T : \A Y \in U : ~(<<Y, 1 .. n>> \in R)
  BY <1>4 DEF U
<1>6. ASSUME NEW m \in T, m < n PROVE FALSE
  <2>1. 1 .. m \in SUBSET Nat /\ 1 .. n \in SUBSET Nat /\ 1 .. m \subseteq 1 .. n
    BY <1>6
  <2>2. 1 .. m # 1 .. n
    <3>1. n \in 1 .. n /\ n \notin 1 .. m
      BY <1>6
    <3> QED
      BY <3>1
  <2>3. 1 .. m \in U /\ <<1 .. m, 1 .. n>> \in R
    BY <2>1, <2>2 DEF U, R, StrictSubsetOrdering
  <2> QED
    BY <1>5, <2>3
<1> QED
  BY <1>6

LEMMA SetInduction ==
  ASSUME NEW S, 0 \in S, \A n \in Nat : n \in S => n + 1 \in S
  PROVE  Nat \subseteq S
<1> DEFINE T == Nat \ S
<1>1. SUFFICES ASSUME T # {} PROVE FALSE
  OBVIOUS
<1>2. T \subseteq Nat
  OBVIOUS
<1> HIDE DEF T
<1>3. PICK n \in T : \A m \in T : n <= m
  BY <1>1, <1>2, LeastElement
<1>4. n \in Nat /\ n # 0 /\ n \notin S
  BY <1>3 DEF T
<1>5. n - 1 \in Nat /\ n - 1 \notin T
  BY <1>3, <1>4
<1> QED
  BY <1>4, <1>5 DEF T

-----------------------------------------------------------------------------
(* What the handlers do to the columns.                                    *)

IsUpsert(e) == Message[e].type \in Upserts
Sets(e) == Message[e].type # "other"
StatusOf(m) == IF m.type \in Cancels THEN "cancelled"
               ELSE IF m.type = "subscription_payment_failed" THEN "past_due" ELSE "active"

LEMMA HandledColumns ==
  ASSUME NEW m \in Payload, NEW row \in Row
  PROVE  LET new == Handled(m, row)
         IN /\ new \in Row
            /\ new.tier = IF m.type \in Upserts THEN Tier(m.product) ELSE row.tier
            /\ new.status = IF m.type = "other" THEN row.status ELSE StatusOf(m)
            /\ new.sid = IF m.type \in Upserts /\ m.sid # NoSid THEN m.sid ELSE row.sid
<1>1. row # NoSub
  BY BillingAssumption
<1>2. /\ Tier(m.product) \in Tiers /\ Quota[Tier(m.product)] \in Nat /\ m.sid \in Sids \cup {NoSid}
      /\ m.type \in Types
  BY TierType, BillingAssumption DEF Payload
<1>3. CASE m.type \in Upserts
  <2>1. Handled(m, row) = [row EXCEPT !.tier = Tier(m.product),
             !.quota = Quota[Tier(m.product)], !.status = "active",
             !.sid = IF m.sid = NoSid THEN @ ELSE m.sid]
    BY <1>1, <1>3 DEF Handled, Upsert
  <2>2. m.type # "other" /\ StatusOf(m) = "active"
    BY <1>3 DEF Upserts, Cancels, StatusOf
  <2> QED
    BY <1>2, <1>3, <2>1, <2>2 DEF Row, Statuses
<1>4. CASE m.type \notin Upserts /\ m.type # "other"
  <2>1. Handled(m, row) = [row EXCEPT !.status = StatusOf(m)]
    BY <1>1, <1>2, <1>4 DEF Handled, Mark, StatusOf, Types
  <2>2. StatusOf(m) \in Statuses
    BY DEF StatusOf, Statuses
  <2> QED
    BY <1>4, <2>1, <2>2 DEF Row
<1>5. CASE m.type = "other"
  BY <1>5 DEF Handled, Upserts, Cancels
<1> QED
  BY <1>3, <1>4, <1>5

LEMMA HandledAbsent ==
  ASSUME NEW m \in Payload
  PROVE  LET new == Handled(m, NoSub)
         IN /\ m.type \notin Upserts => new = NoSub
            /\ m.type \in Upserts =>
                 /\ new \in Row /\ new # NoSub
                 /\ new.tier = Tier(m.product) /\ new.status = "active" /\ new.sid = m.sid
<1>1. /\ Tier(m.product) \in Tiers /\ Quota[Tier(m.product)] \in Nat /\ m.sid \in Sids \cup {NoSid}
  BY TierType, BillingAssumption DEF Payload
<1>2. CASE m.type \in Upserts
  <2>1. Handled(m, NoSub) = [tier |-> Tier(m.product), quota |-> Quota[Tier(m.product)],
                             status |-> "active", sid |-> m.sid]
    BY <1>2 DEF Handled, Upsert
  <2>2. Handled(m, NoSub) \in Row
    BY <1>1, <2>1 DEF Row, Statuses
  <2> QED
    BY <1>2, <2>1, <2>2, BillingAssumption
<1>3. CASE m.type \notin Upserts
  BY <1>3 DEF Handled, Mark
<1> QED
  BY <1>2, <1>3

\* What the events of a set, whatever their order and their overlaps, have made of the row
\* of a client.
Blank(c) == IF First[c] = NoSub THEN NoSid ELSE First[c].sid

Numbered(c, E) ==
  \/ First[c] # NoSub /\ First[c].sid \notin {NoSid, NullSid}
  \/ \E e \in E : IsUpsert(e) /\ Message[e].sid # NoSid

Made(c, E, row) ==
  /\ row \in Row \cup {NoSub} /\ Consistent(row)
  /\ row = NoSub <=> First[c] = NoSub /\ \A e \in E : ~IsUpsert(e)
  /\ row # NoSub =>
       /\ (\A e \in E : ~IsUpsert(e)) => row.tier = First[c].tier
       /\ (\A e \in E : ~Sets(e)) => row.status = First[c].status
       /\ Numbered(c, E) => row.sid \in Numbers(c)
       /\ ~Numbered(c, E) => row.sid = Blank(c)

LEMMA MadeFirst ==
  ASSUME NEW c \in Clients PROVE Made(c, {}, First[c])
<1>1. First[c] \in Row \cup {NoSub} /\ Consistent(First[c])
  BY BillingAssumption DEF Consistent
<1>2. First[c] # NoSub /\ First[c].sid \notin {NoSid, NullSid} => First[c].sid \in Numbers(c)
  BY DEF Numbers
<1> QED
  BY <1>1, <1>2 DEF Made, Numbered, Blank

LEMMA GivenNumber ==
  ASSUME NEW e \in Events, IsUpsert(e), Message[e].sid # NoSid
  PROVE  Message[e].sid \in Numbers(Message[e].client)
<1>1. Message[e].sid # NullSid
  BY BillingAssumption DEF Payload
<1> QED
  BY <1>1 DEF IsUpsert, Numbers

\* One more event, on the row as it is.
LEMMA MadeNext ==
  ASSUME NEW c \in Clients, NEW E, NEW row, Made(c, E, row),
         NEW e \in Events, Message[e].client = c
  PROVE  Made(c, E \cup {e}, Handled(Message[e], row))
<1> DEFINE m == Message[e]
           new == Handled(m, row)
<1>1. m \in Payload /\ row \in Row \cup {NoSub} /\ Consistent(row)
  BY BillingAssumption DEF Made
<1>2. new \in Row \cup {NoSub} /\ Consistent(new)
  BY <1>1, HandledRow
<1>3. IsUpsert(e) => Sets(e)
  BY DEF IsUpsert, Sets, Upserts
<1>4. NoSub \notin Row
  BY BillingAssumption
<1>5. CASE row = NoSub /\ ~IsUpsert(e)
  BY <1>1, <1>2, <1>5, HandledAbsent DEF Made, IsUpsert
<1>6. CASE row = NoSub /\ IsUpsert(e)
  <2>1. new # NoSub /\ new.sid = m.sid
    BY <1>1, <1>6, HandledAbsent DEF IsUpsert
  <2>2. ~Numbered(c, E) /\ Blank(c) = NoSid
    BY <1>6 DEF Made, Numbered, Blank
  <2>3. Numbered(c, E \cup {e}) <=> m.sid # NoSid
    BY <1>6, <2>2 DEF Numbered
  <2>4. /\ Numbered(c, E \cup {e}) => new.sid \in Numbers(c)
        /\ ~Numbered(c, E \cup {e}) => new.sid = Blank(c)
    BY <1>6, <2>1, <2>2, <2>3, GivenNumber
  <2> QED
    BY <1>2, <1>3, <1>6, <2>1, <2>4 DEF Made
<1>7. CASE row # NoSub
  <2>1. /\ new \in Row
        /\ new.tier = IF IsUpsert(e) THEN Tier(m.product) ELSE row.tier
        /\ new.status = IF Sets(e) THEN StatusOf(m) ELSE row.status
        /\ new.sid = IF IsUpsert(e) /\ m.sid # NoSid THEN m.sid ELSE row.sid
    BY <1>1, <1>7, HandledColumns DEF IsUpsert, Sets
  <2>2. Numbered(c, E \cup {e}) <=> Numbered(c, E) \/ (IsUpsert(e) /\ m.sid # NoSid)
    BY DEF Numbered
  <2>3. /\ Numbered(c, E \cup {e}) => new.sid \in Numbers(c)
        /\ ~Numbered(c, E \cup {e}) => new.sid = Blank(c)
    BY <1>7, <2>1, <2>2, GivenNumber DEF Made
  <2>4. new # NoSub /\ ~(First[c] = NoSub /\ \A f \in E \cup {e} : ~IsUpsert(f))
    BY <1>4, <1>7, <2>1 DEF Made
  <2> HIDE DEF new, m
  <2>5. (\A f \in E \cup {e} : ~IsUpsert(f)) => new.tier = First[c].tier
    BY <1>7, <2>1 DEF Made
  <2>6. (\A f \in E \cup {e} : ~Sets(f)) => new.status = First[c].status
    BY <1>7, <2>1 DEF Made
  <2>7. Made(c, E \cup {e}, new)
    BY <1>2, <2>3, <2>4, <2>5, <2>6 DEF Made
  <2> QED
    BY <2>7 DEF new, m
<1> QED
  BY <1>5, <1>6, <1>7

-----------------------------------------------------------------------------
(* Replays and orders.                                                     *)

\* The function that Replay chooses exists.
LEMMA ReplaySteps ==
  ASSUME NEW c \in Clients, NEW N \in Nat, NEW o \in [1 .. N -> Events]
  PROVE  /\ Replay(c, o)[0] = First[c]
         /\ \A n \in 1 .. N : Replay(c, o)[n] = Handled(Message[o[n]], Replay(c, o)[n - 1])
<1> DEFINE Follows(g, n) == g[n] = Handled(Message[o[n]], g[n - 1])
           S == {n \in Nat : n <= N => \E g : /\ g = [i \in 0 .. n |-> g[i]] /\ g[0] = First[c]
                                            /\ \A i \in 1 .. n : Follows(g, i)}
<1>1. 0 \in S
  <2> DEFINE g == [i \in 0 .. 0 |-> First[c]]
  <2>1. g = [i \in 0 .. 0 |-> g[i]] /\ g[0] = First[c] /\ \A i \in 1 .. 0 : Follows(g, i)
    OBVIOUS
  <2> QED
    BY <2>1
<1>2. ASSUME NEW n \in Nat, n \in S PROVE n + 1 \in S
  <2>1. SUFFICES ASSUME n + 1 <= N
                 PROVE  \E g : /\ g = [i \in 0 .. n + 1 |-> g[i]] /\ g[0] = First[c]
                               /\ \A i \in 1 .. n + 1 : Follows(g, i)
    OBVIOUS
  <2>2. PICK f : /\ f = [i \in 0 .. n |-> f[i]] /\ f[0] = First[c]
                 /\ \A i \in 1 .. n : Follows(f, i)
    BY <1>2, <2>1
  <2> DEFINE g == [i \in 0 .. n + 1 |->
                     IF i = n + 1 THEN Handled(Message[o[n + 1]], f[n]) ELSE f[i]]
  <2>3. g = [i \in 0 .. n + 1 |-> g[i]] /\ g[0] = First[c]
    BY <2>2
  <2>4. \A i \in 1 .. n + 1 : Follows(g, i)
    <3> TAKE i \in 1 .. n + 1
    <3>1. i - 1 \in 0 .. n + 1 /\ i - 1 # n + 1 /\ g[i - 1] = f[i - 1]
      OBVIOUS
    <3>2. CASE i = n + 1
      BY <3>1, <3>2
    <3>3. CASE i # n + 1
      <4>1. i \in 1 .. n /\ g[i] = f[i]
        BY <3>3
      <4> QED
        BY <2>2, <3>1, <4>1
    <3> QED
      BY <3>2, <3>3
  <2> HIDE DEF g
  <2> QED
    BY <2>3, <2>4
<1> HIDE DEF S
<1>3. N \in S
  BY <1>1, <1>2, SetInduction
<1>4. PICK g : /\ g = [i \in 0 .. N |-> g[i]] /\ g[0] = First[c]
               /\ \A i \in 1 .. N : Follows(g, i)
  BY <1>3 DEF S
<1> DEFINE D == {0} \cup DOMAIN o
           Equation(f) == f = [n \in D |-> IF n = 0 THEN First[c]
                                           ELSE Handled(Message[o[n]], f[n - 1])]
<1>5. D = 0 .. N
  OBVIOUS
<1>6. g = [n \in 0 .. N |-> IF n = 0 THEN First[c] ELSE Handled(Message[o[n]], g[n - 1])]
  <2>1. \A n \in 0 .. N :
          g[n] = IF n = 0 THEN First[c] ELSE Handled(Message[o[n]], g[n - 1])
    <3> TAKE n \in 0 .. N
    <3>1. n = 0 \/ n \in 1 .. N
      OBVIOUS
    <3> QED
      BY <1>4, <3>1
  <2> QED
    BY <1>4, <2>1
<1>7. Equation(g)
  BY <1>5, <1>6
<1>8. Replay(c, o) = CHOOSE f : Equation(f)
  BY DEF Replay
<1>9. Equation(Replay(c, o))
  <2> HIDE DEF Equation
  <2> QED
    BY <1>7, <1>8
<1> DEFINE r == Replay(c, o)
<1>10. r = [n \in 0 .. N |-> IF n = 0 THEN First[c] ELSE Handled(Message[o[n]], r[n - 1])]
  BY <1>5, <1>9
<1> HIDE DEF r
<1> QED
  BY <1>10 DEF r

\* Every row of a replay is made of the events up to it.
LEMMA ReplayMade ==
  ASSUME NEW c \in Clients, NEW N \in Nat, NEW o \in [1 .. N -> Events],
         \A i \in 1 .. N : Message[o[i]].client = c, NEW n \in 0 .. N
  PROVE  Made(c, {o[i] : i \in 1 .. n}, Replay(c, o)[n])
<1> DEFINE r == Replay(c, o)
           E(k) == {o[i] : i \in 1 .. k}
           S == {k \in Nat : k <= N => Made(c, E(k), r[k])}
<1>1. 0 \in S
  <2>1. E(0) = {} /\ r[0] = First[c]
    BY ReplaySteps
  <2> QED
    BY <2>1, MadeFirst
<1>2. ASSUME NEW k \in Nat, k \in S PROVE k + 1 \in S
  <2>1. SUFFICES ASSUME k + 1 <= N PROVE Made(c, E(k + 1), r[k + 1])
    OBVIOUS
  <2>2. k + 1 \in 1 .. N /\ (k + 1) - 1 = k /\ E(k + 1) = E(k) \cup {o[k + 1]}
    BY <2>1
  <2>3. r[k + 1] = Handled(Message[o[k + 1]], r[k])
    BY <2>2, ReplaySteps
  <2>4. o[k + 1] \in Events /\ Message[o[k + 1]].client = c /\ Made(c, E(k), r[k])
    BY <1>2, <2>1, <2>2
  <2> HIDE DEF E, r
  <2>5. Made(c, E(k) \cup {o[k + 1]}, Handled(Message[o[k + 1]], r[k]))
    BY <2>4, MadeNext
  <2> QED
    BY <2>2, <2>3, <2>5
<1> HIDE DEF S
<1>3. n \in S
  BY <1>1, <1>2, SetInduction
<1> QED
  BY <1>3 DEF S

IsOrder(o, S) ==
  o \in Orders(S) /\ \A x \in S : \E i \in 1 .. Cardinality(S) : o[i] = x

LEMMA SomeOrder ==
  ASSUME NEW S, IsFiniteSet(S)
  PROVE  /\ Cardinality(S) \in Nat
         /\ \E o : IsOrder(o, S)
<1>1. Cardinality(S) \in Nat /\ ExistsBijection(1 .. Cardinality(S), S)
  BY FS_CardinalityType
<1>2. PICK o \in Bijection(1 .. Cardinality(S), S) : TRUE
  BY <1>1 DEF ExistsBijection
<1>3. /\ o \in [1 .. Cardinality(S) -> S]
      /\ \A i, j \in 1 .. Cardinality(S) : o[i] = o[j] => i = j
      /\ \A x \in S : \E i \in 1 .. Cardinality(S) : o[i] = x
  <2>1. o \in [1 .. Cardinality(S) -> S] /\ DOMAIN o = 1 .. Cardinality(S)
    BY DEF Bijection, Injection
  <2> QED
    BY <2>1 DEF Bijection, Injection, IsInjective, Surjection
<1>4. DOMAIN o = 1 .. Cardinality(S)
  BY <1>3
<1> QED
  BY <1>1, <1>3, <1>4 DEF IsOrder, Orders

\* An order with one more element at its end.
LEMMA LongerOrder ==
  ASSUME NEW S, IsFiniteSet(S), NEW x, x \notin S, NEW o, IsOrder(o, S)
  PROVE  LET n == Cardinality(S)
             p == [i \in 1 .. n + 1 |-> IF i = n + 1 THEN x ELSE o[i]]
         IN IsOrder(p, S \cup {x}) /\ Cardinality(S \cup {x}) = n + 1
<1> DEFINE n == Cardinality(S)
           p == [i \in 1 .. n + 1 |-> IF i = n + 1 THEN x ELSE o[i]]
<1>1. n \in Nat /\ Cardinality(S \cup {x}) = n + 1
  BY FS_CardinalityType, FS_AddElement
<1>2. /\ o \in [1 .. n -> S]
      /\ \A i, j \in 1 .. n : o[i] = o[j] => i = j
      /\ \A y \in S : \E i \in 1 .. n : o[i] = y
  BY DEF IsOrder, Orders
<1> HIDE DEF n
<1>3. \A i \in 1 .. n + 1 : i = n + 1 \/ i \in 1 .. n
  BY <1>1
<1>4. \A i \in 1 .. n : p[i] = o[i] /\ p[i] \in S
  BY <1>1, <1>2
<1>5. p[n + 1] = x
  BY <1>1
<1>6. p \in [1 .. n + 1 -> S \cup {x}]
  BY <1>2, <1>3
<1>7. \A i, j \in 1 .. n + 1 : p[i] = p[j] => i = j
  <2> HIDE DEF p
  <2> QED
    BY <1>2, <1>3, <1>4, <1>5
<1>8. \A y \in S \cup {x} : \E i \in 1 .. n + 1 : p[i] = y
  <2>1. n + 1 \in 1 .. n + 1 /\ \A i \in 1 .. n : i \in 1 .. n + 1
    BY <1>1
  <2> HIDE DEF p
  <2> QED
    BY <1>2, <1>4, <1>5, <2>1
<1>9. DOMAIN p = 1 .. n + 1
  OBVIOUS
<1> HIDE DEF p
<1>10. IsOrder(p, S \cup {x})
  BY <1>1, <1>6, <1>7, <1>8, <1>9 DEF IsOrder, Orders
<1> QED
  BY <1>1, <1>10 DEF p, n

\* There are orders that end with any one or any two elements.
LEMMA OrderEnding ==
  ASSUME NEW S, IsFiniteSet(S), NEW y \in S
  PROVE  \E o : IsOrder(o, S) /\ o[Cardinality(S)] = y /\ Cardinality(S) \in Nat \ {0}
<1> DEFINE R == S \ {y}
           n == Cardinality(R)
<1>1. IsFiniteSet(R) /\ y \notin R /\ R \cup {y} = S
  BY FS_RemoveElement
<1> HIDE DEF R
<1>2. n \in Nat
  BY <1>1, SomeOrder
<1>3. PICK o : IsOrder(o, R)
  BY <1>1, SomeOrder
<1> DEFINE p == [i \in 1 .. n + 1 |-> IF i = n + 1 THEN y ELSE o[i]]
<1>4. IsOrder(p, S) /\ Cardinality(S) = n + 1
  BY <1>1, <1>3, LongerOrder
<1>5. p[n + 1] = y
  BY <1>2
<1> HIDE DEF p, n
<1> QED
  BY <1>2, <1>4, <1>5

LEMMA OrderEndingTwo ==
  ASSUME NEW S, IsFiniteSet(S), NEW x \in S, NEW y \in S, x # y
  PROVE  \E o : /\ IsOrder(o, S) /\ Cardinality(S) \in Nat /\ Cardinality(S) >= 2
                /\ o[Cardinality(S)] = y /\ o[Cardinality(S) - 1] = x
<1> DEFINE R == S \ {y}
           n == Cardinality(R)
<1>1. IsFiniteSet(R) /\ y \notin R /\ R \cup {y} = S /\ x \in R
  BY FS_RemoveElement
<1> HIDE DEF R
<1>2. PICK o : IsOrder(o, R) /\ o[n] = x /\ n \in Nat \ {0}
  BY <1>1, OrderEnding
<1> DEFINE p == [i \in 1 .. n + 1 |-> IF i = n + 1 THEN y ELSE o[i]]
<1>3. IsOrder(p, S) /\ Cardinality(S) = n + 1
  BY <1>1, <1>2, LongerOrder
<1>4. p[n + 1] = y /\ p[n] = x
  BY <1>2
<1>5. (n + 1) - 1 = n /\ n + 1 >= 2
  BY <1>2
<1> HIDE DEF p, n
<1> QED
  BY <1>2, <1>3, <1>4, <1>5

-----------------------------------------------------------------------------
(* The rows and the events that made them.                                 *)

(***************************************************************************)
(* Serial is not inductive: it says nothing of what open requests have     *)
(* loaded.  VInv says that a row was made of the events that are done      *)
(* (Made), that its tier and its status are those of some of them, and     *)
(* that what a request has loaded was true of it once: where no event that *)
(* is done has touched a column, it is still that of the first row.        *)
(***************************************************************************)

RowsAreMade == \A c \in Clients : Made(c, Done(c), sub[c])

TierIsGiven ==
  \A c \in Clients : sub[c] # NoSub /\ (\E e \in Done(c) : IsUpsert(e)) =>
    \E e \in Done(c) : IsUpsert(e) /\ sub[c].tier = Tier(Message[e].product)

StatusIsGiven ==
  \A c \in Clients : sub[c] # NoSub /\ (\E e \in Done(c) : Sets(e)) =>
    \E e \in Done(c) : Sets(e) /\ sub[c].status = StatusOf(Message[e])

WasTrue(c, E, seen) ==
  /\ seen = NoSub => First[c] = NoSub
  /\ seen # NoSub =>
       /\ (\A e \in E : ~IsUpsert(e)) => First[c] # NoSub /\ seen.tier = First[c].tier
       /\ (\A e \in E : ~Sets(e)) => First[c] # NoSub /\ seen.status = First[c].status
       /\ seen.sid = Blank(c) \/ (Numbered(c, E) /\ seen.sid \in Numbers(c))

SeenWasTrue ==
  \A h \in Requests, c \in Clients :
    req[h] # Rest /\ req[h].pc \in {"loaded", "flushed"} /\ Client(h) = c =>
      WasTrue(c, Done(c), req[h].seen)

\* Uncommitted changes of one row exclude each other, and an insertion finds none.
ChangesApart ==
  \A h \in Requests : At(h, "flushed") /\ Writes(h) =>
    /\ \A k \in Requests : At(k, "flushed") /\ Writes(k) /\ Client(k) = Client(h) => k = h
    /\ Inserts(h) => sub[Client(h)] = NoSub

DoneIsFinite == IsFiniteSet({e \in Events : applied[e] > 0})

VInv ==
  /\ RowsAreMade /\ TierIsGiven /\ StatusIsGiven
  /\ SeenWasTrue /\ ChangesApart /\ DoneIsFinite

\* The last rows of a replay.
LEMMA ReplayEnd ==
  ASSUME NEW c \in Clients, NEW o, NEW E, IsFiniteSet(E), IsOrder(o, E),
         NEW N, N = Cardinality(E), N \in Nat, N > 0,
         E \subseteq {e \in Events : Message[e].client = c}
  PROVE  LET r == Replay(c, o)
         IN /\ Made(c, E, r[N])
            /\ \E F \in SUBSET E : Made(c, F, r[N - 1])
            /\ r[N] = Handled(Message[o[N]], r[N - 1])
            /\ N > 1 => /\ \E F \in SUBSET E : Made(c, F, r[N - 2])
                        /\ r[N - 1] = Handled(Message[o[N - 1]], r[N - 2])
<1> DEFINE r == Replay(c, o)
           P(n) == {o[i] : i \in 1 .. n}
<1>1. /\ o \in [1 .. N -> Events] /\ o \in [1 .. N -> E]
      /\ \A i \in 1 .. N : Message[o[i]].client = c
  BY DEF IsOrder, Orders
<1>2. \A n \in 0 .. N : Made(c, P(n), r[n]) /\ P(n) \in SUBSET E
  <2> TAKE n \in 0 .. N
  <2>1. P(n) \in SUBSET E
    BY <1>1
  <2> QED
    BY <1>1, <2>1, ReplayMade
<1>3. P(N) = E
  BY <1>1 DEF IsOrder
<1>4. \A n \in 1 .. N : r[n] = Handled(Message[o[n]], r[n - 1])
  BY <1>1, ReplaySteps
<1>5. N \in 0 .. N /\ N - 1 \in 0 .. N /\ N \in 1 .. N
  OBVIOUS
<1>6. N > 1 => N - 2 \in 0 .. N /\ N - 1 \in 1 .. N /\ (N - 1) - 1 = N - 2
  OBVIOUS
<1> HIDE DEF P, r
<1>7. /\ Made(c, E, r[N]) /\ \E F \in SUBSET E : Made(c, F, r[N - 1])
      /\ r[N] = Handled(Message[o[N]], r[N - 1])
  BY <1>2, <1>3, <1>4, <1>5
<1>8. N > 1 => /\ \E F \in SUBSET E : Made(c, F, r[N - 2])
               /\ r[N - 1] = Handled(Message[o[N - 1]], r[N - 2])
  BY <1>2, <1>4, <1>6
<1> QED
  BY <1>7, <1>8 DEF r

\* Two rows made of the same events are the same plan if tier and status are, and the same
\* row if the client has one number.
LEMMA SameRow ==
  ASSUME NEW c \in Clients, NEW E, NEW row, NEW other,
         Made(c, E, row), Made(c, E, other),
         row # NoSub => row.tier = other.tier /\ row.status = other.status
  PROVE  /\ Plan(row) = Plan(other)
         /\ (\A s, t \in Numbers(c) : s = t) => row = other
<1>1. CASE row = NoSub
  BY <1>1 DEF Made, Plan
<1>2. CASE row # NoSub
  <2>1. other # NoSub /\ row \in Row /\ other \in Row
    BY <1>2 DEF Made
  <2>2. row.quota = other.quota
    BY <1>2, <2>1 DEF Made, Consistent
  <2>3. (\A s, t \in Numbers(c) : s = t) => row.sid = other.sid
    BY <1>2, <2>1 DEF Made
  <2>4. row.sid = other.sid => row = other
    BY <1>2, <2>1, <2>2 DEF Row
  <2> QED
    BY <1>2, <2>1, <2>2, <2>3, <2>4 DEF Plan
<1> QED
  BY <1>1, <1>2

LEMMA UpsertRow ==
  ASSUME NEW e \in Events, IsUpsert(e), NEW row \in Row \cup {NoSub}
  PROVE  LET new == Handled(Message[e], row)
         IN new \in Row /\ new.tier = Tier(Message[e].product) /\ new.status = "active"
<1>1. Message[e] \in Payload /\ Message[e].type \in Upserts
  BY BillingAssumption DEF IsUpsert
<1>2. Message[e].type # "other" /\ StatusOf(Message[e]) = "active"
  BY <1>1 DEF Upserts, Cancels, StatusOf
<1>3. CASE row \in Row
  BY <1>1, <1>2, <1>3, HandledColumns
<1>4. CASE row = NoSub
  BY <1>1, <1>4, HandledAbsent
<1> QED
  BY <1>3, <1>4

LEMMA MarkedRow ==
  ASSUME NEW e \in Events, Sets(e), ~IsUpsert(e), NEW row \in Row
  PROVE  LET new == Handled(Message[e], row)
         IN new \in Row /\ new.tier = row.tier /\ new.status = StatusOf(Message[e])
  BY HandledColumns, BillingAssumption DEF IsUpsert, Sets

LEMMA SomeOrderExplains ==
  ASSUME VInv, NEW c \in Clients
  PROVE  \E o \in Orders(Done(c)) :
           LET row == Replay(c, o)[Cardinality(Done(c))]
           IN /\ Plan(row) = Plan(sub[c])
              /\ (\A s, t \in Numbers(c) : s = t) => row = sub[c]
<1> DEFINE E == Done(c)
           N == Cardinality(E)
           row == sub[c]
           Last(o) == Replay(c, o)[N]
<1>1. /\ E \subseteq {e \in Events : Message[e].client = c}
      /\ IsFiniteSet(E) /\ N \in Nat
  <2>1. E \subseteq {e \in Events : applied[e] > 0}
    BY DEF Done
  <2> QED
    BY <2>1, FS_Subset, SomeOrder DEF VInv, DoneIsFinite, Done
<1>2. Made(c, E, row)
  BY DEF VInv, RowsAreMade
<1>3. SUFFICES \E o : IsOrder(o, E) /\ Made(c, E, Last(o))
                      /\ (row # NoSub => row.tier = Last(o).tier /\ row.status = Last(o).status)
  <2> HIDE DEF E, row
  <2>1. PICK o : IsOrder(o, E) /\ Made(c, E, Last(o))
                 /\ (row # NoSub => row.tier = Last(o).tier /\ row.status = Last(o).status)
    BY <1>3
  <2>2. /\ Plan(row) = Plan(Last(o))
        /\ (\A s, t \in Numbers(c) : s = t) => row = Last(o)
    BY <1>2, <2>1, SameRow
  <2> QED
    BY <2>1, <2>2 DEF IsOrder, E, row
<1>4. \A o : IsOrder(o, E) => Made(c, E, Last(o))
  <2> TAKE o
  <2> HAVE IsOrder(o, E)
  <2>1. o \in [1 .. N -> Events] /\ \A i \in 1 .. N : Message[o[i]].client = c
    BY <1>1 DEF IsOrder, Orders
  <2>2. {o[i] : i \in 1 .. N} = E
    BY <2>1 DEF IsOrder, Orders
  <2> HIDE DEF E
  <2>3. N \in 0 .. N
    BY <1>1
  <2>4. Made(c, {o[i] : i \in 1 .. N}, Replay(c, o)[N])
    BY <1>1, <2>1, <2>3, ReplayMade
  <2> QED
    BY <2>2, <2>4
<1>5. NoSub \notin Row /\ \A e \in E : IsUpsert(e) => Sets(e)
  BY BillingAssumption DEF IsUpsert, Sets, Upserts
<1>6. /\ row # NoSub /\ (\E e \in E : IsUpsert(e)) =>
           \E e \in E : IsUpsert(e) /\ row.tier = Tier(Message[e].product)
      /\ row # NoSub /\ (\E e \in E : Sets(e)) =>
           \E e \in E : Sets(e) /\ row.status = StatusOf(Message[e])
  BY DEF VInv, TierIsGiven, StatusIsGiven
<1> HIDE DEF E, row, N
<1>7. CASE row = NoSub \/ \A e \in E : ~Sets(e)
  <2>1. PICK o : IsOrder(o, E)
    BY <1>1, SomeOrder
  <2> QED
    BY <1>2, <1>4, <1>5, <1>7, <2>1 DEF Made
<1>8. CASE row # NoSub /\ (\E e \in E : Sets(e)) /\ \A e \in E : ~IsUpsert(e)
  <2>1. PICK e \in E : Sets(e) /\ row.status = StatusOf(Message[e])
    BY <1>6, <1>8
  <2>2. PICK o : IsOrder(o, E) /\ o[N] = e /\ N > 0
    BY <1>1, OrderEnding DEF N
  <2>3. /\ \E F \in SUBSET E : Made(c, F, Replay(c, o)[N - 1])
        /\ Last(o) = Handled(Message[e], Replay(c, o)[N - 1])
    BY <1>1, <2>2, ReplayEnd DEF N
  <2>4. Replay(c, o)[N - 1] \in Row
    BY <1>2, <1>8, <2>3 DEF Made
  <2>5. e \in Events /\ ~IsUpsert(e)
    BY <1>1, <1>8
  <2>6. Last(o) \in Row /\ Last(o).status = row.status
    BY <2>1, <2>3, <2>4, <2>5, MarkedRow
  <2>7. Made(c, E, Last(o))
    BY <1>4, <2>2
  <2>8. Last(o).tier = row.tier
    BY <1>2, <1>5, <1>8, <2>6, <2>7 DEF Made
  <2> QED
    BY <2>2, <2>6, <2>7, <2>8
<1>9. CASE row # NoSub /\ \E e \in E : IsUpsert(e)
  <2>1. PICK t \in E : IsUpsert(t) /\ row.tier = Tier(Message[t].product)
    BY <1>6, <1>9
  <2>2. PICK s \in E : Sets(s) /\ row.status = StatusOf(Message[s])
    BY <1>5, <1>6, <1>9
  <2>3. t \in Events /\ s \in Events
    BY <1>1
  <2>4. CASE IsUpsert(s)
    <3>1. row.status = "active"
      BY <2>2, <2>4 DEF IsUpsert, Upserts, Cancels, StatusOf
    <3>2. PICK o : IsOrder(o, E) /\ o[N] = t /\ N > 0
      BY <1>1, OrderEnding DEF N
    <3>3. /\ \E F \in SUBSET E : Made(c, F, Replay(c, o)[N - 1])
          /\ Last(o) = Handled(Message[t], Replay(c, o)[N - 1])
      BY <1>1, <3>2, ReplayEnd DEF N
    <3>4. Replay(c, o)[N - 1] \in Row \cup {NoSub}
      BY <3>3 DEF Made
    <3>5. Last(o).tier = row.tier /\ Last(o).status = row.status
      BY <2>1, <2>3, <3>1, <3>3, <3>4, UpsertRow
    <3> QED
      BY <1>4, <3>2, <3>5
  <2>5. CASE ~IsUpsert(s)
    <3>1. t # s
      BY <2>1, <2>5
    <3>2. PICK o : IsOrder(o, E) /\ o[N] = s /\ o[N - 1] = t /\ N >= 2
      BY <1>1, <3>1, OrderEndingTwo DEF N
    <3>3. N > 0 /\ N > 1
      BY <1>1, <3>2
    <3>4. /\ \E F \in SUBSET E : Made(c, F, Replay(c, o)[N - 2])
          /\ Replay(c, o)[N - 1] = Handled(Message[t], Replay(c, o)[N - 2])
          /\ Last(o) = Handled(Message[s], Replay(c, o)[N - 1])
      BY <1>1, <3>2, <3>3, ReplayEnd DEF N
    <3>5. Replay(c, o)[N - 2] \in Row \cup {NoSub}
      BY <3>4 DEF Made
    <3>6. Replay(c, o)[N - 1] \in Row /\ Replay(c, o)[N - 1].tier = row.tier
      BY <2>1, <2>3, <3>4, <3>5, UpsertRow
    <3>7. Last(o).tier = row.tier /\ Last(o).status = row.status
      BY <2>2, <2>3, <2>5, <3>4, <3>6, MarkedRow
    <3> QED
      BY <1>4, <3>2, <3>7
  <2> QED
    BY <2>4, <2>5
<1> QED
  BY <1>7, <1>8, <1>9

LEMMA WasTrueGrows ==
  ASSUME NEW c, NEW E, NEW F, E \subseteq F, NEW seen, WasTrue(c, E, seen)
  PROVE  WasTrue(c, F, seen)
  BY DEF WasTrue, Numbered

LEMMA LoadedIsTrue ==
  ASSUME NEW c, NEW E, NEW row, Made(c, E, row)
  PROVE  WasTrue(c, E, row)
<1>1. \A e \in E : IsUpsert(e) => Sets(e)
  BY DEF IsUpsert, Sets, Upserts
<1> QED
  BY <1>1 DEF Made, WasTrue

LEMMA VInit == Init => VInv
<1> SUFFICES ASSUME Init PROVE VInv
  OBVIOUS
<1>1. \A c : Done(c) = {}
  BY DEF Init, Done
<1>2. {e \in Events : applied[e] > 0} = {}
  BY DEF Init
<1>3. DoneIsFinite
  BY <1>2, FS_EmptySet DEF DoneIsFinite
<1>4. RowsAreMade
  BY <1>1, MadeFirst DEF Init, RowsAreMade
<1> QED
  BY <1>1, <1>3, <1>4 DEF Init, VInv, TierIsGiven, StatusIsGiven, SeenWasTrue, ChangesApart, At

\* What a request makes of what it has seen does not depend on the others.
LEMMA SameRequest ==
  ASSUME NEW k \in Requests, req'[k].e = req[k].e, req'[k].seen = req[k].seen
  PROVE  /\ Client(k)' = Client(k) /\ New(k)' = New(k)
         /\ Inserts(k)' <=> Inserts(k)
         /\ Writes(k)' <=> Writes(k)
  BY DEF Client, New, Inserts, Writes

LEMMA DoneStays ==
  ASSUME TypeOK, VInv, NEW h \in Requests, Step(h), ~Finish(h)
  PROVE  /\ \A c \in Clients : Done(c)' = Done(c)
         /\ DoneIsFinite' /\ sub' = sub
<1>1. sub' = sub
  BY RowsStay
<1>2. CASE applied' = applied
  BY <1>1, <1>2 DEF Done, DoneIsFinite, VInv
<1>3. CASE Ignore(h)
  <2> DEFINE e == req[h].e
             A == {f \in Events : applied[f] > 0}
  <2>1. /\ applied' = [applied EXCEPT ![e] = @ + 1]
        /\ Message[e].client \in {"missing", "unknown"} /\ e \in Events
    BY <1>3, JobType DEF Ignore, Idle, Process, At
  <2>2. Message[e].client \notin Clients
    BY <2>1, BillingAssumption
  <2> HIDE DEF e
  <2>3. \A c \in Clients : Done(c)' = Done(c)
    BY <2>1, <2>2 DEF Done, TypeOK
  <2>4. {f \in Events : applied'[f] > 0} = A \cup {e}
    BY <2>1 DEF TypeOK
  <2>5. IsFiniteSet(A \cup {e})
    BY FS_AddElement DEF VInv, DoneIsFinite
  <2> QED
    BY <1>1, <2>3, <2>4, <2>5 DEF DoneIsFinite
<1>4. Ignore(h) \/ applied' = applied
  BY DEF Step, RequestStep, Receive, Record, Misread, Reject, Load, Flush, FlushFails, Abort
<1> QED
  BY <1>2, <1>3, <1>4

LEMMA FinishDone ==
  ASSUME TypeOK, VInv, NEW h \in Requests, Finish(h)
  PROVE  /\ req[h].e \in Events /\ Message[req[h].e].client = Client(h)
         /\ \A c \in Clients : Done(c)' = IF c = Client(h) THEN Done(c) \cup {req[h].e} ELSE Done(c)
         /\ DoneIsFinite'
<1> DEFINE e == req[h].e
           A == {f \in Events : applied[f] > 0}
<1>1. applied' = [applied EXCEPT ![e] = @ + 1] /\ e \in Events
  BY JobType DEF Finish, Process, At
<1>2. Client(h) = Message[e].client
  BY DEF Client
<1> HIDE DEF e
<1>3. \A c \in Clients : Done(c)' = IF c = Client(h) THEN Done(c) \cup {e} ELSE Done(c)
  BY <1>1, <1>2 DEF Done, TypeOK
<1>4. {f \in Events : applied'[f] > 0} = A \cup {e}
  BY <1>1 DEF TypeOK
<1>5. IsFiniteSet(A \cup {e})
  BY FS_AddElement DEF VInv, DoneIsFinite
<1> QED
  BY <1>1, <1>2, <1>3, <1>4, <1>5 DEF DoneIsFinite, e

\* Write, column by column, over a row that is there.
LEMMA WriteColumns ==
  ASSUME NEW seen \in Row, NEW new \in Row, NEW current \in Row
  PROVE  LET out == Write(seen, new, current)
         IN /\ out.tier = IF seen.tier = new.tier THEN current.tier ELSE new.tier
            /\ out.status = IF seen.status = new.status THEN current.status ELSE new.status
            /\ out.sid = IF seen.sid = new.sid THEN current.sid ELSE new.sid
<1>1. seen # NoSub
  BY BillingAssumption
<1> QED
  BY <1>1 DEF Write

\* The row that a request writes is made of the events before and of its own.
LEMMA FinishMade ==
  ASSUME QInv, VInv, NEW h \in Requests, Finish(h)
  PROVE  LET c == Client(h)
             e == req[h].e
             E == Done(c) \cup {e}
             out == Write(req[h].seen, New(h), sub[c])
         IN /\ Made(c, E, out)
            /\ out # NoSub /\ (\E f \in E : IsUpsert(f)) =>
                 \E f \in E : IsUpsert(f) /\ out.tier = Tier(Message[f].product)
            /\ out # NoSub /\ (\E f \in E : Sets(f)) =>
                 \E f \in E : Sets(f) /\ out.status = StatusOf(Message[f])
<1> DEFINE c == Client(h)
           e == req[h].e
           m == Message[e]
           D == Done(c)
           seen == req[h].seen
           new == New(h)
           cur == sub[c]
           out == Write(seen, new, cur)
<1>1. req[h] # Rest /\ req[h].pc = "flushed" /\ TypeOK /\ SeenIsThere
  BY DEF Finish, At, QInv
<1>2. e \in Events /\ m.client = c /\ c \in Clients /\ m \in Payload
  BY <1>1, FinishDone, FinishRow, BillingAssumption
<1>3. /\ Made(c, D, cur) /\ WasTrue(c, D, seen)
      /\ cur # NoSub /\ (\E f \in D : IsUpsert(f)) =>
           \E f \in D : IsUpsert(f) /\ cur.tier = Tier(Message[f].product)
      /\ cur # NoSub /\ (\E f \in D : Sets(f)) =>
           \E f \in D : Sets(f) /\ cur.status = StatusOf(Message[f])
  BY <1>1, <1>2 DEF VInv, RowsAreMade, SeenWasTrue, TierIsGiven, StatusIsGiven
<1>4. /\ seen \in Row \cup {NoSub} /\ Consistent(seen)
      /\ new = Handled(m, seen)
      /\ new \in Row \cup {NoSub} /\ Consistent(new)
      /\ seen # NoSub => new \in Row /\ cur \in Row
      /\ cur \in Row \cup {NoSub} /\ Consistent(cur)
  <2>1. seen # NoSub => cur # NoSub
    BY <1>1 DEF SeenIsThere
  <2> QED
    BY <1>1, <1>3, <2>1, NewRow DEF Made, New
<1>5. Inserts(h) /\ Writes(h) => cur = NoSub
  BY <1>1 DEF VInv, ChangesApart, At
<1>6. NoSub \notin Row /\ \A f \in Events : IsUpsert(f) => Sets(f)
  BY BillingAssumption DEF IsUpsert, Sets, Upserts
<1>7. Inserts(h) <=> seen = NoSub /\ new # NoSub
  BY DEF Inserts
<1>8. Writes(h) <=> new # NoSub /\ (new # seen \/ m.type \in Cancels)
  BY DEF Writes
<1>9. D \subseteq Events /\ (IsUpsert(e) <=> m.type \in Upserts) /\ (Sets(e) <=> m.type # "other")
  BY DEF Done, IsUpsert, Sets
<1> SUFFICES /\ Made(c, D \cup {e}, out)
             /\ out # NoSub /\ (\E f \in D \cup {e} : IsUpsert(f)) =>
                  \E f \in D \cup {e} : IsUpsert(f) /\ out.tier = Tier(Message[f].product)
             /\ out # NoSub /\ (\E f \in D \cup {e} : Sets(f)) =>
                  \E f \in D \cup {e} : Sets(f) /\ out.status = StatusOf(Message[f])
  OBVIOUS
<1> DEFINE o == out
<1>10. o = Write(seen, new, cur)
  OBVIOUS
<1>11. m = Message[e]
  OBVIOUS
<1> HIDE DEF c, e, D, seen, new, cur, o
<1>12. CASE seen = NoSub /\ ~IsUpsert(e)
  <2>1. new = NoSub
    BY <1>2, <1>4, <1>9, <1>12, HandledAbsent
  <2>2. o = cur
    BY <1>10, <1>12, <2>1 DEF Write
  <2>3. First[c] = NoSub
    BY <1>3, <1>12 DEF WasTrue
  <2>4. cur # NoSub => \E f \in D : IsUpsert(f) /\ Sets(f)
    BY <1>3, <1>6, <1>9, <2>3 DEF Made
  <2>5. Numbered(c, D \cup {e}) <=> Numbered(c, D)
    BY <1>12 DEF Numbered
  <2>6. Made(c, D \cup {e}, cur)
    BY <1>3, <1>12, <2>3, <2>4, <2>5 DEF Made
  <2> QED
    BY <1>3, <2>2, <2>4, <2>6 DEF o
<1>13. CASE seen = NoSub /\ IsUpsert(e)
  <2>1. /\ new \in Row /\ new # NoSub
        /\ new.tier = Tier(m.product) /\ new.status = "active"
    BY <1>2, <1>4, <1>9, <1>13, HandledAbsent
  <2>2. cur = NoSub
    BY <1>5, <1>7, <1>8, <1>13, <2>1
  <2>3. o = new
    BY <1>10, <1>13, <2>1 DEF Write
  <2>4. Made(c, D \cup {e}, Handled(Message[e], cur))
    BY <1>2, <1>3, <1>11, MadeNext
  <2>5. Made(c, D \cup {e}, o)
    BY <1>4, <1>11, <1>13, <2>2, <2>3, <2>4
  <2>6. StatusOf(m) = "active" /\ Sets(e)
    BY <1>2, <1>6, <1>9, <1>13 DEF StatusOf, Upserts, Cancels
  <2> QED
    BY <1>13, <2>1, <2>3, <2>5, <2>6 DEF o
<1>14. CASE seen # NoSub
  <2>1. seen \in Row /\ new \in Row /\ cur \in Row
    BY <1>4, <1>14
  <2>2. /\ new.tier = IF IsUpsert(e) THEN Tier(m.product) ELSE seen.tier
        /\ new.status = IF Sets(e) THEN StatusOf(m) ELSE seen.status
        /\ new.sid = IF IsUpsert(e) /\ m.sid # NoSid THEN m.sid ELSE seen.sid
    <3>1. /\ new.tier = IF m.type \in Upserts THEN Tier(m.product) ELSE seen.tier
          /\ new.status = IF m.type = "other" THEN seen.status ELSE StatusOf(m)
          /\ new.sid = IF m.type \in Upserts /\ m.sid # NoSid THEN m.sid ELSE seen.sid
      BY <1>2, <1>4, <2>1, HandledColumns
    <3> QED
      BY <1>9, <3>1
  <2>3. /\ o.tier = IF seen.tier = new.tier THEN cur.tier ELSE new.tier
        /\ o.status = IF seen.status = new.status THEN cur.status ELSE new.status
        /\ o.sid = IF seen.sid = new.sid THEN cur.sid ELSE new.sid
    BY <1>10, <2>1, WriteColumns
  <2>4. o \in Row \cup {NoSub} /\ Consistent(o) /\ o # NoSub
    BY <1>4, <1>6, <1>10, <1>14, <2>1, WriteRow
  <2>5. cur # NoSub
    BY <1>6, <2>1
  <2>6. (\A f \in D : ~IsUpsert(f)) => seen.tier = First[c].tier /\ cur.tier = First[c].tier /\ First[c] # NoSub
    BY <1>3, <1>14, <2>5 DEF Made, WasTrue
  <2>7. (\A f \in D : ~Sets(f)) => seen.status = First[c].status /\ cur.status = First[c].status
    BY <1>3, <1>14, <2>5 DEF Made, WasTrue
  <2>8. ASSUME \E f \in D \cup {e} : IsUpsert(f)
        PROVE  \E f \in D \cup {e} : IsUpsert(f) /\ o.tier = Tier(Message[f].product)
    <3>1. CASE IsUpsert(e) /\ o.tier = Tier(m.product)
      BY <1>11, <3>1
    <3>2. CASE o.tier = cur.tier /\ \E f \in D : IsUpsert(f)
      BY <1>3, <2>5, <3>2
    <3>3. CASE IsUpsert(e) /\ o.tier = cur.tier /\ o.tier # Tier(m.product)
      BY <2>2, <2>3, <2>6, <3>2, <3>3
    <3> QED
      BY <2>2, <2>3, <2>8, <3>1, <3>2, <3>3
  <2>9. ASSUME \E f \in D \cup {e} : Sets(f)
        PROVE  \E f \in D \cup {e} : Sets(f) /\ o.status = StatusOf(Message[f])
    <3>1. CASE Sets(e) /\ o.status = StatusOf(m)
      BY <1>11, <3>1
    <3>2. CASE o.status = cur.status /\ \E f \in D : Sets(f)
      BY <1>3, <2>5, <3>2
    <3>3. CASE Sets(e) /\ o.status = cur.status /\ o.status # StatusOf(m)
      BY <2>2, <2>3, <2>7, <3>2, <3>3
    <3> QED
      BY <2>2, <2>3, <2>9, <3>1, <3>2, <3>3
  <2>10. (\A f \in D \cup {e} : ~IsUpsert(f)) => o.tier = First[c].tier /\ First[c] # NoSub
    BY <2>2, <2>3, <2>6
  <2>11. (\A f \in D \cup {e} : ~Sets(f)) => o.status = First[c].status
    BY <2>2, <2>3, <2>7
  <2>12. /\ Numbered(c, D) => cur.sid \in Numbers(c)
         /\ ~Numbered(c, D) => cur.sid = Blank(c)
         /\ seen.sid = Blank(c) \/ (Numbered(c, D) /\ seen.sid \in Numbers(c))
    BY <1>3, <1>14, <2>5 DEF Made, WasTrue
  <2>13. Numbered(c, D \cup {e}) <=> Numbered(c, D) \/ (IsUpsert(e) /\ m.sid # NoSid)
    BY <1>11 DEF Numbered
  <2>14. IsUpsert(e) /\ m.sid # NoSid => m.sid \in Numbers(c)
    BY <1>2, <1>11, GivenNumber
  <2>15. /\ Numbered(c, D \cup {e}) => o.sid \in Numbers(c)
         /\ ~Numbered(c, D \cup {e}) => o.sid = Blank(c)
    BY <2>2, <2>3, <2>12, <2>13, <2>14
  <2>16. Made(c, D \cup {e}, o)
    BY <2>4, <2>10, <2>11, <2>15 DEF Made
  <2> QED
    BY <2>8, <2>9, <2>16 DEF o
<1> QED
  BY <1>12, <1>13, <1>14

LEMMA VFinish ==
  ASSUME QInv, VInv, NEW h \in Requests, Finish(h)
  PROVE  VInv'
<1> DEFINE c == Client(h)
           e == req[h].e
           out == Write(req[h].seen, New(h), sub[c])
<1>1. /\ TypeOK /\ c \in Clients /\ req[h] # Rest /\ req[h].pc = "flushed"
      /\ sub' = [sub EXCEPT ![c] = out]
  BY FinishRow DEF QInv, Finish, At
<1>2. \A d \in Clients : sub'[d] = IF d = c THEN out ELSE sub[d]
  BY <1>1 DEF TypeOK
<1>3. \A d \in Clients : Done(d)' = IF d = c THEN Done(d) \cup {e} ELSE Done(d)
  BY <1>1, FinishDone
<1>4. DoneIsFinite'
  BY <1>1, FinishDone
<1>5. /\ Made(c, Done(c) \cup {e}, out)
      /\ out # NoSub /\ (\E f \in Done(c) \cup {e} : IsUpsert(f)) =>
           \E f \in Done(c) \cup {e} : IsUpsert(f) /\ out.tier = Tier(Message[f].product)
      /\ out # NoSub /\ (\E f \in Done(c) \cup {e} : Sets(f)) =>
           \E f \in Done(c) \cup {e} : Sets(f) /\ out.status = StatusOf(Message[f])
  BY FinishMade
<1>6. \A k \in Requests : req'[k] # Rest => k # h /\ req'[k] = req[k]
  BY <1>1 DEF Finish, Process, Commit, TypeOK
<1>7. ~Writes(h) => out = sub[c]
  <2>1. req[h].seen # NoSub => New(h) \in Row
    BY <1>1, NewRow DEF QInv
  <2>2. ~Writes(h) => New(h) = req[h].seen
    BY <2>1, BillingAssumption DEF Writes
  <2> QED
    BY <2>2 DEF Write
<1>8. RowsAreMade'
  <2> SUFFICES ASSUME NEW d \in Clients PROVE Made(d, Done(d)', sub'[d])
    BY DEF RowsAreMade, Made, Consistent, Numbered, Blank, IsUpsert, Sets, Numbers
  <2> HIDE DEF out, e, c
  <2> QED
    BY <1>2, <1>3, <1>5 DEF VInv, RowsAreMade
<1>9. TierIsGiven' /\ StatusIsGiven'
  <2> SUFFICES ASSUME NEW d \in Clients, sub'[d] # NoSub
               PROVE  /\ (\E f \in Done(d)' : IsUpsert(f)) =>
                           \E f \in Done(d)' : IsUpsert(f) /\ sub'[d].tier = Tier(Message[f].product)
                      /\ (\E f \in Done(d)' : Sets(f)) =>
                           \E f \in Done(d)' : Sets(f) /\ sub'[d].status = StatusOf(Message[f])
    BY DEF TierIsGiven, StatusIsGiven, IsUpsert, Sets
  <2> HIDE DEF out, e, c
  <2>1. CASE d = c
    BY <1>2, <1>3, <1>5, <2>1
  <2>2. CASE d # c
    BY <1>2, <1>3, <2>2 DEF VInv, TierIsGiven, StatusIsGiven
  <2> QED
    BY <2>1, <2>2
<1>10. SeenWasTrue'
  <2> SUFFICES ASSUME NEW k \in Requests, NEW d \in Clients, req'[k] # Rest,
                      req'[k].pc \in {"loaded", "flushed"}, Message[req'[k].e].client = d
               PROVE  WasTrue(d, Done(d)', req'[k].seen)
    BY DEF SeenWasTrue, Client, WasTrue, Numbered, Blank, Numbers, IsUpsert, Sets
  <2>1. req'[k] = req[k]
    BY <1>6
  <2>2. WasTrue(d, Done(d), req[k].seen)
    BY <1>6, <2>1 DEF VInv, SeenWasTrue, Client
  <2>3. Done(d) \subseteq Done(d)'
    BY <1>3
  <2> QED
    BY <2>1, <2>2, <2>3, WasTrueGrows
<1>11. ChangesApart'
  <2> SUFFICES ASSUME NEW k \in Requests, At(k, "flushed")', Writes(k)'
               PROVE  /\ \A j \in Requests : At(j, "flushed")' /\ Writes(j)' /\ Client(j)' = Client(k)' => j = k
                      /\ Inserts(k)' => sub'[Message[req'[k].e].client] = NoSub
    BY DEF ChangesApart, Client
  <2>1. \A j \in Requests : At(j, "flushed")' =>
          /\ At(j, "flushed") /\ j # h
          /\ Client(j)' = Client(j) /\ Message[req'[j].e].client = Client(j)
          /\ (Inserts(j)' <=> Inserts(j)) /\ (Writes(j)' <=> Writes(j))
    <3> SUFFICES ASSUME NEW j \in Requests, At(j, "flushed")'
                 PROVE  At(j, "flushed") /\ j # h /\ req'[j] = req[j]
      BY SameRequest DEF Client
    <3> QED
      BY <1>6 DEF At
  <2>2. Client(k) \in Clients
    BY <2>1 DEF QInv, SeenIsThere, At
  <2>3. sub'[Client(k)] = sub[Client(k)]
    <3>1. CASE Client(k) = c
      <4>1. ~Writes(h)
        BY <1>1, <2>1, <3>1 DEF VInv, ChangesApart, At
      <4> QED
        BY <1>2, <1>7, <2>2, <3>1, <4>1
    <3> QED
      BY <1>2, <2>2, <3>1
  <2> QED
    BY <2>1, <2>3 DEF VInv, ChangesApart
<1> QED
  BY <1>4, <1>8, <1>9, <1>10, <1>11 DEF VInv

LEMMA VOther ==
  ASSUME QInv, VInv, NEW h \in Requests, Step(h), ~Finish(h)
  PROVE  VInv'
<1>1. TypeOK /\ DoneIsFinite' /\ sub' = sub /\ \A d \in Clients : Done(d)' = Done(d)
  BY DoneStays DEF QInv
<1>2. RowsAreMade'
  <2> SUFFICES ASSUME NEW d \in Clients PROVE Made(d, Done(d)', sub'[d])
    BY DEF RowsAreMade, Made, Consistent, Numbered, Blank, IsUpsert, Sets, Numbers
  <2> QED
    BY <1>1 DEF VInv, RowsAreMade
<1>3. TierIsGiven' /\ StatusIsGiven'
  BY <1>1 DEF VInv, TierIsGiven, StatusIsGiven, IsUpsert, Sets
<1>4. SeenWasTrue'
  <2> SUFFICES ASSUME NEW k \in Requests, NEW d \in Clients, req'[k] # Rest,
                      req'[k].pc \in {"loaded", "flushed"}, Message[req'[k].e].client = d
               PROVE  WasTrue(d, Done(d)', req'[k].seen)
    BY DEF SeenWasTrue, Client, WasTrue, Numbered, Blank, Numbers, IsUpsert, Sets
  <2> SUFFICES WasTrue(d, Done(d), req'[k].seen)
    BY <1>1
  <2>1. CASE req'[k] = [pc |-> "loaded", e |-> req[k].e, seen |-> sub[Client(k)]]
    <3>1. req'[k].seen = sub[d]
      BY <2>1 DEF Client
    <3> QED
      BY <3>1, LoadedIsTrue DEF VInv, RowsAreMade
  <2>2. CASE /\ req[k] # Rest /\ req[k].pc \in {"loaded", "flushed"}
             /\ req'[k].e = req[k].e /\ req'[k].seen = req[k].seen
    BY <2>2 DEF Client, VInv, SeenWasTrue
  <2> QED
    BY <2>1, <2>2, SeenStep
<1>5. ChangesApart'
  <2> SUFFICES ASSUME NEW k \in Requests, At(k, "flushed")', Writes(k)'
               PROVE  /\ \A j \in Requests : At(j, "flushed")' /\ Writes(j)' /\ Client(j)' = Client(k)' => j = k
                      /\ Inserts(k)' => sub'[Message[req'[k].e].client] = NoSub
    BY DEF ChangesApart, Client
  <2>1. \A j \in Requests : At(j, "flushed")' =>
          /\ At(j, "flushed") \/ (Flush(h) /\ j = h)
          /\ Client(j)' = Client(j) /\ Message[req'[j].e].client = Client(j)
          /\ (Inserts(j)' <=> Inserts(j)) /\ (Writes(j)' <=> Writes(j))
    <3> SUFFICES ASSUME NEW j \in Requests, At(j, "flushed")'
                 PROVE  /\ At(j, "flushed") \/ (Flush(h) /\ j = h)
                        /\ req'[j].e = req[j].e /\ req'[j].seen = req[j].seen
      BY SameRequest DEF Client
    <3>1. req'[j] # Rest /\ req'[j].pc = "flushed"
      BY DEF At
    <3>2. CASE req[j] # Rest /\ req'[j] = req[j]
      BY <3>1, <3>2 DEF At
    <3>3. CASE /\ req[j] # Rest /\ req[j].pc = "loaded" /\ req'[j].pc = "flushed"
               /\ req'[j].e = req[j].e /\ req'[j].seen = req[j].seen
      <4>1. req'[j] # req[j]
        BY <3>3
      <4>2. j = h
        BY <1>1, <4>1 DEF Step, RequestStep, Receive, Record, Ignore, Misread, Reject, Load,
           Flush, FlushFails, Abort, Finish, Process, Commit, TypeOK
      <4>3. Flush(h)
        BY <1>1, <3>3, <4>2, JobType, LoadType DEF Step, RequestStep, Receive, Record, Ignore, Misread,
           Reject, Load, FlushFails, Abort, Process, Commit, TypeOK, Job, At, Rest
      <4> QED
        BY <3>3, <4>2, <4>3
    <3>4. \/ req[j] # Rest /\ req'[j] = req[j]
          \/ req'[j].pc = "checked" \/ req'[j].pc = "recorded"
          \/ req'[j] = [pc |-> "loaded", e |-> req[j].e, seen |-> sub[Client(j)]]
          \/ /\ req[j] # Rest /\ req[j].pc = "loaded" /\ req'[j].pc = "flushed"
             /\ req'[j].e = req[j].e /\ req'[j].seen = req[j].seen
      BY <3>1, SeenStep, Zenon
    <3> QED
      BY <3>1, <3>2, <3>3, <3>4
  <2>2. \A j \in Requests \ {h} : Flush(h) /\ Writes(h) /\ At(j, "flushed") /\ Writes(j) => Client(j) # Client(h)
    BY DEF Flush, Held
  <2>3. Flush(h) /\ Inserts(h) => sub[Client(h)] = NoSub
    BY DEF Flush, Refused
  <2>4. ~(At(h, "flushed") /\ Flush(h))
    BY DEF At, Flush
  <2> QED
    BY <1>1, <2>1, <2>2, <2>3, <2>4 DEF VInv, ChangesApart
<1> QED
  BY <1>1, <1>2, <1>3, <1>4, <1>5 DEF VInv

LEMMA VStutter == VInv /\ UNCHANGED vars => VInv'
  BY DEF VInv, vars, RowsAreMade, TierIsGiven, StatusIsGiven, SeenWasTrue, ChangesApart,
     DoneIsFinite, Made, Consistent, WasTrue, Numbered, Blank, Numbers, IsUpsert, Sets, Done,
     Client, At, Writes, Inserts, New

LEMMA MadeInvariant == Spec => []VInv
<1>1. QInv /\ VInv /\ [Next]_vars => VInv'
  BY VFinish, VOther, VStutter DEF Next, Step
<1> QED
  BY <1>1, VInit, QuotaInvariant, PTL DEF Spec

\* Whatever requests overlap and whatever is lost, the plan of a client is what the events
\* that were applied make of it in some order, and so is its whole row if the client has one
\* subscription number.
THEOREM OverlapsAreSerial == Spec => []Serial
<1>1. VInv => Serial
  BY SomeOrderExplains DEF Serial
<1> QED
  BY <1>1, MadeInvariant, PTL

-----------------------------------------------------------------------------
(* Stored with an error.                                                   *)

\* An event that is stored unprocessed was Misread: any other failure leaves no row.
FailedWasMisread ==
  \A e \in Events : event[e] = "failed" => Message[e].client = "malformed"

\* An event whose row is stored unprocessed is refused at every later delivery; that is the
\* lot of none that can be handled, so its repetitions are never in vain.
THEOREM SoundIsNotGivenUp == Spec => [](\A e \in Events : Sound(e) => event[e] # "failed")
<1>1. Init => FailedWasMisread
  BY DEF Init, FailedWasMisread
<1>2. TypeOK /\ FailedWasMisread /\ [Next]_vars => FailedWasMisread'
  <2> SUFFICES ASSUME TypeOK, FailedWasMisread, [Next]_vars PROVE FailedWasMisread'
    OBVIOUS
  <2>1. CASE UNCHANGED vars
    BY <2>1 DEF vars, FailedWasMisread
  <2>2. ASSUME NEW h \in Requests, Step(h) PROVE FailedWasMisread'
    <3>1. CASE Misread(h)
      BY <3>1, JobType DEF Misread, Commit, At, TypeOK, FailedWasMisread
    <3>2. CASE Ignore(h) \/ Finish(h)
      BY <3>2 DEF Ignore, Finish, Process, Commit, TypeOK, FailedWasMisread
    <3>3. CASE ~(Misread(h) \/ Ignore(h) \/ Finish(h))
      <4>1. event' = event
        BY <2>2, <3>3 DEF Step, RequestStep, Receive, Record, Reject, Load, Flush, FlushFails,
           Abort
      <4> QED
        BY <4>1 DEF FailedWasMisread
    <3> QED
      BY <3>1, <3>2, <3>3
  <2> QED
    BY <2>1, <2>2 DEF Next, Step
<1>3. FailedWasMisread => \A e \in Events : Sound(e) => event[e] # "failed"
  BY DEF FailedWasMisread, Sound
<1> QED
  BY <1>1, <1>2, <1>3, TypeCorrect, PTL DEF Spec
=============================================================================
