-------------------------- MODULE RefinementProofs --------------------------
(***************************************************************************)
(* The step simulation of PublicationRefinement, for one caller at a time  *)
(* and one worker, and any number of responses, clients, crashes and       *)
(* tokens.  Regeneration is not an operation of the life cycle.            *)
(***************************************************************************)
EXTENDS PublicationRefinement, PublicationProofs

\* What the instance PublicationOneWorker has too.
OneAtATime == OneWorker /\ (\A u, v \in Callers : u = v) /\ "regenerate" \notin Ops

(***************************************************************************)
(* With one caller and one worker, what was checked still holds at the     *)
(* commit: a request finds the status it asked for, a worker the one it    *)
(* left.                                                                   *)
(***************************************************************************)
Expected(u) ==
  LET r == req[u].r
  IN req[u] # Idle =>
       /\ req[u].op = "approve" => resp[r].status = "pending"
       /\ req[u].op = "cancel" => resp[r].status = "scheduled" /\ resp[r].undo > req[u].at
       /\ req[u].op = "delete" => resp[r].status = "published"

Left(w) ==
  LET r == wk[w].r
  IN wk[w] # Rest =>
       /\ wk[w].pc = "loaded" => resp[r].status = "scheduled"
       /\ wk[w].pc \in {"publishing", "answered"} => resp[r].status = "publishing"
       /\ wk[w].pc = "answered" /\ wk[w].answer = "ok" => google[r] # NoReply

RInv ==
  /\ IInv /\ SInv
  /\ \A u \in Callers : Expected(u)
  /\ \A w \in Workers : Left(w)

\* The mapped variables.
Phase == [r \in Responses |-> PhaseOf(resp[r].status)]
Until == [r \in Responses |-> resp[r].undo]

LEMMA PhaseMoves ==
  ASSUME NEW r \in Responses, NEW s,
         resp'[r].status = s, \A q \in Responses \ {r} : resp'[q].status = resp[q].status
  PROVE  Phase' = [Phase EXCEPT ![r] = PhaseOf(s)]
  BY DEF Phase

LEMMA Same ==
  ASSUME \A q \in Responses : resp'[q].status = resp[q].status
  PROVE  Phase' = Phase
  BY DEF Phase

-----------------------------------------------------------------------------
(* What a request does, when nothing moved between its check and its commit. *)

SameRows(S) ==
  \A q \in S : resp'[q].status = resp[q].status /\ resp'[q].undo = resp[q].undo

Approves(r) ==
  /\ resp[r].status = "pending" /\ resp'[r].status = "scheduled"
  /\ \E late \in 0 .. Latency : resp'[r].undo = now - late + Grace
  /\ SameRows(Responses \ {r}) /\ google' = google

Cancels(r) ==
  /\ resp[r].status = "scheduled" /\ resp'[r].status = "cancelled"
  /\ now < resp[r].undo + Latency /\ resp'[r].undo = resp[r].undo
  /\ SameRows(Responses \ {r}) /\ google' = google

Removes(r) ==
  /\ resp[r].status = "published"
  /\ resp' = resp /\ google' = [google EXCEPT ![r] = NoReply]

LEMMA FinishEffect ==
  ASSUME OneAtATime, RInv, NEW u \in Callers, Finish(u)
  PROVE  LET r == req[u].r IN
         /\ r \in Responses /\ UNCHANGED <<now, wk, puts>>
         /\ \/ req'[u] = Idle
            \/ resp' = resp /\ req'[u] # Idle /\ req'[u].r = r
               /\ req[u].op = "delete" /\ req'[u].op = "delete" /\ resp[r].status = "published"
         /\ \/ Approves(r) /\ ~OnItsWay(r)
            \/ Cancels(r) /\ ~OnItsWay(r)
            \/ Removes(r)
            \/ SameRows(Responses) /\ google' = google
<1> DEFINE r == req[u].r
<1>0. /\ TypeOK /\ req[u] # Idle /\ req[u] \in Request /\ r \in Responses
      /\ Current(u) \in Row /\ Current(u) = resp[r] /\ req[u].op # "regenerate"
  <2>1. CASE req[u].op \in Endpoints
    BY <2>1, BusyType, RequestType DEF RInv, IInv, Current, Endpoints, OneAtATime, Request
  <2>2. CASE Abandon(u)
    BY <2>2, RequestType DEF RInv, IInv, Abandon, Current, OneAtATime, Request
  <2> QED
    BY <2>1, <2>2 DEF Finish, CommitApprove, CommitCancel, CommitEdit, CommitRegenerate,
                      DeleteReply, CommitDelete, Endpoints
<1>1. /\ req[u].at \in Nat /\ now \in Nat /\ req[u].at <= now /\ now <= req[u].at + Latency
      /\ Latency \in Nat /\ Grace \in Nat
  BY <1>0, ConstantsAssumption DEF RInv, IInv, Recent, Request, TypeOK, Times
<1>2. resp \in [Responses -> Row] /\ google \in [Responses -> Texts \cup {NoReply}]
      /\ req \in [Callers -> Request \cup {Idle}]
  BY <1>0 DEF TypeOK
<1>3. ASSUME NEW op \in Endpoints, NEW row \in Row, Commit(u, op, row)
      PROVE  /\ req[u].op = op /\ resp'[r] = row /\ \A q \in Responses \ {r} : resp'[q] = resp[q]
             /\ req'[u] = Idle /\ UNCHANGED <<now, wk, puts, google>>
             /\ op \in {"approve", "cancel"} => ~OnItsWay(r)
  <2>1. req[u].op = op /\ UNCHANGED <<now, wk, puts, google>> /\ req'[u] = Idle
    BY <1>2, <1>3 DEF Commit
  <2>2. resp'[r] = row /\ \A q \in Responses \ {r} : resp'[q] = resp[q]
    BY <1>0, <1>2, <1>3 DEF Commit
  <2>3. op \in {"approve", "cancel"} => ~OnItsWay(r)
    BY <1>0, <2>1, NoneOpen DEF On, RInv
  <2> QED
    BY <2>1, <2>2, <2>3
<1>4. CASE CommitApprove(u)
  <2>1. PICK d \in MinDelay .. MaxDelay :
          Commit(u, "approve", [Current(u) EXCEPT !.status = "scheduled",
                                                  !.sched = req[u].at + d,
                                                  !.undo = req[u].at + Grace])
    BY <1>4 DEF CommitApprove
  <2> DEFINE row == [Current(u) EXCEPT !.status = "scheduled", !.sched = req[u].at + d,
                                       !.undo = req[u].at + Grace]
  <2>2. row.status = "scheduled" /\ row.undo = req[u].at + Grace /\ row \in Row
    <3>1. req[u].at + d \in Dues /\ req[u].at + Grace \in Dues
      BY <1>0, <1>1, ConstantsAssumption DEF Dues, Request, Times
    <3> QED
      BY <1>0, <3>1 DEF Row, Statuses
  <2>3. Commit(u, "approve", row)
    BY <2>1
  <2> HIDE DEF row
  <2>4. resp[r].status = "pending"
    BY <1>0, <1>3, <2>2, <2>3 DEF RInv, Expected, Endpoints
  <2>5. \E late \in 0 .. Latency : row.undo = now - late + Grace
    <3>1. now - req[u].at \in 0 .. Latency
      BY <1>1
    <3>2. row.undo = now - (now - req[u].at) + Grace
      BY <1>1, <2>2
    <3> QED
      BY <3>1, <3>2
  <2>6. Approves(r)
    BY <1>3, <2>2, <2>3, <2>4, <2>5 DEF Approves, SameRows, Endpoints
  <2> QED
    BY <1>0, <1>3, <2>2, <2>3, <2>6 DEF Endpoints
<1>5. CASE CommitCancel(u)
  <2> DEFINE row == [Current(u) EXCEPT !.status = "cancelled",
                               !.active = Column(req[u].seen.active, FALSE, @)]
  <2>1. row.status = "cancelled" /\ row.undo = resp[r].undo /\ row \in Row
    BY <1>0 DEF Row, Statuses, Column
  <2>2. Commit(u, "cancel", row)
    BY <1>5 DEF CommitCancel
  <2> HIDE DEF row
  <2>3. resp[r].status = "scheduled" /\ resp[r].undo > req[u].at
    BY <1>0, <1>3, <2>1, <2>2 DEF RInv, Expected, Endpoints
  <2>4. now < resp[r].undo + Latency
    BY <1>0, <1>1, <2>3, ConstantsAssumption DEF Row, Dues
  <2>5. Cancels(r)
    BY <1>3, <2>1, <2>2, <2>3, <2>4 DEF Cancels, SameRows, Endpoints
  <2> QED
    BY <1>0, <1>3, <2>1, <2>2, <2>5 DEF Endpoints
<1>6. ASSUME NEW op \in Endpoints, NEW row \in Row, Commit(u, op, row),
             row.status = resp[r].status, row.undo = resp[r].undo
      PROVE  SameRows(Responses) /\ google' = google /\ req'[u] = Idle /\ UNCHANGED <<now, wk, puts>>
  BY <1>0, <1>3, <1>6 DEF SameRows
<1>7. CASE CommitEdit(u)
  <2>1. PICK t \in Texts :
          Commit(u, "edit", [Current(u) EXCEPT !.text = Column(req[u].seen.text, t, @)])
    BY <1>7 DEF CommitEdit
  <2> DEFINE row == [Current(u) EXCEPT !.text = Column(req[u].seen.text, t, @)]
  <2>2. row.status = resp[r].status /\ row.undo = resp[r].undo /\ row \in Row
    BY <1>0 DEF Row, Column
  <2>3. Commit(u, "edit", row)
    BY <2>1
  <2> HIDE DEF row
  <2> QED
    BY <1>0, <1>6, <2>2, <2>3 DEF Endpoints
<1>8. CASE CommitDelete(u)
  <2> DEFINE row == [Current(u) EXCEPT !.deleted = TRUE,
               !.active = Column(req[u].seen.active, FALSE, @)]
  <2>1. row.status = resp[r].status /\ row.undo = resp[r].undo /\ row \in Row
    BY <1>0 DEF Row, Column
  <2>2. Commit(u, "delete", row)
    BY <1>8 DEF CommitDelete
  <2> HIDE DEF row
  <2> QED
    BY <1>0, <1>6, <2>1, <2>2 DEF Endpoints
<1>9. CASE DeleteReply(u)
  <2>1. /\ resp' = resp /\ UNCHANGED <<now, wk, puts>> /\ req[u].op = "delete"
        /\ resp[r].status = "published"
    BY <1>0, <1>9 DEF DeleteReply, RInv, Expected
  <2>2. google' = google \/ google' = [google EXCEPT ![r] = NoReply]
    BY <1>9 DEF DeleteReply
  <2>3. \/ req'[u] = Idle
        \/ req'[u] = [req[u] EXCEPT !.gone = TRUE]
    BY <1>0, <1>2, <1>9 DEF DeleteReply
  <2>4. [req[u] EXCEPT !.gone = TRUE].op = "delete" /\ [req[u] EXCEPT !.gone = TRUE].r = r
    BY <1>0, <2>1 DEF Request
  <2>5. \/ req'[u] = Idle
        \/ req'[u] # Idle /\ req'[u].r = r /\ req'[u].op = "delete"
    BY <2>3, <2>4 DEF Idle
  <2> QED
    BY <1>0, <2>1, <2>2, <2>5 DEF Removes, SameRows
<1>10. CASE Abandon(u)
  BY <1>0, <1>2, <1>10 DEF Abandon, SameRows
<1>11. ~CommitRegenerate(u)
  BY <1>0 DEF CommitRegenerate
<1> QED
  BY <1>4, <1>5, <1>7, <1>8, <1>9, <1>10, <1>11 DEF Finish

\* What a worker does to the reply it holds.
Sends(w, r) ==
  /\ resp' = resp /\ resp[r].status = "publishing" /\ google[r] = NoReply
  /\ \E t \in Texts : google' = [google EXCEPT ![r] = t]

Settles(w, r) ==
  /\ google' = google /\ wk'[w] = Rest
  /\ resp[r].status = "publishing" /\ resp'[r].undo = resp[r].undo
  /\ \/ resp'[r].status = "published" /\ google[r] # NoReply
     \/ resp'[r].status = "scheduled" /\ google[r] = NoReply
     \/ resp'[r].status = "failed"
  /\ SameRows(Responses \ {r})

Claims(w, r) ==
  /\ google' = google
  /\ resp[r].status = "scheduled" /\ resp[r].undo <= now
  /\ resp'[r].status = "publishing" /\ resp'[r].undo = resp[r].undo
  /\ SameRows(Responses \ {r})
  /\ wk'[w].pc = "publishing" /\ wk'[w].r = r

LEMMA WorkEffects ==
  ASSUME RInv, NEW w \in Workers, Work(w)
  PROVE  LET r == wk[w].r IN
         /\ wk[w] # Rest /\ r \in Responses /\ UNCHANGED <<now, req>>
         /\ \/ Claims(w, r)
            \/ /\ Sends(w, r) \/ (resp' = resp /\ google' = google)
               /\ \/ wk'[w] = Rest
                  \/ /\ resp[r].status = "publishing"
                     /\ wk'[w].pc = "answered" /\ wk'[w].r = r
                     /\ wk'[w].answer = "ok" => google'[r] # NoReply
            \/ /\ resp' = resp /\ google' = google /\ resp[r].status = "scheduled"
               /\ wk'[w].pc = "loaded" /\ wk'[w].r = r
            \/ Settles(w, r)
<1> DEFINE r == wk[w].r
<1>0. TypeOK /\ wk[w] # Rest
  BY AtWorkType DEF RInv, IInv, Work, Blocked, Allowed, Claim, CallGoogle, Publish, RollBack, Fail, Settled
<1>1. wk[w] \in Job /\ r \in Responses /\ resp[r] \in Row
  BY <1>0, JobType
<1>2. /\ resp \in [Responses -> Row] /\ wk \in [Workers -> Job \cup {Rest}]
      /\ google \in [Responses -> Texts \cup {NoReply}] /\ puts \in [Responses -> Nat]
  BY <1>0 DEF TypeOK
<1>3. /\ google[r] # NoReply => puts[r] > 0
      /\ wk[w].pc \in {"loaded", "publishing"} \/ wk[w].answer = "auth" => puts[r] = 0
      /\ wk[w].pc = "loaded" => resp[r].status = "scheduled"
      /\ wk[w].pc \in {"publishing", "answered"} => resp[r].status = "publishing"
      /\ wk[w].pc = "answered" /\ wk[w].answer = "ok" => google[r] # NoReply
  BY <1>0, <1>1 DEF RInv, IInv, SentText, SInv, Holds, Left
<1>4. ASSUME NEW s \in Statuses, resp' = [resp EXCEPT ![r].status = s]
      PROVE  /\ resp'[r].status = s /\ resp'[r].undo = resp[r].undo
             /\ SameRows(Responses \ {r})
  BY <1>1, <1>2, <1>4 DEF Row, SameRows
<1>5. CASE Blocked(w)
  BY <1>0, <1>1, <1>2, <1>5 DEF Blocked
<1>12. CASE Allowed(w)
  <2>1. wk'[w].pc = "loaded" /\ wk'[w].r = r
    BY <1>0, <1>1, <1>2, <1>12 DEF Allowed, Job
  <2>2. resp' = resp /\ google' = google /\ wk[w].pc = "loaded" /\ UNCHANGED <<now, req>>
    BY <1>12 DEF Allowed
  <2>3. resp[r].status = "scheduled"
    BY <1>3, <2>2
  <2> QED
    BY <1>0, <1>1, <2>1, <2>2, <2>3
<1>6. CASE Claim(w)
  <2>1. resp[r].undo <= now
    <3>1. OnItsWay(r)
      BY <1>0, <1>1 DEF OnItsWay, Held
    <3> QED
      BY <1>1, <3>1, NotEarly DEF RInv, NothingSentEarly
  <2>2. wk'[w].pc = "publishing" /\ wk'[w].r = r
    BY <1>0, <1>1, <1>2, <1>6 DEF Claim, Job
  <2> QED
    BY <1>0, <1>1, <1>3, <1>4, <1>6, <2>1, <2>2 DEF Claim, Claims, Statuses
<1>7. CASE CallGoogle(w)
  <2>1. /\ wk[w].pc = "publishing" /\ UNCHANGED <<resp, now, req>>
        /\ \/ Accepted(w) /\ Answered(w, "ok")
           \/ Accepted(w) /\ Answered(w, "error")
           \/ google' = google /\ (Answered(w, "auth") \/ Answered(w, "error"))
    BY <1>7 DEF CallGoogle
  <2>2. google[r] = NoReply /\ resp[r].status = "publishing"
    BY <1>2, <1>3, <2>1
  <2>3. ASSUME NEW a, Answered(w, a)
        PROVE  wk'[w].pc = "answered" /\ wk'[w].answer = a /\ wk'[w].r = r
    BY <1>0, <1>1, <1>2, <2>3 DEF Answered, Job
  <2>4. ASSUME Accepted(w)
        PROVE  Sends(w, r) /\ google'[r] # NoReply
    BY <1>1, <1>2, <2>1, <2>2, <2>4, ConstantsAssumption DEF Accepted, Sends, Job
  <2> QED
    BY <1>0, <1>1, <2>1, <2>2, <2>3, <2>4
<1>8. ASSUME NEW a, NEW s \in Statuses, Settled(w, a, s), UNCHANGED <<now, req, google>>,
             \/ a = "ok" /\ s = "published"
             \/ a = "auth" /\ s = "scheduled"
             \/ a = "error" /\ s = "failed"
      PROVE  Settles(w, r)
  <2>1. wk[w].pc = "answered" /\ wk[w].answer = a /\ wk'[w] = Rest
    BY <1>2, <1>8 DEF Settled
  <2>2. google[r] # NoReply \/ a # "ok"
    BY <1>3, <2>1
  <2>3. google[r] = NoReply \/ a # "auth"
    BY <1>2, <1>3, <2>1
  <2> QED
    BY <1>3, <1>4, <1>8, <2>1, <2>2, <2>3 DEF Settled, Settles
<1>9. CASE Publish(w)
  BY <1>0, <1>1, <1>8, <1>9 DEF Publish, Statuses
<1>10. CASE RollBack(w)
  BY <1>0, <1>1, <1>8, <1>10 DEF RollBack, Statuses
<1>11. CASE Fail(w)
  BY <1>0, <1>1, <1>8, <1>11 DEF Fail, Statuses
<1> QED
  BY <1>5, <1>6, <1>7, <1>9, <1>10, <1>11, <1>12 DEF Work

-----------------------------------------------------------------------------
(* What was checked still holds.                                           *)

\* A step that leaves the replies on their way alone leaves the worker's alone.
LEMMA LeftKept ==
  ASSUME RInv, UNCHANGED wk,
         \A r \in Responses : OnItsWay(r) =>
           resp'[r].status = resp[r].status
           /\ (google'[r] = google[r] \/ resp[r].status = "published")
  PROVE  \A w \in Workers : Left(w)'
<1> SUFFICES ASSUME NEW w \in Workers, wk[w] # Rest PROVE Left(w)'
  BY DEF Left, Rest
<1>1. wk[w].r \in Responses /\ OnItsWay(wk[w].r)
  BY JobType DEF RInv, IInv, OnItsWay, Held
<1> QED
  BY <1>1 DEF RInv, Left

LEMMA FinishKeeps ==
  ASSUME OneAtATime, RInv, NEW u \in Callers, Finish(u)
  PROVE  (\A v \in Callers : Expected(v)') /\ (\A w \in Workers : Left(w)')
<1> DEFINE r == req[u].r
<1>1. \A v \in Callers : v = u
  BY DEF OneAtATime
<1>2. Expected(u)'
  <2>1. \/ req'[u] = Idle
        \/ resp' = resp /\ req'[u].r = r /\ req'[u].op = "delete" /\ resp[r].status = "published"
    BY FinishEffect
  <2> QED
    BY <2>1 DEF Expected
<1>3. \A w \in Workers : Left(w)'
  <2> SUFFICES ASSUME NEW q \in Responses, OnItsWay(q)
               PROVE  /\ resp'[q].status = resp[q].status
                      /\ google'[q] = google[q] \/ resp[q].status = "published"
    BY FinishEffect, LeftKept
  <2>1. r \in Responses /\ google \in [Responses -> Texts \cup {NoReply}]
    BY FinishEffect DEF RInv, IInv, TypeOK
  <2> QED
    BY <2>1, FinishEffect DEF Approves, Cancels, Removes, SameRows
<1> QED
  BY <1>1, <1>2, <1>3

LEMMA ReceiveKeeps ==
  ASSUME OneAtATime, RInv, NEW u \in Callers, NEW op \in Ops, NEW r \in Responses,
         Receive(u, op, r)
  PROVE  (\A v \in Callers : Expected(v)') /\ (\A w \in Workers : Left(w)')
<1>1. \A v \in Callers : v = u
  BY DEF OneAtATime
<1>2. /\ req'[u].op = op /\ req'[u].r = r /\ req'[u].at = now /\ UNCHANGED <<resp, google, wk>>
  BY DEF Receive, RInv, IInv, TypeOK
<1>3. /\ op = "approve" => resp[r].status = "pending"
      /\ op = "cancel" => resp[r].status = "scheduled" /\ resp[r].undo > now
      /\ op = "delete" => resp[r].status = "published"
  BY DEF Receive, Admits
<1>4. Expected(u)'
  BY <1>2, <1>3 DEF Expected
<1> QED
  BY <1>1, <1>2, <1>4, LeftKept

\* A request waits for a status that no reply in the hands of a worker has.
LEMMA WorkKeeps ==
  ASSUME OneAtATime, RInv, NEW w \in Workers, Work(w)
  PROVE  (\A v \in Callers : Expected(v)') /\ (\A v \in Workers : Left(v)')
<1> DEFINE r == wk[w].r
<1>0. \A v \in Workers : v = w
  BY DEF OneAtATime, OneWorker
<1>1. r \in Responses /\ UNCHANGED req /\ wk[w] # Rest /\ OnItsWay(r)
  BY WorkEffects DEF OnItsWay, Held
<1>2. /\ \A q \in Responses \ {r} : resp'[q].status = resp[q].status /\ resp'[q].undo = resp[q].undo
      /\ resp' = resp \/ resp[r].status \in {"scheduled", "publishing"}
  BY WorkEffects DEF Claims, Sends, Settles, SameRows
<1>3. ASSUME NEW v \in Callers PROVE Expected(v)'
  <2>1. CASE req[v] = Idle
    BY <1>1, <2>1 DEF Expected
  <2>2. CASE req[v] # Idle /\ req[v].r = r
    <3>1. req[v].op # "cancel"
      BY <1>1, <2>2, NoneOpen DEF RInv, On
    <3> QED
      BY <1>1, <1>2, <2>2, <3>1 DEF RInv, Expected
  <2>3. CASE req[v] # Idle /\ req[v].r # r
    <3>1. req[v].r \in Responses
      BY <2>3, RequestType DEF RInv, IInv
    <3> QED
      BY <1>1, <1>2, <2>3, <3>1 DEF RInv, Expected
  <2> QED
    BY <2>1, <2>2, <2>3
<1>4. Left(w)'
  <2>1. CASE Claims(w, r)
    BY <2>1 DEF Claims, Left
  <2>2. CASE wk'[w] = Rest
    BY <2>2 DEF Left
  <2>3. CASE /\ Sends(w, r) \/ (resp' = resp /\ google' = google)
             /\ resp[r].status = "publishing" /\ wk'[w].pc = "answered" /\ wk'[w].r = r
             /\ wk'[w].answer = "ok" => google'[r] # NoReply
    BY <2>3 DEF Sends, Left
  <2>4. CASE /\ resp' = resp /\ resp[r].status = "scheduled"
             /\ wk'[w].pc = "loaded" /\ wk'[w].r = r
    BY <2>4 DEF Left
  <2> QED
    BY <2>1, <2>2, <2>3, <2>4, WorkEffects DEF Settles
<1> QED
  BY <1>0, <1>3, <1>4

LEMMA OtherKeeps ==
  ASSUME OneAtATime, RInv,
         \/ \E w \in Workers : Crash(w) \/ \E r \in Responses : Deliver(w, r)
         \/ Dispatch \/ Tick \/ (\E c \in Clients : Withdraw(c) \/ Reauthorise(c))
         \/ UNCHANGED vars
  PROVE  (\A v \in Callers : Expected(v)') /\ (\A w \in Workers : Left(w)')
<1>1. UNCHANGED <<req, resp, google>>
  BY DEF Crash, Deliver, Dispatch, Tick, Withdraw, Reauthorise, vars
<1>2. \A v \in Callers : Expected(v)'
  BY <1>1 DEF RInv, Expected
<1>3. ASSUME NEW w \in Workers, NEW r \in Responses, Deliver(w, r)
      PROVE  \A v \in Workers : Left(v)'
  <2>1. \A v \in Workers : v = w
    BY DEF OneAtATime, OneWorker
  <2>2. \/ wk'[w] = Rest
        \/ resp[r].status = "scheduled" /\ wk'[w].r = r /\ wk'[w].pc = "loaded"
    BY <1>3, DeliverEffect DEF RInv, IInv
  <2> QED
    BY <1>1, <2>1, <2>2 DEF Left
<1>4. ASSUME NEW w \in Workers, Crash(w) PROVE \A v \in Workers : Left(v)'
  <2>1. \A v \in Workers : v = w
    BY DEF OneAtATime, OneWorker
  <2>2. wk'[w] = Rest
    BY <1>4, CrashEffect DEF RInv, IInv
  <2> QED
    BY <2>1, <2>2 DEF Left
<1>5. ASSUME UNCHANGED wk PROVE \A v \in Workers : Left(v)'
  BY <1>1, <1>5, LeftKept
<1> QED
  BY <1>2, <1>3, <1>4, <1>5 DEF Dispatch, Tick, Withdraw, Reauthorise, vars

LEMMA RefinementInvariant == ASSUME OneAtATime PROVE Spec => []RInv
<1>1. Init => RInv
  <2> SUFFICES ASSUME Init PROVE RInv
    OBVIOUS
  <2>1. IInv /\ SInv
    BY InitInv, InitSingle
  <2>2. (\A u \in Callers : req[u] = Idle) /\ (\A w \in Workers : wk[w] = Rest)
    BY DEF Init
  <2> QED
    BY <2>1, <2>2 DEF RInv, Expected, Left
<1>2. RInv /\ [Next]_vars => RInv'
  <2> SUFFICES ASSUME RInv, [Next]_vars PROVE RInv'
    OBVIOUS
  <2>1. IInv' /\ SInv'
    BY NextInv, AcceptedStep, SingleStep DEF RInv, SInv, OneAtATime
  <2>2. (\A v \in Callers : Expected(v)') /\ (\A w \in Workers : Left(w)')
    BY FinishKeeps, ReceiveKeeps, WorkKeeps, OtherKeeps DEF Next
  <2> QED
    BY <2>1, <2>2 DEF RInv
<1> QED
  BY <1>1, <1>2, PTL DEF Spec

-----------------------------------------------------------------------------
(* The simulation.                                                         *)

LEMMA StartMapped == Init => Doc!Start
<1> SUFFICES ASSUME Init PROVE Doc!Start
  OBVIOUS
<1>1. now = 0 /\ google = [r \in Responses |-> NoReply]
  BY DEF Init
<1>2. \A r \in Responses : resp[r].status = "pending" /\ resp[r].undo = -1
  BY DEF Init, NoTime
<1> QED
  BY <1>1, <1>2 DEF Doc!Start, PhaseOf

LEMMA SameMapped ==
  ASSUME SameRows(Responses), UNCHANGED <<now, google>>
  PROVE  UNCHANGED Doc!lifecycle
  BY DEF SameRows, Doc!lifecycle

LEMMA UntilKept ==
  ASSUME NEW r \in Responses, SameRows(Responses \ {r}), resp'[r].undo = resp[r].undo
  PROVE  Until' = Until
  BY DEF SameRows, Until

LEMMA FinishMapped ==
  ASSUME OneAtATime, RInv, NEW u \in Callers, Finish(u)
  PROVE  Doc!Step \/ UNCHANGED Doc!lifecycle
<1> DEFINE r == req[u].r
<1>1. r \in Responses /\ UNCHANGED now
  BY FinishEffect
<1> HIDE DEF r
<1>2. CASE Approves(r)
  <2>1. Phase' = [Phase EXCEPT ![r] = PhaseOf("scheduled")]
    BY <1>1, <1>2, PhaseMoves DEF Approves, SameRows
  <2>2. \E late \in 0 .. Latency : Until' = [Until EXCEPT ![r] = now - late + Grace]
    <3>1. PICK late \in 0 .. Latency : resp'[r].undo = now - late + Grace
      BY <1>2 DEF Approves
    <3>2. Until' = [Until EXCEPT ![r] = now - late + Grace]
      BY <1>1, <1>2, <3>1 DEF Approves, SameRows, Until
    <3> QED
      BY <3>2
  <2>3. resp[r].status = "pending" /\ google' = google
    BY <1>2 DEF Approves
  <2> QED
    BY <1>1, <2>1, <2>2, <2>3 DEF Doc!Step, Doc!Approve, Doc!Move, Phase, Until, PhaseOf
<1>3. CASE Cancels(r)
  <2>1. Phase' = [Phase EXCEPT ![r] = PhaseOf("cancelled")] /\ Until' = Until
    BY <1>1, <1>3, PhaseMoves, UntilKept DEF Cancels, SameRows
  <2>2. resp[r].status = "scheduled" /\ google' = google /\ now < resp[r].undo + Latency
    BY <1>3 DEF Cancels
  <2>3. Doc!Cancel(r)
    BY <1>1, <2>1, <2>2 DEF Doc!Cancel, Doc!Move, Phase, Until, PhaseOf
  <2> QED
    BY <1>1, <2>3 DEF Doc!Step
<1>4. CASE Removes(r)
  <2>1. Doc!Remove(r)
    BY <1>1, <1>4 DEF Removes, Doc!Remove, PhaseOf
  <2> QED
    BY <1>1, <2>1 DEF Doc!Step
<1> QED
  BY <1>1, <1>2, <1>3, <1>4, FinishEffect, SameMapped DEF r

LEMMA WorkMapped ==
  ASSUME RInv, NEW w \in Workers, Work(w)
  PROVE  Doc!Step \/ UNCHANGED Doc!lifecycle
<1> DEFINE r == wk[w].r
<1>1. r \in Responses /\ UNCHANGED now
  BY WorkEffects
<1>2. \/ Claims(w, r) \/ Sends(w, r) \/ Settles(w, r) \/ (resp' = resp /\ google' = google)
  BY WorkEffects
<1> HIDE DEF r
<1>3. CASE Claims(w, r)
  <2>1. Phase' = [Phase EXCEPT ![r] = PhaseOf("publishing")] /\ Until' = Until
    BY <1>1, <1>3, PhaseMoves, UntilKept DEF Claims, SameRows
  <2>2. resp[r].status = "scheduled" /\ google' = google /\ resp[r].undo <= now
    BY <1>3 DEF Claims
  <2>3. Doc!Send(r)
    BY <1>1, <2>1, <2>2 DEF Doc!Send, Doc!Move, Phase, Until, PhaseOf
  <2> QED
    BY <1>1, <2>3 DEF Doc!Step
<1>4. CASE Sends(w, r)
  <2>1. Doc!Show(r)
    BY <1>1, <1>4 DEF Sends, Doc!Show, PhaseOf
  <2> QED
    BY <1>1, <2>1 DEF Doc!Step
<1>5. CASE Settles(w, r)
  <2>1. Until' = Until /\ resp[r].status = "publishing" /\ google' = google
    BY <1>1, <1>5, UntilKept DEF Settles
  <2>2. CASE resp'[r].status = "published" /\ google[r] # NoReply
    <3>1. Phase' = [Phase EXCEPT ![r] = PhaseOf("published")]
      BY <1>1, <1>5, <2>2, PhaseMoves DEF Settles, SameRows
    <3>2. Doc!Confirm(r)
      BY <1>1, <2>1, <2>2, <3>1 DEF Doc!Confirm, Doc!Move, Phase, Until, PhaseOf
    <3> QED
      BY <1>1, <3>2 DEF Doc!Step
  <2>3. CASE resp'[r].status = "scheduled" /\ google[r] = NoReply
    <3>1. Phase' = [Phase EXCEPT ![r] = PhaseOf("scheduled")]
      BY <1>1, <1>5, <2>3, PhaseMoves DEF Settles, SameRows
    <3>2. Doc!Return(r)
      BY <1>1, <2>1, <2>3, <3>1 DEF Doc!Return, Doc!Move, Phase, Until, PhaseOf
    <3> QED
      BY <1>1, <3>2 DEF Doc!Step
  <2>4. CASE resp'[r].status = "failed"
    <3>1. Phase' = [Phase EXCEPT ![r] = PhaseOf("failed")]
      BY <1>1, <1>5, <2>4, PhaseMoves DEF Settles, SameRows
    <3>2. Doc!GiveUp(r)
      BY <1>1, <2>1, <2>4, <3>1 DEF Doc!GiveUp, Doc!Move, Phase, Until, PhaseOf
    <3> QED
      BY <1>1, <3>2 DEF Doc!Step
  <2> QED
    BY <1>5, <2>2, <2>3, <2>4 DEF Settles
<1>6. CASE resp' = resp /\ google' = google
  BY <1>1, <1>6, SameMapped DEF SameRows
<1> QED
  BY <1>2, <1>3, <1>4, <1>5, <1>6

LEMMA StepMapped ==
  ASSUME OneAtATime, RInv, [Next]_vars
  PROVE  [Doc!Step]_(Doc!lifecycle)
<1>1. CASE Tick
  BY <1>1 DEF Tick, Doc!Pass, Doc!Step
<1>2. ASSUME UNCHANGED <<resp, google, now>> PROVE UNCHANGED Doc!lifecycle
  BY <1>2, SameMapped DEF SameRows
<1>3. ASSUME \/ \E u \in Callers, op \in Ops, r \in Responses : Receive(u, op, r)
             \/ Dispatch
             \/ \E w \in Workers : Crash(w) \/ \E r \in Responses : Deliver(w, r)
             \/ \E c \in Clients : Withdraw(c) \/ Reauthorise(c)
             \/ UNCHANGED vars
      PROVE  UNCHANGED <<resp, google, now>>
  BY <1>3 DEF Receive, Dispatch, Crash, Deliver, Withdraw, Reauthorise, vars
<1> QED
  BY <1>1, <1>2, <1>3, FinishMapped, WorkMapped DEF Next

\* With one caller at a time and one worker, publication implements the life cycle of a
\* reply: nothing is cancelled after its window, sent before it or shown twice, and the
\* outcome recorded is the outcome at Google, for any crashes and lost authorisations.
THEOREM OneAtATimeImplements == ASSUME OneAtATime PROVE Spec => LifecycleHolds
<1>1. RInv /\ [Next]_vars => [Doc!Step]_(Doc!lifecycle)
  BY StepMapped
<1> QED
  BY <1>1, StartMapped, RefinementInvariant, PTL DEF Spec, LifecycleHolds, Doc!Lifecycle
=============================================================================
