------------------------- MODULE PublicationProofs -------------------------
(***************************************************************************)
(* Proofs about Publication, for any number of responses, clients, callers *)
(* and workers, any crashes, and any delays that meet TimingAssumption.    *)
(***************************************************************************)
EXTENDS Publication, TLAPS

(***************************************************************************)
(* NothingSentEarly and CancelStopsReply are not inductive: a request that *)
(* has passed its check may still commit, and what it commits must not     *)
(* meet a reply that is on its way.  The invariant below says how far the  *)
(* due date lies beyond the moment such a request read the clock.          *)
(***************************************************************************)

On(u, ops, r) == req[u] # Idle /\ req[u].op \in ops /\ req[u].r = r

\* A request in progress read the clock at most Latency ago.
Recent ==
  \A u \in Callers : req[u] # Idle => req[u].at <= now /\ now <= req[u].at + Latency

\* A row has both dates or none, and the due date lies beyond the undo window.
Dated ==
  \A r \in Responses :
    /\ resp[r].sched = NoTime => resp[r].undo = NoTime
    /\ resp[r].sched # NoTime => resp[r].sched >= resp[r].undo - Grace + MinDelay
    /\ resp[r].status = "pending" => resp[r].sched = NoTime
    /\ resp[r].status \in {"scheduled", "cancelled"} => resp[r].sched # NoTime

\* An approval or an edit in progress saw the row before any date was set, or
\* before an approval that overlaps it.
OpenDecisions ==
  \A u \in Callers, r \in Responses :
    On(u, {"approve", "edit"}, r) =>
      \/ resp[r].sched = NoTime
      \/ resp[r].sched >= req[u].at + MinDelay - Latency

\* A cancellation in progress saw an undo window that was still open.
OpenCancels ==
  \A u \in Callers, r \in Responses :
    On(u, {"cancel"}, r) =>
      /\ resp[r].sched # NoTime
      /\ resp[r].sched > req[u].at - Grace + MinDelay - Latency

\* What is on its way is due.
SentIsDue ==
  \A r \in Responses : OnItsWay(r) => resp[r].sched # NoTime /\ resp[r].sched <= now

\* Workers hold the text of the row, and so does Google.
SentText ==
  /\ \A w \in Workers : wk[w] # Rest => wk[w].text = resp[wk[w].r].text
  /\ \A r \in Responses : google[r] # NoReply => puts[r] > 0

IInv ==
  /\ TypeOK /\ Recent /\ Dated /\ OpenDecisions /\ OpenCancels /\ SentIsDue
  /\ CancelStopsReply /\ SentText /\ ShownTextIsRowText

-----------------------------------------------------------------------------
(* Type correctness.                                                       *)

LEMMA LeastType == ASSUME NEW a \in Nat, NEW b \in Nat
                   PROVE  Least(a, b) \in 0 .. b /\ Least(a, b) \in Nat
  BY DEF Least

LEMMA EnqueueType == ASSUME NEW n \in 0 .. QueueBound
                     PROVE  Enqueue(n) \in 0 .. QueueBound
  BY LeastType, ConstantsAssumption DEF Enqueue

\* A request in progress has the fields its endpoint reads.
LEMMA RequestType ==
  ASSUME TypeOK, NEW u \in Callers, req[u] # Idle
  PROVE  req[u] \in Request /\ req[u].r \in Responses /\ resp[req[u].r] \in Row
  BY DEF TypeOK, Request

LEMMA BusyType ==
  ASSUME TypeOK, NEW u \in Callers, req[u].op # "none"
  PROVE  req[u] # Idle
  BY DEF Idle

LEMMA JobType ==
  ASSUME TypeOK, NEW w \in Workers, wk[w] # Rest
  PROVE  /\ wk[w] \in Job /\ wk[w].r \in Responses
         /\ ClientOf[wk[w].r] \in Clients /\ resp[wk[w].r] \in Row
  BY ConstantsAssumption DEF TypeOK, Job

LEMMA AtWorkType ==
  ASSUME TypeOK, NEW w \in Workers, wk[w].pc # "rest"
  PROVE  wk[w] # Rest
  BY DEF Rest

\* A commit writes a row in the place of the one its request loaded.
LEMMA CommitType ==
  ASSUME TypeOK, NEW u \in Callers, NEW op \in Endpoints, NEW row \in Row,
         Commit(u, op, row)
  PROVE  TypeOK'
  BY DEF TypeOK, Commit

THEOREM InitType == Init => TypeOK
<1> SUFFICES ASSUME Init PROVE TypeOK
  OBVIOUS
<1>1. resp \in [Responses -> Row]
  BY DEF Init
<1>2. queue \in [Responses -> 0 .. QueueBound] /\ now \in Times /\ crashes \in 0 .. MaxCrashes
  BY ConstantsAssumption DEF Init, Times
<1>3. cred \in [Clients -> [status: {"active", "revoked"}, token: Tokens]]
  BY ConstantsAssumption DEF Init, Tokens
<1>4. granted \in [Clients -> 0 .. MaxTokens]
  BY ConstantsAssumption DEF Init
<1>5. /\ done \subseteq Responses /\ req \in [Callers -> Request \cup {Idle}]
      /\ wk \in [Workers -> Job \cup {Rest}]
  BY DEF Init
<1>6. google \in [Responses -> Texts \cup {NoReply}] /\ puts \in [Responses -> Nat]
  BY DEF Init
<1> QED
  BY <1>1, <1>2, <1>3, <1>4, <1>5, <1>6 DEF TypeOK

\* The steps of one request.
LEMMA FinishType ==
  ASSUME TypeOK, NEW u \in Callers, Finish(u)
  PROVE  TypeOK'
<1>1. CASE CommitApprove(u)
  <2>1. PICK d \in MinDelay .. MaxDelay :
          Commit(u, "approve", [Current(u) EXCEPT !.status = "scheduled",
                                                  !.sched = req[u].at + d,
                                                  !.undo = req[u].at + Grace])
    BY <1>1 DEF CommitApprove
  <2>2. req[u] \in Request /\ Current(u) \in Row
    BY <1>1, BusyType, RequestType DEF CommitApprove, Current
  <2>3. req[u].at + d \in Dues /\ req[u].at + Grace \in Dues
    BY <2>2, ConstantsAssumption DEF Request, Times, Dues
  <2>4. [Current(u) EXCEPT !.status = "scheduled", !.sched = req[u].at + d,
                           !.undo = req[u].at + Grace] \in Row
    BY <2>2, <2>3 DEF Row, Statuses
  <2> QED
    BY <2>1, <2>4, CommitType DEF Endpoints
<1>2. CASE CommitCancel(u)
  <2>1. req[u] \in Request /\ Current(u) \in Row
    BY <1>2, BusyType, RequestType DEF CommitCancel, Current
  <2>2. [Current(u) EXCEPT !.status = "cancelled",
                           !.active = Column(req[u].seen.active, FALSE, @)] \in Row
    BY <2>1 DEF Row, Statuses, Column
  <2> QED
    BY <1>2, <2>2, CommitType DEF Endpoints, CommitCancel
<1>3. CASE CommitEdit(u)
  <2>1. PICK t \in Texts :
          Commit(u, "edit", [Current(u) EXCEPT !.text = Column(req[u].seen.text, t, @)])
    BY <1>3 DEF CommitEdit
  <2>2. req[u] \in Request /\ Current(u) \in Row
    BY <1>3, BusyType, RequestType DEF CommitEdit, Current
  <2>3. [Current(u) EXCEPT !.text = Column(req[u].seen.text, t, @)] \in Row
    BY <2>2 DEF Row, Column
  <2> QED
    BY <2>1, <2>3, CommitType DEF Endpoints
<1>4. CASE CommitRegenerate(u)
  <2>1. req[u] \in Request /\ Current(u) \in Row
    BY <1>4, BusyType, RequestType DEF CommitRegenerate, Current
  <2>2. [Current(u) EXCEPT !.status = Column(req[u].seen.status, "superseded", @),
                           !.active = Column(req[u].seen.active, FALSE, @)] \in Row
    BY <2>1 DEF Row, Statuses, Column
  <2> QED
    BY <1>4, <2>2, CommitType DEF Endpoints, CommitRegenerate
<1>5. CASE DeleteReply(u)
  <2>1. req[u] \in Request
    BY <1>5, BusyType, RequestType DEF DeleteReply
  <2>2. [req[u] EXCEPT !.gone = TRUE] \in Request
    BY <2>1 DEF Request
  <2>3. req' \in [Callers -> Request \cup {Idle}]
    BY <1>5, <2>2 DEF DeleteReply, TypeOK
  <2>4. google' \in [Responses -> Texts \cup {NoReply}]
    BY <1>5, <2>1 DEF DeleteReply, TypeOK, Request
  <2> QED
    BY <1>5, <2>3, <2>4 DEF DeleteReply, TypeOK
<1>6. CASE CommitDelete(u)
  <2>1. req[u] \in Request /\ Current(u) \in Row
    BY <1>6, BusyType, RequestType DEF CommitDelete, Current
  <2>2. [Current(u) EXCEPT !.deleted = TRUE,
                           !.active = Column(req[u].seen.active, FALSE, @)] \in Row
    BY <2>1 DEF Row, Column
  <2> QED
    BY <1>6, <2>2, CommitType DEF Endpoints, CommitDelete
<1>7. CASE Abandon(u)
  BY <1>7 DEF Abandon, TypeOK
<1> QED
  BY <1>1, <1>2, <1>3, <1>4, <1>5, <1>6, <1>7 DEF Finish

LEMMA ReceiveType ==
  ASSUME TypeOK, NEW u \in Callers, NEW op \in Ops, NEW r \in Responses,
         Receive(u, op, r)
  PROVE  TypeOK'
<1>1. [op |-> op, r |-> r, at |-> now,
       seen |-> [status |-> resp[r].status, active |-> resp[r].active,
                 text |-> resp[r].text],
       token |-> cred[ClientOf[r]].token, gone |-> FALSE] \in Request
  <2>1. resp[r] \in Row /\ ClientOf[r] \in Clients /\ now \in Times
    BY ConstantsAssumption DEF TypeOK
  <2>2. cred[ClientOf[r]].token \in Tokens
    BY <2>1 DEF TypeOK
  <2> QED
    BY <2>1, <2>2 DEF Request, Row, Seen
<1> QED
  BY <1>1 DEF Receive, TypeOK

\* The steps of one worker.
LEMMA WorkType ==
  ASSUME TypeOK, NEW w \in Workers, Work(w)
  PROVE  TypeOK'
<1>0. /\ wk[w] \in Job /\ wk[w].r \in Responses
      /\ ClientOf[wk[w].r] \in Clients /\ resp[wk[w].r] \in Row
  <2>1. wk[w].pc # "rest"
    BY DEF Work, Blocked, Allowed, Claim, CallGoogle, Publish, RollBack, Fail, Settled
  <2> QED
    BY <2>1, AtWorkType, JobType
<1>1. CASE Blocked(w)
  BY <1>1 DEF Blocked, TypeOK
<1>8. CASE Allowed(w)
  <2>1. [wk[w] EXCEPT !.token = cred[ClientOf[wk[w].r]].token] \in Job
    <3>1. cred[ClientOf[wk[w].r]].token \in 0 .. MaxTokens
      BY <1>0, ConstantsAssumption DEF TypeOK, Tokens
    <3> QED
      BY <1>0, <3>1 DEF Job
  <2> QED
    BY <1>8, <2>1 DEF Allowed, TypeOK
<1>2. CASE Claim(w)
  <2>1. [wk[w] EXCEPT !.pc = "publishing"] \in Job
    BY <1>0 DEF Job
  <2>2. wk' \in [Workers -> Job \cup {Rest}]
    BY <1>2, <2>1 DEF Claim, TypeOK
  <2>3. resp' \in [Responses -> Row]
    BY <1>0, <1>2 DEF Claim, TypeOK, Row, Statuses
  <2> QED
    BY <1>2, <2>2, <2>3 DEF Claim, TypeOK
<1>3. CASE CallGoogle(w)
  <2>1. wk' \in [Workers -> Job \cup {Rest}]
    <3>1. \E a \in {"ok", "auth", "error"} : Answered(w, a)
      BY <1>3 DEF CallGoogle
    <3>2. \A a \in {"ok", "auth", "error"} :
            [wk[w] EXCEPT !.pc = "answered", !.answer = a] \in Job
      BY <1>0 DEF Job
    <3> QED
      BY <3>1, <3>2 DEF Answered, TypeOK
  <2>2. google' \in [Responses -> Texts \cup {NoReply}] /\ puts' \in [Responses -> Nat]
    <3>1. CASE Accepted(w)
      BY <1>0, <3>1 DEF Accepted, TypeOK, Job
    <3>2. CASE UNCHANGED <<google, puts>>
      BY <3>2 DEF TypeOK
    <3> QED
      BY <1>3, <3>1, <3>2 DEF CallGoogle
  <2> QED
    BY <1>3, <2>1, <2>2 DEF CallGoogle, TypeOK
<1>4. ASSUME NEW answer, NEW status \in Statuses, Settled(w, answer, status)
      PROVE  resp' \in [Responses -> Row] /\ wk' \in [Workers -> Job \cup {Rest}]
  BY <1>0, <1>4 DEF Settled, TypeOK, Row
<1>5. CASE Publish(w)
  <2>1. resp' \in [Responses -> Row] /\ wk' \in [Workers -> Job \cup {Rest}]
    BY <1>4, <1>5 DEF Publish, Statuses
  <2> QED
    BY <1>0, <1>5, <2>1 DEF Publish, TypeOK
<1>6. CASE RollBack(w)
  <2>1. resp' \in [Responses -> Row] /\ wk' \in [Workers -> Job \cup {Rest}]
    BY <1>4, <1>6 DEF RollBack, Statuses
  <2>2. cred' \in [Clients -> [status: {"active", "revoked"}, token: Tokens]]
    BY <1>0, <1>6 DEF RollBack, TypeOK
  <2> QED
    BY <1>6, <2>1, <2>2 DEF RollBack, TypeOK
<1>7. CASE Fail(w)
  <2>1. resp' \in [Responses -> Row] /\ wk' \in [Workers -> Job \cup {Rest}]
    BY <1>4, <1>7 DEF Fail, Statuses
  <2>2. queue' \in [Responses -> 0 .. QueueBound]
    BY <1>0, <1>7, EnqueueType DEF Fail, TypeOK
  <2> QED
    BY <1>7, <2>1, <2>2 DEF Fail, TypeOK
<1> QED
  BY <1>1, <1>2, <1>3, <1>5, <1>6, <1>7, <1>8 DEF Work

LEMMA NextType == TypeOK /\ [Next]_vars => TypeOK'
<1> SUFFICES ASSUME TypeOK, [Next]_vars PROVE TypeOK'
  OBVIOUS
<1>1. ASSUME NEW u \in Callers, NEW op \in Ops, NEW r \in Responses, Receive(u, op, r)
      PROVE  TypeOK'
  BY <1>1, ReceiveType
<1>2. ASSUME NEW u \in Callers, Finish(u) PROVE TypeOK'
  BY <1>2, FinishType
<1>3. CASE Dispatch
  <2>1. queue' \in [Responses -> 0 .. QueueBound]
    BY <1>3, EnqueueType DEF Dispatch, TypeOK
  <2> QED
    BY <1>3, <2>1 DEF Dispatch, TypeOK
<1>4. ASSUME NEW w \in Workers, NEW r \in Responses, Deliver(w, r) PROVE TypeOK'
  <2>1. queue' \in [Responses -> 0 .. QueueBound]
    BY <1>4, ConstantsAssumption DEF Deliver, TypeOK
  <2>2. [pc |-> "loaded", r |-> r, text |-> resp[r].text, token |-> 0,
         answer |-> "none"] \in Job
    BY ConstantsAssumption DEF Job, TypeOK, Row
  <2>3. wk' \in [Workers -> Job \cup {Rest}]
    BY <1>4, <2>2 DEF Deliver, TypeOK
  <2> QED
    BY <1>4, <2>1, <2>3 DEF Deliver, TypeOK
<1>5. ASSUME NEW w \in Workers, Work(w) PROVE TypeOK'
  BY <1>5, WorkType
<1>6. ASSUME NEW w \in Workers, Crash(w) PROVE TypeOK'
  <2>1. queue' \in [Responses -> 0 .. QueueBound]
    BY <1>6, JobType, EnqueueType DEF Crash, TypeOK
  <2>2. crashes' \in 0 .. MaxCrashes
    BY <1>6, ConstantsAssumption DEF Crash, TypeOK
  <2> QED
    BY <1>6, <2>1, <2>2 DEF Crash, TypeOK
<1>7. ASSUME NEW c \in Clients, Withdraw(c) PROVE TypeOK'
  BY <1>7, ConstantsAssumption DEF Withdraw, TypeOK
<1>8. ASSUME NEW c \in Clients, Reauthorise(c) PROVE TypeOK'
  <2>1. cred[c].token + 1 \in Tokens /\ cred[c].token + 1 \in 0 .. MaxTokens
    BY <1>8, ConstantsAssumption DEF Reauthorise, TypeOK, Tokens
  <2> QED
    BY <1>8, <2>1 DEF Reauthorise, TypeOK
<1>9. CASE Tick
  BY <1>9, ConstantsAssumption DEF Tick, TypeOK, Times
<1>10. CASE UNCHANGED vars
  BY <1>10 DEF vars, TypeOK
<1> QED
  BY <1>1, <1>2, <1>3, <1>4, <1>5, <1>6, <1>7, <1>8, <1>9, <1>10 DEF Next

\* Every column, message, request and worker keeps the type its declaration
\* gives it, whatever the interleaving.
THEOREM TypeCorrect == Spec => []TypeOK
  BY InitType, NextType, PTL DEF Spec

-----------------------------------------------------------------------------
(* The inductive invariant.                                                *)

\* A reply on its way leaves no approval, edit or cancellation in progress: it
\* is due, and those requests saw the row too long ago for that.
LEMMA NoneOpen ==
  ASSUME IInv, NEW r \in Responses, OnItsWay(r), NEW u \in Callers
  PROVE  ~On(u, {"approve", "edit", "cancel"}, r)
<1> SUFFICES ASSUME On(u, {"approve", "edit", "cancel"}, r) PROVE FALSE
  OBVIOUS
<1>1. resp[r].sched # NoTime /\ resp[r].sched <= now
  BY DEF IInv, SentIsDue
<1>2. /\ req[u] \in Request /\ now \in Int /\ req[u].at \in Int /\ resp[r].sched \in Int
      /\ now <= req[u].at + Latency
  BY RequestType, ConstantsAssumption DEF IInv, On, Request, Row, TypeOK, Times, Dues, Recent
<1>3. resp[r].sched > req[u].at - Grace + MinDelay - Latency
  <2>1. CASE On(u, {"approve", "edit"}, r)
    <3>1. resp[r].sched >= req[u].at + MinDelay - Latency
      BY <1>1, <2>1 DEF IInv, OpenDecisions
    <3> QED
      BY <1>2, <3>1, ConstantsAssumption, TimingAssumption
  <2>2. CASE On(u, {"cancel"}, r)
    BY <2>2 DEF IInv, OpenCancels
  <2> QED
    BY <2>1, <2>2 DEF On
<1> QED
  BY <1>1, <1>2, <1>3, ConstantsAssumption, TimingAssumption

\* A step is quiet when it opens no request, sends no new reply on its way,
\* leaves the dates and the text of the rows alone and cancels nothing.
Quiet ==
  /\ now' = now
  /\ \A r \in Responses :
       /\ resp'[r].sched = resp[r].sched /\ resp'[r].undo = resp[r].undo
       /\ resp'[r].text = resp[r].text
       /\ \/ resp'[r].status \in {resp[r].status, "publishing", "published", "failed",
                                  "superseded"}
          \/ resp'[r].status = "scheduled" /\ OnItsWay(r)
       /\ OnItsWay(r)' => OnItsWay(r)
       /\ \/ google'[r] = NoReply
          \/ google'[r] = google[r] /\ puts'[r] = puts[r]
          \/ google'[r] = resp[r].text /\ puts'[r] > 0
  /\ \A u \in Callers : req'[u] # Idle =>
       /\ req[u] # Idle
       /\ req'[u].op = req[u].op /\ req'[u].r = req[u].r /\ req'[u].at = req[u].at
  /\ \A w \in Workers : wk'[w] # Rest => wk'[w].text = resp[wk'[w].r].text

LEMMA QuietStep == IInv /\ TypeOK' /\ Quiet => IInv'
<1> SUFFICES ASSUME IInv, TypeOK', Quiet PROVE IInv'
  OBVIOUS
<1>1. Recent'
  BY DEF IInv, Quiet, Recent
<1>2. Dated'
  <2> SUFFICES ASSUME NEW r \in Responses
               PROVE  /\ resp'[r].sched = NoTime => resp'[r].undo = NoTime
                      /\ resp'[r].sched # NoTime =>
                           resp'[r].sched >= resp'[r].undo - Grace + MinDelay
                      /\ resp'[r].status = "pending" => resp'[r].sched = NoTime
                      /\ resp'[r].status \in {"scheduled", "cancelled"} =>
                           resp'[r].sched # NoTime
    BY DEF Dated, NoTime
  <2>1. OnItsWay(r) => resp[r].sched # NoTime
    BY DEF IInv, SentIsDue
  <2> QED
    BY <2>1 DEF IInv, Quiet, Dated
<1>3. OpenDecisions'
  BY DEF IInv, Quiet, OpenDecisions, On, NoTime
<1>4. OpenCancels'
  BY DEF IInv, Quiet, OpenCancels, On, NoTime
<1>5. SentIsDue'
  <2> SUFFICES ASSUME NEW r \in Responses, OnItsWay(r)'
               PROVE  resp'[r].sched # NoTime /\ resp'[r].sched <= now'
    BY DEF SentIsDue, NoTime
  <2> QED
    BY DEF IInv, Quiet, SentIsDue
<1>6. CancelStopsReply'
  <2> SUFFICES ASSUME NEW r \in Responses, resp'[r].status = "cancelled"
               PROVE  ~(OnItsWay(r)')
    BY DEF CancelStopsReply
  <2> QED
    BY DEF IInv, Quiet, CancelStopsReply
<1>7. SentText'
  <2>1. \A w \in Workers : wk'[w] # Rest => wk'[w].text = resp'[wk'[w].r].text
    BY DEF Quiet, TypeOK, Job
  <2>2. \A r \in Responses : google'[r] # NoReply => puts'[r] > 0
    BY DEF IInv, Quiet, SentText
  <2> QED
    BY <2>1, <2>2 DEF SentText, Rest
<1>8. ShownTextIsRowText'
  BY DEF IInv, Quiet, ShownTextIsRowText
<1> QED
  BY <1>1, <1>2, <1>3, <1>4, <1>5, <1>6, <1>7, <1>8 DEF IInv

\* Which steps of a worker, of the broker and of the client are quiet.
LEMMA QuietWork ==
  ASSUME IInv, NEW w \in Workers, Work(w)
  PROVE  Quiet
<1> USE DEF IInv
<1>0. /\ wk[w] # Rest /\ wk[w] \in Job /\ wk[w].r \in Responses
      /\ resp[wk[w].r] \in Row /\ OnItsWay(wk[w].r)
  <2>1. wk[w].pc # "rest"
    BY DEF Work, Blocked, Allowed, Claim, CallGoogle, Publish, RollBack, Fail, Settled
  <2> QED
    BY <2>1, AtWorkType, JobType DEF OnItsWay, Held
<1>1. req' = req /\ now' = now
  BY DEF Work, Blocked, Allowed, Claim, CallGoogle, Publish, RollBack, Fail
<1>2. \A v \in Workers : wk'[v] # Rest =>
        wk[v] # Rest /\ wk'[v].r = wk[v].r /\ wk'[v].text = wk[v].text
  <2>1. \/ wk' = [wk EXCEPT ![w] = Rest]
        \/ wk' = [wk EXCEPT ![w].token = cred[ClientOf[wk[w].r]].token]
        \/ wk' = [wk EXCEPT ![w].pc = "publishing"]
        \/ \E a \in {"ok", "auth", "error"} : Answered(w, a)
    BY DEF Work, Blocked, Allowed, Claim, CallGoogle, Publish, RollBack, Fail, Settled
  <2>2. ASSUME NEW a \in {"ok", "auth", "error"}, Answered(w, a), NEW v \in Workers, wk'[v] # Rest
        PROVE  wk[v] # Rest /\ wk'[v].r = wk[v].r /\ wk'[v].text = wk[v].text
    BY <1>0, <2>2 DEF Answered, TypeOK, Job
  <2> QED
    BY <1>0, <2>1, <2>2 DEF TypeOK, Job
<1>3. \/ resp' = resp
      \/ \E s \in {"publishing", "published", "failed", "scheduled"} :
           resp' = [resp EXCEPT ![wk[w].r].status = s]
  BY DEF Work, Blocked, Allowed, Claim, CallGoogle, Publish, RollBack, Fail, Settled
<1>4. \A r \in Responses :
        /\ resp'[r].sched = resp[r].sched /\ resp'[r].undo = resp[r].undo
        /\ resp'[r].text = resp[r].text
        /\ \/ resp'[r].status \in {resp[r].status, "publishing", "published", "failed",
                                   "superseded"}
           \/ resp'[r].status = "scheduled" /\ OnItsWay(r)
  BY <1>0, <1>3 DEF TypeOK, Row
<1>5. \A r \in Responses :
        \/ google'[r] = google[r] /\ puts'[r] = puts[r]
        \/ google'[r] = resp[r].text /\ puts'[r] > 0 /\ r = wk[w].r
  <2>1. CASE UNCHANGED <<google, puts>>
    BY <2>1
  <2>2. CASE Accepted(w)
    BY <1>0, <2>2 DEF Accepted, TypeOK, SentText
  <2> QED
    BY <2>1, <2>2 DEF Work, Blocked, Allowed, Claim, CallGoogle, Publish, RollBack, Fail
<1>6. \A r \in Responses : queue'[r] = queue[r] \/ r = wk[w].r
  BY <1>0 DEF Work, Blocked, Allowed, Claim, CallGoogle, Publish, RollBack, Fail, TypeOK
<1>7. \A r \in Responses : OnItsWay(r)' => OnItsWay(r)
  BY <1>0, <1>2, <1>5, <1>6 DEF OnItsWay, Held, Rest
<1>8. \A v \in Workers : wk'[v] # Rest => wk'[v].text = resp[wk'[v].r].text
  BY <1>2 DEF SentText
<1> QED
  BY <1>1, <1>4, <1>5, <1>7, <1>8 DEF Quiet

LEMMA QuietDeliver ==
  ASSUME IInv, NEW w \in Workers, NEW r \in Responses, Deliver(w, r)
  PROVE  Quiet
<1>1. \A v \in Workers : wk'[v] # Rest =>
        \/ wk'[v] = wk[v]
        \/ wk'[v].r = r /\ wk'[v].text = resp[r].text
  BY DEF Deliver, IInv, TypeOK
<1>2. OnItsWay(r)
  BY DEF Deliver, OnItsWay
<1>3. \A s \in Responses : OnItsWay(s)' => OnItsWay(s)
  BY <1>1, <1>2 DEF Deliver, OnItsWay, Held, Rest, IInv, TypeOK
<1>4. \A v \in Workers : wk'[v] # Rest => wk'[v].text = resp[wk'[v].r].text
  BY <1>1 DEF IInv, SentText
<1> QED
  BY <1>3, <1>4 DEF Deliver, Quiet

LEMMA QuietCrash ==
  ASSUME IInv, NEW w \in Workers, Crash(w)
  PROVE  Quiet
<1>0. wk[w].r \in Responses /\ OnItsWay(wk[w].r)
  BY JobType DEF IInv, Crash, OnItsWay, Held
<1>1. \A v \in Workers : wk'[v] # Rest => wk'[v] = wk[v]
  BY DEF Crash, IInv, TypeOK
<1>2. \A r \in Responses : queue'[r] = queue[r] \/ r = wk[w].r
  BY DEF Crash, IInv, TypeOK
<1>3. \A r \in Responses : OnItsWay(r)' => OnItsWay(r)
  BY <1>0, <1>1, <1>2 DEF Crash, OnItsWay, Held, Rest
<1>4. \A v \in Workers : wk'[v] # Rest => wk'[v].text = resp[wk'[v].r].text
  BY <1>1 DEF IInv, SentText
<1> QED
  BY <1>3, <1>4 DEF Crash, Quiet

LEMMA QuietClient ==
  ASSUME IInv, NEW c \in Clients, Withdraw(c) \/ Reauthorise(c)
  PROVE  Quiet
<1>1. UNCHANGED <<now, resp, req, queue, wk, google, puts>>
  BY DEF Withdraw, Reauthorise
<1>2. \A r \in Responses : OnItsWay(r)' => OnItsWay(r)
  BY <1>1 DEF OnItsWay, Held, Rest
<1> QED
  BY <1>1, <1>2 DEF Quiet, IInv, SentText

\* A commit that leaves the dates and the text alone, and neither schedules nor
\* cancels.
LEMMA QuietCommit ==
  ASSUME IInv, NEW u \in Callers, req[u] # Idle, NEW op \in Endpoints, NEW row \in Row,
         Commit(u, op, row),
         row.sched = Current(u).sched, row.undo = Current(u).undo,
         row.text = Current(u).text,
         row.status \in {Current(u).status, "superseded"}
  PROVE  Quiet
<1>1. req[u].r \in Responses
  BY RequestType DEF IInv
<1>2. \A r \in Responses :
        /\ resp'[r].sched = resp[r].sched /\ resp'[r].undo = resp[r].undo
        /\ resp'[r].text = resp[r].text
        /\ resp'[r].status \in {resp[r].status, "superseded"}
  BY <1>1 DEF Commit, Current, IInv, TypeOK
<1>3. \A v \in Callers : req'[v] # Idle => req'[v] = req[v]
  BY DEF Commit, IInv, TypeOK
<1>4. \A r \in Responses : OnItsWay(r)' => OnItsWay(r)
  BY DEF Commit, OnItsWay, Held, Rest
<1> QED
  BY <1>2, <1>3, <1>4 DEF Commit, Quiet, IInv, SentText

LEMMA QuietRequest ==
  ASSUME IInv, NEW u \in Callers,
         CommitRegenerate(u) \/ CommitDelete(u) \/ DeleteReply(u) \/ Abandon(u)
  PROVE  Quiet
<1>0. /\ req[u] # Idle /\ req[u] \in Request /\ req[u].r \in Responses
      /\ Current(u) \in Row
  BY BusyType, RequestType
     DEF IInv, CommitRegenerate, CommitDelete, DeleteReply, Abandon, Current
<1>1. CASE CommitRegenerate(u)
  <2> DEFINE row == [Current(u) EXCEPT
               !.status = Column(req[u].seen.status, "superseded", @),
               !.active = Column(req[u].seen.active, FALSE, @)]
  <2>1. /\ row \in Row /\ row.sched = Current(u).sched /\ row.undo = Current(u).undo
        /\ row.text = Current(u).text /\ row.status \in {Current(u).status, "superseded"}
    BY <1>0 DEF Row, Statuses, Column
  <2>2. Commit(u, "regenerate", row)
    BY <1>1 DEF CommitRegenerate
  <2> HIDE DEF row
  <2> QED
    BY <1>0, <2>1, <2>2, QuietCommit DEF Endpoints
<1>2. CASE CommitDelete(u)
  <2> DEFINE row == [Current(u) EXCEPT !.deleted = TRUE,
               !.active = Column(req[u].seen.active, FALSE, @)]
  <2>1. /\ row \in Row /\ row.sched = Current(u).sched /\ row.undo = Current(u).undo
        /\ row.text = Current(u).text /\ row.status = Current(u).status
    BY <1>0 DEF Row, Column
  <2>2. Commit(u, "delete", row)
    BY <1>2 DEF CommitDelete
  <2> HIDE DEF row
  <2> QED
    BY <1>0, <2>1, <2>2, QuietCommit DEF Endpoints
<1>3. ASSUME DeleteReply(u) \/ Abandon(u) PROVE Quiet
  <2>1. UNCHANGED <<now, resp, queue, wk, puts>>
    BY <1>3 DEF DeleteReply, Abandon
  <2>2. \A v \in Callers : req'[v] # Idle =>
          /\ req[v] # Idle
          /\ req'[v].op = req[v].op /\ req'[v].r = req[v].r /\ req'[v].at = req[v].at
    BY <1>0, <1>3 DEF DeleteReply, Abandon, IInv, TypeOK, Request
  <2>3. \A r \in Responses : google'[r] \in {NoReply, google[r]}
    BY <1>0, <1>3 DEF DeleteReply, Abandon, IInv, TypeOK
  <2>4. \A r \in Responses : OnItsWay(r)' => OnItsWay(r)
    BY <2>1 DEF OnItsWay, Held, Rest
  <2> QED
    BY <2>1, <2>2, <2>3, <2>4 DEF Quiet, IInv, SentText
<1> QED
  BY <1>1, <1>2, <1>3

\* The beat enqueues only responses that are scheduled and due.
LEMMA DispatchStep == IInv /\ TypeOK' /\ Dispatch => IInv'
<1> SUFFICES ASSUME IInv, TypeOK', Dispatch PROVE IInv'
  OBVIOUS
<1> USE DEF IInv
<1>1. UNCHANGED <<now, resp, req, wk, google, puts>>
  BY DEF Dispatch
<1>2. \A r \in Responses :
        OnItsWay(r)' => OnItsWay(r) \/ (resp[r].status = "scheduled" /\ resp[r].sched <= now)
  <2>1. PICK B \in Batches :
          queue' = [r \in Responses |-> IF r \in B THEN Enqueue(queue[r]) ELSE queue[r]]
    BY DEF Dispatch
  <2>2. \A r \in B : resp[r].status = "scheduled" /\ resp[r].sched <= now
    BY DEF Batches, Due
  <2>3. \A r \in Responses : queue'[r] = queue[r] \/ r \in B
    BY <2>1
  <2> QED
    BY <1>1, <2>2, <2>3 DEF OnItsWay, Held, Rest
<1>3. SentIsDue'
  <2> SUFFICES ASSUME NEW r \in Responses, OnItsWay(r)'
               PROVE  resp[r].sched # NoTime /\ resp[r].sched <= now
    BY <1>1 DEF SentIsDue, NoTime
  <2> QED
    BY <1>2 DEF SentIsDue, Dated
<1>4. CancelStopsReply'
  <2> SUFFICES ASSUME NEW r \in Responses, resp[r].status = "cancelled"
               PROVE  ~(OnItsWay(r)')
    BY <1>1 DEF CancelStopsReply
  <2> QED
    BY <1>2 DEF CancelStopsReply
<1>5. Recent' /\ Dated' /\ OpenDecisions' /\ OpenCancels'
  BY <1>1 DEF Recent, Dated, OpenDecisions, OpenCancels, On, NoTime, Idle
<1>6. SentText' /\ ShownTextIsRowText'
  BY <1>1 DEF SentText, ShownTextIsRowText, Rest
<1> QED
  BY <1>3, <1>4, <1>5, <1>6

\* The clock waits for the requests in progress.
LEMMA TickStep == IInv /\ TypeOK' /\ Tick => IInv'
<1> SUFFICES ASSUME IInv, TypeOK', Tick PROVE IInv'
  OBVIOUS
<1> USE DEF IInv
<1>1. UNCHANGED <<resp, req, queue, wk, google, puts>> /\ now' = now + 1 /\ now \in Int
  BY DEF Tick, TypeOK, Times
<1>2. Recent'
  <2> SUFFICES ASSUME NEW u \in Callers, req[u] # Idle
               PROVE  req[u].at <= now + 1 /\ now + 1 <= req[u].at + Latency
    BY <1>1 DEF Recent, Idle
  <2>1. req[u].at \in Int
    BY RequestType DEF Request, Times
  <2> QED
    BY <1>1, <2>1, ConstantsAssumption DEF Tick, Recent
<1>3. \A r \in Responses : OnItsWay(r)' <=> OnItsWay(r)
  BY <1>1 DEF OnItsWay, Held, Rest
<1>4. SentIsDue'
  <2> SUFFICES ASSUME NEW r \in Responses, OnItsWay(r)
               PROVE  resp[r].sched # NoTime /\ resp[r].sched <= now + 1
    BY <1>1, <1>3 DEF SentIsDue, NoTime
  <2>1. resp[r].sched \in Int
    BY DEF TypeOK, Row, Dues
  <2> QED
    BY <1>1, <2>1 DEF SentIsDue
<1>5. CancelStopsReply'
  BY <1>1, <1>3 DEF CancelStopsReply
<1>6. Dated' /\ OpenDecisions' /\ OpenCancels' /\ SentText' /\ ShownTextIsRowText'
  BY <1>1 DEF Dated, OpenDecisions, OpenCancels, On, NoTime, Idle, SentText, Rest,
              ShownTextIsRowText
<1> QED
  BY <1>2, <1>4, <1>5, <1>6

\* A request that passes its check opens a decision or a cancellation.
LEMMA ReceiveStep ==
  ASSUME IInv, TypeOK', NEW u \in Callers, NEW op \in Ops, NEW r \in Responses,
         Receive(u, op, r)
  PROVE  IInv'
<1> USE DEF IInv
<1>1. UNCHANGED <<now, resp, queue, wk, google, puts>>
  BY DEF Receive
<1>2. /\ req'[u] # Idle /\ req'[u].op = op /\ req'[u].r = r /\ req'[u].at = now
      /\ \A v \in Callers \ {u} : req'[v] = req[v]
  <2>1. op # "none"
    BY ConstantsAssumption DEF Endpoints
  <2> QED
    BY <2>1 DEF Receive, TypeOK, Idle
<1>3. now \in Int /\ resp[r].sched \in Int /\ resp[r].undo \in Int
  BY DEF TypeOK, Times, Row, Dues
<1>4. Recent'
  BY <1>1, <1>2, <1>3, ConstantsAssumption DEF Recent, Idle
<1>5. OpenDecisions'
  <2> SUFFICES ASSUME NEW v \in Callers, NEW s \in Responses,
                      On(v, {"approve", "edit"}, s)'
               PROVE  resp[s].sched = NoTime \/ resp[s].sched >= req'[v].at + MinDelay - Latency
    BY <1>1 DEF OpenDecisions, NoTime
  <2>1. CASE v = u
    <3>1. s = r /\ op \in {"approve", "edit"}
      BY <1>2, <2>1 DEF On
    <3>2. resp[r].status = "pending"
      BY <3>1 DEF Receive, Admits
    <3> QED
      BY <3>1, <3>2 DEF Dated
  <2>2. CASE v # u
    BY <1>2, <2>2 DEF On, OpenDecisions, Idle
  <2> QED
    BY <2>1, <2>2
<1>6. OpenCancels'
  <2> SUFFICES ASSUME NEW v \in Callers, NEW s \in Responses, On(v, {"cancel"}, s)'
               PROVE  /\ resp[s].sched # NoTime
                      /\ resp[s].sched > req'[v].at - Grace + MinDelay - Latency
    BY <1>1 DEF OpenCancels, NoTime
  <2>1. CASE v = u
    <3>1. s = r /\ op = "cancel"
      BY <1>2, <2>1 DEF On
    <3>2. resp[r].status = "scheduled" /\ resp[r].undo > now
      BY <3>1 DEF Receive, Admits
    <3>3. resp[r].sched # NoTime /\ resp[r].sched >= resp[r].undo - Grace + MinDelay
      BY <3>2 DEF Dated
    <3> QED
      BY <1>2, <1>3, <2>1, <3>1, <3>2, <3>3, ConstantsAssumption
  <2>2. CASE v # u
    BY <1>2, <2>2 DEF On, OpenCancels, Idle
  <2> QED
    BY <2>1, <2>2
<1>7. \A s \in Responses : OnItsWay(s)' <=> OnItsWay(s)
  BY <1>1 DEF OnItsWay, Held, Rest
<1>8. Dated' /\ SentIsDue' /\ CancelStopsReply'
  BY <1>1, <1>7 DEF Dated, SentIsDue, CancelStopsReply, NoTime
<1>9. SentText' /\ ShownTextIsRowText'
  BY <1>1 DEF SentText, ShownTextIsRowText, Rest
<1> QED
  BY <1>4, <1>5, <1>6, <1>8, <1>9

\* A commit on a row whose reply is not on its way, with dates that are kept or
\* counted from the clock the request read.
LEMMA OpenCommit ==
  ASSUME IInv, TypeOK', NEW u \in Callers, NEW op \in {"approve", "edit", "cancel"},
         NEW row \in Row, Commit(u, op, row),
         \/ row.sched = Current(u).sched /\ row.undo = Current(u).undo
         \/ row.sched >= req[u].at + MinDelay /\ row.undo = req[u].at + Grace,
         row.status \in {Current(u).status, "scheduled", "cancelled"},
         row.status # Current(u).status => row.sched # NoTime,
         row.status = "pending" =>
           row.sched = Current(u).sched /\ row.undo = Current(u).undo
  PROVE  IInv'
<1> USE DEF IInv
<1>0. /\ req[u] # Idle /\ req[u] \in Request /\ req[u].r \in Responses
      /\ req[u].at \in Int /\ req[u].at >= 0 /\ now \in Int /\ row.sched \in Int
      /\ row.undo \in Int /\ On(u, {"approve", "edit", "cancel"}, req[u].r)
      /\ req[u].at <= now /\ now <= req[u].at + Latency
  <2>1. req[u].op = op /\ op # "none"
    BY DEF Commit
  <2>2. req[u] # Idle /\ req[u] \in Request
    BY <2>1, BusyType, RequestType
  <2> QED
    BY <2>1, <2>2 DEF Request, Times, TypeOK, Row, Dues, On, Recent
<1> DEFINE x == req[u].r
<1>1. /\ resp'[x] = row /\ \A r \in Responses \ {x} : resp'[r] = resp[r]
      /\ \A v \in Callers : req'[v] # Idle => req'[v] = req[v]
      /\ UNCHANGED <<now, queue, wk, google, puts>>
  BY <1>0 DEF Commit, TypeOK
<1>2. ~OnItsWay(x)
  BY <1>0, NoneOpen
<1>3. \A r \in Responses : OnItsWay(r)' <=> OnItsWay(r)
  BY <1>1 DEF OnItsWay, Held, Rest
<1>4. Recent'
  BY <1>1 DEF Recent, Idle
<1>5. Dated'
  <2> SUFFICES ASSUME NEW r \in Responses
               PROVE  /\ resp'[r].sched = NoTime => resp'[r].undo = NoTime
                      /\ resp'[r].sched # NoTime =>
                           resp'[r].sched >= resp'[r].undo - Grace + MinDelay
                      /\ resp'[r].status = "pending" => resp'[r].sched = NoTime
                      /\ resp'[r].status \in {"scheduled", "cancelled"} =>
                           resp'[r].sched # NoTime
    BY DEF Dated, NoTime
  <2>1. CASE r # x
    BY <1>1, <2>1 DEF Dated
  <2>2. CASE r = x /\ row.sched = Current(u).sched /\ row.undo = Current(u).undo
    BY <1>0, <1>1, <2>2 DEF Dated, Current
  <2>3. CASE r = x /\ row.sched >= req[u].at + MinDelay /\ row.undo = req[u].at + Grace
    <3>1. row.sched # NoTime /\ row.sched >= row.undo - Grace + MinDelay
      BY <1>0, <2>3, ConstantsAssumption, TimingAssumption DEF NoTime
    <3>2. row.status = "pending" => row.sched = NoTime
      BY <1>0 DEF Dated, Current
    <3> QED
      BY <1>1, <2>3, <3>1, <3>2
  <2> QED
    BY <2>1, <2>2, <2>3
<1>6. OpenDecisions'
  <2> SUFFICES ASSUME NEW v \in Callers, NEW r \in Responses,
                      On(v, {"approve", "edit"}, r)'
               PROVE  \/ resp'[r].sched = NoTime
                      \/ resp'[r].sched >= req'[v].at + MinDelay - Latency
    BY DEF OpenDecisions, NoTime
  <2>1. /\ req'[v] = req[v] /\ On(v, {"approve", "edit"}, r)
        /\ req[v].at \in Int /\ req[v].at <= now
    BY <1>1, RequestType DEF On, Idle, Recent, Request, Times
  <2>2. CASE r = x /\ row.sched >= req[u].at + MinDelay
    BY <1>0, <1>1, <2>1, <2>2, ConstantsAssumption
  <2>3. CASE r # x \/ row.sched = Current(u).sched
    BY <1>1, <2>1, <2>3 DEF OpenDecisions, Current
  <2> QED
    BY <2>2, <2>3
<1>7. OpenCancels'
  <2> SUFFICES ASSUME NEW v \in Callers, NEW r \in Responses, On(v, {"cancel"}, r)'
               PROVE  /\ resp'[r].sched # NoTime
                      /\ resp'[r].sched > req'[v].at - Grace + MinDelay - Latency
    BY DEF OpenCancels, NoTime
  <2>1. /\ req'[v] = req[v] /\ On(v, {"cancel"}, r)
        /\ req[v].at \in Int /\ req[v].at <= now
    BY <1>1, RequestType DEF On, Idle, Recent, Request, Times
  <2>2. CASE r = x /\ row.sched >= req[u].at + MinDelay
    BY <1>0, <1>1, <2>1, <2>2, ConstantsAssumption, TimingAssumption DEF NoTime
  <2>3. CASE r # x \/ row.sched = Current(u).sched
    BY <1>1, <2>1, <2>3 DEF OpenCancels, Current
  <2> QED
    BY <2>2, <2>3
<1>8. SentIsDue' /\ CancelStopsReply'
  BY <1>1, <1>2, <1>3 DEF SentIsDue, CancelStopsReply, NoTime
<1>9. SentText'
  <2>1. \A w \in Workers : wk[w] # Rest => wk[w].r # x /\ wk[w].r \in Responses
    BY <1>2, JobType DEF OnItsWay, Held
  <2> QED
    BY <1>1, <2>1 DEF SentText, Rest
<1>10. ShownTextIsRowText'
  <2>1. google[x] = NoReply
    BY <1>0, <1>2 DEF SentText, OnItsWay
  <2> QED
    BY <1>1, <2>1 DEF ShownTextIsRowText
<1> QED
  BY <1>4, <1>5, <1>6, <1>7, <1>8, <1>9, <1>10

\* Approvals, cancellations and edits.
LEMMA DecisionStep ==
  ASSUME IInv, TypeOK', NEW u \in Callers,
         CommitApprove(u) \/ CommitCancel(u) \/ CommitEdit(u)
  PROVE  IInv'
<1>0. /\ req[u] # Idle /\ req[u] \in Request /\ req[u].r \in Responses
      /\ Current(u) \in Row
  BY BusyType, RequestType DEF IInv, CommitApprove, CommitCancel, CommitEdit, Current
<1>1. CASE CommitApprove(u)
  <2>1. PICK d \in MinDelay .. MaxDelay :
          Commit(u, "approve", [Current(u) EXCEPT !.status = "scheduled",
                                                  !.sched = req[u].at + d,
                                                  !.undo = req[u].at + Grace])
    BY <1>1 DEF CommitApprove
  <2> DEFINE row == [Current(u) EXCEPT !.status = "scheduled", !.sched = req[u].at + d,
                                       !.undo = req[u].at + Grace]
  <2>2. /\ req[u].at \in Nat /\ req[u].at + d >= req[u].at + MinDelay
        /\ req[u].at + d \in Dues /\ req[u].at + Grace \in Dues /\ req[u].at + d # NoTime
    BY <1>0, ConstantsAssumption DEF Request, Times, Dues, NoTime
  <2>3. /\ row \in Row /\ row.sched = req[u].at + d /\ row.undo = req[u].at + Grace
        /\ row.status = "scheduled"
    BY <1>0, <2>2 DEF Row, Statuses
  <2>4. Commit(u, "approve", row)
    BY <2>1
  <2> HIDE DEF row
  <2> QED
    BY <2>2, <2>3, <2>4, OpenCommit
<1>2. CASE CommitCancel(u)
  <2> DEFINE row == [Current(u) EXCEPT !.status = "cancelled",
                           !.active = Column(req[u].seen.active, FALSE, @)]
  <2>1. /\ row \in Row /\ row.status = "cancelled" /\ row.sched = Current(u).sched
        /\ row.undo = Current(u).undo
    BY <1>0 DEF Row, Statuses, Column
  <2>2. Commit(u, "cancel", row)
    BY <1>2 DEF CommitCancel
  <2>3. Current(u).sched # NoTime
    BY <1>0, <1>2 DEF CommitCancel, IInv, OpenCancels, On, Current
  <2> HIDE DEF row
  <2> QED
    BY <2>1, <2>2, <2>3, OpenCommit
<1>3. CASE CommitEdit(u)
  <2>1. PICK t \in Texts :
          Commit(u, "edit", [Current(u) EXCEPT !.text = Column(req[u].seen.text, t, @)])
    BY <1>3 DEF CommitEdit
  <2> DEFINE row == [Current(u) EXCEPT !.text = Column(req[u].seen.text, t, @)]
  <2>2. /\ row \in Row /\ row.status = Current(u).status /\ row.sched = Current(u).sched
        /\ row.undo = Current(u).undo
    BY <1>0 DEF Row, Column
  <2>3. Commit(u, "edit", row)
    BY <2>1
  <2> HIDE DEF row
  <2> QED
    BY <2>2, <2>3, OpenCommit
<1> QED
  BY <1>1, <1>2, <1>3

LEMMA InitInv == Init => IInv
<1> SUFFICES ASSUME Init PROVE IInv
  OBVIOUS
<1>1. TypeOK
  BY InitType
<1>2. \A r \in Responses : /\ resp[r].status = "pending" /\ resp[r].sched = NoTime
                            /\ resp[r].undo = NoTime /\ ~OnItsWay(r)
  BY DEF Init, OnItsWay, Held
<1>3. Recent /\ OpenDecisions /\ OpenCancels
  BY DEF Init, Recent, OpenDecisions, OpenCancels, On
<1>4. Dated /\ SentIsDue /\ CancelStopsReply
  BY <1>2 DEF Dated, SentIsDue, CancelStopsReply
<1>5. SentText /\ ShownTextIsRowText
  BY DEF Init, SentText, ShownTextIsRowText
<1> QED
  BY <1>1, <1>3, <1>4, <1>5 DEF IInv

LEMMA NextInv == IInv /\ [Next]_vars => IInv'
<1> SUFFICES ASSUME IInv, [Next]_vars PROVE IInv'
  OBVIOUS
<1>0. TypeOK'
  BY NextType DEF IInv
<1>1. ASSUME NEW u \in Callers, NEW op \in Ops, NEW r \in Responses, Receive(u, op, r)
      PROVE  IInv'
  BY <1>0, <1>1, ReceiveStep
<1>2. ASSUME NEW u \in Callers, Finish(u) PROVE IInv'
  <2>1. CASE CommitApprove(u) \/ CommitCancel(u) \/ CommitEdit(u)
    BY <1>0, <2>1, DecisionStep
  <2>2. CASE CommitRegenerate(u) \/ CommitDelete(u) \/ DeleteReply(u) \/ Abandon(u)
    BY <1>0, <2>2, QuietRequest, QuietStep
  <2> QED
    BY <1>2, <2>1, <2>2 DEF Finish
<1>3. CASE Dispatch
  BY <1>0, <1>3, DispatchStep
<1>4. ASSUME NEW w \in Workers, NEW r \in Responses, Deliver(w, r) PROVE IInv'
  BY <1>0, <1>4, QuietDeliver, QuietStep
<1>5. ASSUME NEW w \in Workers, Work(w) PROVE IInv'
  BY <1>0, <1>5, QuietWork, QuietStep
<1>6. ASSUME NEW w \in Workers, Crash(w) PROVE IInv'
  BY <1>0, <1>6, QuietCrash, QuietStep
<1>7. ASSUME NEW c \in Clients, Withdraw(c) \/ Reauthorise(c) PROVE IInv'
  BY <1>0, <1>7, QuietClient, QuietStep
<1>8. CASE Tick
  BY <1>0, <1>8, TickStep
<1>9. CASE UNCHANGED vars
  <2>1. Quiet
    BY <1>9 DEF vars, Quiet, OnItsWay, Held, Rest, IInv, SentText
  <2> QED
    BY <1>0, <2>1, QuietStep
<1> QED
  BY <1>1, <1>2, <1>3, <1>4, <1>5, <1>6, <1>7, <1>8, <1>9 DEF Next

THEOREM Invariant == Spec => []IInv
  BY InitInv, NextInv, PTL DEF Spec

-----------------------------------------------------------------------------
(* What the inductive invariant gives.                                     *)

\* The invariant puts both dates behind whatever is on its way.
LEMMA NotEarly == IInv => NothingSentEarly
<1> SUFFICES ASSUME IInv, NEW r \in Responses, OnItsWay(r)
             PROVE  resp[r].undo <= now /\ resp[r].sched <= now
  BY DEF NothingSentEarly
<1>1. resp[r].undo \in Int /\ resp[r].sched \in Int /\ now \in Int
  BY DEF IInv, TypeOK, Row, Dues, Times
<1>2. resp[r].sched <= now /\ resp[r].sched >= resp[r].undo - Grace + MinDelay
  BY DEF IInv, SentIsDue, Dated
<1> QED
  BY <1>1, <1>2, ConstantsAssumption, TimingAssumption

\* The undo window and the publication delay are over before a reply of the
\* response is enqueued, held by a worker, or accepted by Google.
THEOREM NeverEarly == Spec => []NothingSentEarly
  BY NotEarly, Invariant, PTL

\* cancel_publication is never answered with success for a reply that has left
\* or is about to leave.
THEOREM CancelIsEffective == Spec => []CancelStopsReply
<1>1. IInv => CancelStopsReply
  BY DEF IInv
<1> QED
  BY <1>1, Invariant, PTL

\* Google never shows a text that differs from the row's content.
THEOREM ShownIsStored == Spec => []ShownTextIsRowText
<1>1. IInv => ShownTextIsRowText
  BY DEF IInv
<1> QED
  BY <1>1, Invariant, PTL

-----------------------------------------------------------------------------
(* What a row says of its reply.                                           *)

(***************************************************************************)
(* Requests, the beat, the client and the clock move a row on, supersede   *)
(* it, or decide on it while its reply is not on its way (NoneOpen); only  *)
(* a worker does more.                                                     *)
(***************************************************************************)
Outside ==
  /\ \A r \in Responses :
       \/ resp'[r].status \in {resp[r].status, "superseded"}
       \/ ~OnItsWay(r) /\ resp'[r].status \in {"scheduled", "cancelled"}
  /\ UNCHANGED <<wk, puts, done>>

LEMMA FinishOutside ==
  ASSUME IInv, NEW u \in Callers, Finish(u) PROVE Outside
<1>0. /\ TypeOK /\ req[u] # Idle /\ req[u] \in Request /\ req[u].r \in Responses
      /\ Current(u) \in Row
  <2>1. CASE req[u].op \in Endpoints
    BY <2>1, BusyType, RequestType DEF IInv, Current, Endpoints
  <2>2. CASE Abandon(u)
    BY <2>2, RequestType DEF IInv, Abandon, Current
  <2> QED
    BY <2>1, <2>2 DEF Finish, CommitApprove, CommitCancel, CommitEdit, CommitRegenerate,
                      DeleteReply, CommitDelete, Endpoints
<1>1. ASSUME NEW op \in Endpoints, NEW row, Commit(u, op, row),
             \/ row.status \in {Current(u).status, "superseded"}
             \/ op \in {"approve", "cancel"} /\ row.status \in {"scheduled", "cancelled"}
      PROVE  Outside
  <2>1. req[u].op = op /\ UNCHANGED <<wk, puts, done>>
    BY <1>1 DEF Commit
  <2>2. \A r \in Responses : resp'[r] = IF r = req[u].r THEN row ELSE resp[r]
    BY <1>0, <1>1 DEF Commit, TypeOK
  <2>3. op \in {"approve", "cancel"} => ~OnItsWay(req[u].r)
    BY <1>0, <2>1, NoneOpen DEF On
  <2>4. \A r \in Responses : r # req[u].r => resp'[r].status = resp[r].status
    BY <2>2
  <2>5. resp'[req[u].r].status = row.status
    BY <1>0, <2>2
  <2>6. \/ resp'[req[u].r].status \in {resp[req[u].r].status, "superseded"}
        \/ ~OnItsWay(req[u].r) /\ resp'[req[u].r].status \in {"scheduled", "cancelled"}
    BY <1>1, <2>3, <2>5 DEF Current
  <2> QED
    BY <2>1, <2>4, <2>6 DEF Outside
<1>3. CASE CommitApprove(u)
  <2>1. PICK d \in MinDelay .. MaxDelay :
          Commit(u, "approve", [Current(u) EXCEPT !.status = "scheduled",
                                                  !.sched = req[u].at + d,
                                                  !.undo = req[u].at + Grace])
    BY <1>3 DEF CommitApprove
  <2> DEFINE row == [Current(u) EXCEPT !.status = "scheduled", !.sched = req[u].at + d,
                                       !.undo = req[u].at + Grace]
  <2>2. row.status = "scheduled"
    BY <1>0 DEF Row
  <2>3. Commit(u, "approve", row)
    BY <2>1
  <2> HIDE DEF row
  <2> QED
    BY <1>1, <2>2, <2>3 DEF Endpoints
<1>4. CASE CommitCancel(u)
  <2> DEFINE row == [Current(u) EXCEPT !.status = "cancelled",
                               !.active = Column(req[u].seen.active, FALSE, @)]
  <2>1. row.status = "cancelled"
    BY <1>0 DEF Row
  <2>2. Commit(u, "cancel", row)
    BY <1>4 DEF CommitCancel
  <2> HIDE DEF row
  <2> QED
    BY <1>1, <2>1, <2>2 DEF Endpoints
<1>5. CASE CommitEdit(u)
  <2>1. PICK t \in Texts :
          Commit(u, "edit", [Current(u) EXCEPT !.text = Column(req[u].seen.text, t, @)])
    BY <1>5 DEF CommitEdit
  <2> DEFINE row == [Current(u) EXCEPT !.text = Column(req[u].seen.text, t, @)]
  <2>2. row.status = Current(u).status
    BY <1>0 DEF Row
  <2>3. Commit(u, "edit", row)
    BY <2>1
  <2> HIDE DEF row
  <2> QED
    BY <1>1, <2>2, <2>3 DEF Endpoints
<1>6. CASE CommitRegenerate(u)
  <2> DEFINE row == [Current(u) EXCEPT
               !.status = Column(req[u].seen.status, "superseded", @),
               !.active = Column(req[u].seen.active, FALSE, @)]
  <2>1. row.status \in {Current(u).status, "superseded"}
    BY <1>0 DEF Row, Column
  <2>2. Commit(u, "regenerate", row)
    BY <1>6 DEF CommitRegenerate
  <2> HIDE DEF row
  <2> QED
    BY <1>1, <2>1, <2>2 DEF Endpoints
<1>7. CASE CommitDelete(u)
  <2> DEFINE row == [Current(u) EXCEPT !.deleted = TRUE,
               !.active = Column(req[u].seen.active, FALSE, @)]
  <2>1. row.status = Current(u).status
    BY <1>0 DEF Row
  <2>2. Commit(u, "delete", row)
    BY <1>7 DEF CommitDelete
  <2> HIDE DEF row
  <2> QED
    BY <1>1, <2>1, <2>2 DEF Endpoints
<1>8. CASE DeleteReply(u) \/ Abandon(u)
  BY <1>8 DEF DeleteReply, Abandon, Outside
<1> QED
  BY <1>3, <1>4, <1>5, <1>6, <1>7, <1>8 DEF Finish

LEMMA OtherOutside ==
  ASSUME \/ \E u \in Callers, op \in Ops, r \in Responses : Receive(u, op, r)
         \/ Dispatch \/ Tick \/ \E c \in Clients : Withdraw(c) \/ Reauthorise(c)
         \/ UNCHANGED vars
  PROVE  Outside
  BY DEF Receive, Dispatch, Tick, Withdraw, Reauthorise, vars, Outside

\* A published row, and a worker whose call succeeded, stand for a reply accepted.
AInv ==
  /\ PublishedWasAccepted
  /\ \A w \in Workers : wk[w] # Rest /\ wk[w].answer = "ok" => puts[wk[w].r] > 0

LEMMA OutsideAccepted ==
  ASSUME AInv, Outside PROVE AInv'
  BY DEF AInv, Outside, PublishedWasAccepted

\* What a step of a worker does to the reply it holds.
LEMMA WorkEffect ==
  ASSUME TypeOK, NEW w \in Workers, Work(w)
  PROVE  LET r == wk[w].r IN
         /\ wk[w] # Rest /\ r \in Responses
         /\ \A v \in Workers \ {w} : wk'[v] = wk[v]
         /\ wk'[w] = Rest \/ wk'[w].r = r
         /\ \A q \in Responses \ {r} : resp'[q].status = resp[q].status /\ puts'[q] = puts[q]
         /\ puts'[r] \in {puts[r], puts[r] + 1}
         /\ \/ Blocked(w) /\ wk'[w] = Rest /\ UNCHANGED <<resp, puts, done>>
            \/ /\ wk[w].pc = "loaded" /\ wk'[w].pc = "loaded"
               /\ wk'[w].answer = wk[w].answer /\ UNCHANGED <<resp, puts, done>>
            \/ /\ wk[w].pc = "loaded" /\ wk'[w].pc = "publishing"
               /\ wk'[w].answer = wk[w].answer
               /\ resp'[r].status = "publishing" /\ UNCHANGED <<puts, done>>
            \/ /\ wk[w].pc = "publishing" /\ wk'[w].pc = "answered"
               /\ \/ wk'[w].answer = "ok" /\ puts'[r] = puts[r] + 1
                  \/ wk'[w].answer = "error"
                  \/ wk'[w].answer = "auth" /\ puts' = puts
               /\ UNCHANGED <<resp, done>>
            \/ /\ wk[w].pc = "answered" /\ wk'[w] = Rest /\ puts' = puts
               /\ \/ wk[w].answer = "ok" /\ resp'[r].status = "published" /\ done' = done \cup {r}
                  \/ wk[w].answer = "auth" /\ resp'[r].status = "scheduled" /\ done' = done
                  \/ wk[w].answer = "error" /\ resp'[r].status = "failed" /\ done' = done
<1>0. wk[w] # Rest
  BY AtWorkType DEF Work, Blocked, Allowed, Claim, CallGoogle, Publish, RollBack, Fail, Settled
<1>1. wk[w] \in Job /\ wk[w].r \in Responses /\ resp[wk[w].r] \in Row
  BY <1>0, JobType
<1>2. puts \in [Responses -> Nat] /\ resp \in [Responses -> Row] /\ wk \in [Workers -> Job \cup {Rest}]
  BY DEF TypeOK
<1>3. CASE Blocked(w)
  BY <1>0, <1>1, <1>2, <1>3 DEF Blocked
<1>10. CASE Allowed(w)
  BY <1>0, <1>1, <1>2, <1>10 DEF Allowed, Job
<1>4. CASE Claim(w)
  BY <1>0, <1>1, <1>2, <1>4 DEF Claim, Job, Row
<1>5. CASE CallGoogle(w)
  <2>1. /\ wk[w].pc = "publishing" /\ UNCHANGED <<resp, done>>
        /\ \/ Accepted(w) /\ Answered(w, "ok")
           \/ Accepted(w) /\ Answered(w, "error")
           \/ Answered(w, "auth") /\ puts' = puts
           \/ Answered(w, "error") /\ puts' = puts
    BY <1>5 DEF CallGoogle
  <2>2. ASSUME NEW a, Answered(w, a)
        PROVE  /\ wk'[w].pc = "answered" /\ wk'[w].answer = a /\ wk'[w].r = wk[w].r
               /\ \A v \in Workers \ {w} : wk'[v] = wk[v]
    BY <1>0, <1>1, <1>2, <2>2 DEF Answered, Job
  <2>3. ASSUME Accepted(w)
        PROVE  /\ puts'[wk[w].r] = puts[wk[w].r] + 1
               /\ \A q \in Responses \ {wk[w].r} : puts'[q] = puts[q]
    BY <1>1, <1>2, <2>3 DEF Accepted
  <2> QED
    BY <1>0, <1>1, <2>1, <2>2, <2>3
<1>6. CASE Publish(w)
  BY <1>0, <1>1, <1>2, <1>6 DEF Publish, Settled, Row
<1>7. CASE RollBack(w)
  BY <1>0, <1>1, <1>2, <1>7 DEF RollBack, Settled, Row
<1>8. CASE Fail(w)
  BY <1>0, <1>1, <1>2, <1>8 DEF Fail, Settled, Row
<1> QED
  BY <1>3, <1>4, <1>5, <1>6, <1>7, <1>8, <1>10 DEF Work

LEMMA DeliverEffect ==
  ASSUME TypeOK, NEW w \in Workers, NEW r \in Responses, Deliver(w, r)
  PROVE  /\ wk[w] = Rest /\ UNCHANGED <<resp, puts, done>>
         /\ \A v \in Workers \ {w} : wk'[v] = wk[v]
         /\ \/ wk'[w] = Rest
            \/ /\ resp[r].status = "scheduled" /\ wk'[w].r = r
               /\ wk'[w].pc = "loaded" /\ wk'[w].answer = "none"
  BY DEF TypeOK, Deliver, Publishable

LEMMA CrashEffect ==
  ASSUME TypeOK, NEW w \in Workers, Crash(w)
  PROVE  /\ wk'[w] = Rest /\ UNCHANGED <<resp, puts, done>>
         /\ \A v \in Workers \ {w} : wk'[v] = wk[v]
  BY DEF TypeOK, Crash

LEMMA AcceptedStep == IInv /\ AInv /\ [Next]_vars => AInv'
<1> SUFFICES ASSUME IInv, AInv, [Next]_vars PROVE AInv'
  OBVIOUS
<1>0. TypeOK
  BY DEF IInv
<1>1. ASSUME NEW w \in Workers, NEW r \in Responses, Deliver(w, r) PROVE AInv'
  <2>1. ASSUME NEW v \in Workers, wk'[v] # Rest, wk'[v].answer = "ok"
        PROVE  wk[v] # Rest /\ wk'[v] = wk[v]
    BY <1>0, <1>1, <2>1, DeliverEffect DEF Rest
  <2> QED
    BY <1>0, <1>1, <2>1, DeliverEffect DEF AInv, PublishedWasAccepted, Rest
<1>2. ASSUME NEW w \in Workers, Crash(w) PROVE AInv'
  BY <1>0, <1>2, CrashEffect DEF AInv, PublishedWasAccepted, Rest
<1>3. ASSUME NEW w \in Workers, Work(w) PROVE AInv'
  <2> DEFINE r == wk[w].r
  <2>1. /\ wk[w] # Rest /\ r \in Responses /\ \A q \in Responses : puts[q] \in Nat
        /\ \A v \in Workers : wk[v] # Rest => wk[v].r \in Responses
    BY <1>0, <1>3, WorkEffect, JobType DEF TypeOK
  <2>2. \A q \in Responses : puts'[q] >= puts[q] /\ puts'[q] \in Nat
    BY <1>0, <1>3, <2>1, WorkEffect
  <2>3. \A q \in Responses : resp'[q].status = "published" =>
          resp[q].status = "published" \/ (q = r /\ puts[q] > 0)
    BY <1>0, <1>3, <2>1, WorkEffect DEF AInv
  <2>4. \A v \in Workers : wk'[v] # Rest /\ wk'[v].answer = "ok" =>
          \/ wk[v] # Rest /\ wk[v].answer = "ok" /\ wk'[v].r = wk[v].r
          \/ wk'[v].r = r /\ puts'[r] > 0
    BY <1>0, <1>3, <2>1, WorkEffect
  <2> HIDE DEF r
  <2>5. PublishedWasAccepted'
    BY <2>1, <2>2, <2>3 DEF AInv, PublishedWasAccepted
  <2>6. \A v \in Workers : wk'[v] # Rest /\ wk'[v].answer = "ok" => puts'[wk'[v].r] > 0
    BY <2>1, <2>2, <2>4 DEF AInv
  <2> QED
    BY <2>5, <2>6 DEF AInv, Rest
<1> QED
  BY <1>1, <1>2, <1>3, FinishOutside, OtherOutside, OutsideAccepted DEF Next

\* No row says `published' of a reply Google never accepted, for any workers and crashes.
THEOREM PublishedIsAccepted == Spec => []PublishedWasAccepted
<1>1. Init => AInv
  <2> SUFFICES ASSUME Init PROVE AInv
    OBVIOUS
  <2>1. \A r \in Responses : resp[r].status = "pending"
    BY DEF Init
  <2> QED
    BY <2>1 DEF Init, AInv, PublishedWasAccepted
<1>2. AInv => PublishedWasAccepted
  BY DEF AInv
<1> QED
  BY <1>1, <1>2, AcceptedStep, Invariant, PTL DEF Spec

-----------------------------------------------------------------------------
(* A single worker.                                                        *)

(***************************************************************************)
(* With one worker a reply that was accepted is never scheduled again, so  *)
(* it is never held again.  Until it is accepted its review is not         *)
(* completed.  Two workers break the first of these at once: both hold the *)
(* reply before either has sent it.                                        *)
(***************************************************************************)
Holds(w) ==
  wk[w] # Rest =>
    /\ wk[w].r \notin done /\ resp[wk[w].r].status # "published"
    /\ wk[w].pc \in {"publishing", "answered"} => resp[wk[w].r].status # "scheduled"
    /\ wk[w].pc \in {"loaded", "publishing"} \/ wk[w].answer = "auth" => puts[wk[w].r] = 0

SInv ==
  /\ AInv
  /\ \A r \in Responses : puts[r] <= 1 /\ (puts[r] > 0 => resp[r].status # "scheduled")
  /\ \A r \in done : puts[r] > 0 /\ resp[r].status \in {"published", "superseded"}
  /\ \A w \in Workers : Holds(w)

OneWorker == \A v, w \in Workers : v = w

LEMMA Sent ==
  ASSUME TypeOK, NEW r \in Responses, puts[r] > 0 \/ Held(r)
  PROVE  OnItsWay(r)
  BY DEF OnItsWay

LEMMA OutsideSingle ==
  ASSUME IInv, SInv, Outside PROVE SInv'
<1>0. /\ TypeOK /\ done \subseteq Responses
      /\ \A w \in Workers : wk[w] # Rest => wk[w].r \in Responses
  BY JobType DEF IInv, TypeOK
<1>1. AInv'
  BY OutsideAccepted DEF SInv
<1>2. \A r \in Responses : puts[r] > 0 => resp'[r].status \in {resp[r].status, "superseded"}
  BY <1>0, Sent DEF Outside
<1>3. \A w \in Workers : wk[w] # Rest =>
        resp'[wk[w].r].status \in {resp[wk[w].r].status, "superseded"}
  BY <1>0, Sent DEF Outside, Held
<1>4. /\ \A r \in Responses : puts'[r] <= 1 /\ (puts'[r] > 0 => resp'[r].status # "scheduled")
      /\ \A r \in done' : puts'[r] > 0 /\ resp'[r].status \in {"published", "superseded"}
  BY <1>0, <1>2 DEF SInv, Outside
<1>5. \A w \in Workers : Holds(w)'
  BY <1>3 DEF SInv, Outside, Holds, Rest
<1> QED
  BY <1>1, <1>4, <1>5 DEF SInv

LEMMA SingleStep ==
  ASSUME OneWorker, IInv, SInv, AInv', [Next]_vars
  PROVE  SInv'
<1>0. TypeOK /\ \A q \in Responses : puts[q] \in Nat
  BY DEF IInv, TypeOK
<1>1. ASSUME NEW w \in Workers, NEW r \in Responses, Deliver(w, r) PROVE SInv'
  <2>1. \A v \in Workers : v = w
    BY DEF OneWorker
  <2>2. wk'[w] # Rest => wk'[w].r = r /\ resp[r].status = "scheduled" /\ wk'[w].pc = "loaded"
    BY <1>0, <1>1, DeliverEffect
  <2>3. resp' = resp /\ puts' = puts /\ done' = done
    BY <1>0, <1>1, DeliverEffect
  <2>4. resp[r].status = "scheduled" => puts[r] = 0 /\ r \notin done
    BY <1>0 DEF SInv
  <2>5. Holds(w)'
    BY <2>2, <2>3, <2>4 DEF Holds, Rest
  <2> QED
    BY <2>1, <2>3, <2>5 DEF SInv
<1>2. ASSUME NEW w \in Workers, Crash(w) PROVE SInv'
  <2>1. \A v \in Workers : v = w
    BY DEF OneWorker
  <2>2. wk'[w] = Rest /\ resp' = resp /\ puts' = puts /\ done' = done
    BY <1>0, <1>2, CrashEffect
  <2> QED
    BY <2>1, <2>2 DEF SInv, Holds, Rest
<1>3. ASSUME NEW w \in Workers, Work(w) PROVE SInv'
  <2> DEFINE r == wk[w].r
  <2>1. \A v \in Workers : v = w
    BY DEF OneWorker
  <2>2. /\ wk[w] # Rest /\ r \in Responses /\ (wk'[w] = Rest \/ wk'[w].r = r)
        /\ \A q \in Responses \ {r} : resp'[q].status = resp[q].status /\ puts'[q] = puts[q]
    BY <1>0, <1>3, WorkEffect
  <2>3. /\ r \notin done /\ resp[r].status # "published"
        /\ wk[w].pc \in {"publishing", "answered"} => resp[r].status # "scheduled"
        /\ wk[w].pc \in {"loaded", "publishing"} \/ wk[w].answer = "auth" => puts[r] = 0
        /\ wk[w].answer = "ok" => puts[r] > 0
        /\ puts[r] <= 1 /\ (puts[r] > 0 => resp[r].status # "scheduled") /\ puts[r] \in Nat
    BY <1>0, <2>2 DEF SInv, AInv, Holds
  <2>4. /\ puts'[r] <= 1 /\ (puts'[r] > 0 => resp'[r].status # "scheduled")
        /\ done' = done \/ (done' = done \cup {r} /\ puts'[r] > 0 /\ resp'[r].status = "published")
        /\ wk'[w] # Rest =>
             /\ done' = done /\ resp'[r].status # "published"
             /\ wk'[w].pc \in {"publishing", "answered"} => resp'[r].status # "scheduled"
             /\ wk'[w].pc \in {"loaded", "publishing"} \/ wk'[w].answer = "auth" => puts'[r] = 0
    BY <1>0, <1>3, <2>3, WorkEffect
  <2> HIDE DEF r
  <2>5. \A q \in Responses : puts'[q] <= 1 /\ (puts'[q] > 0 => resp'[q].status # "scheduled")
    BY <2>2, <2>4 DEF SInv
  <2>6. \A q \in done' : puts'[q] > 0 /\ resp'[q].status \in {"published", "superseded"}
    BY <1>0, <2>2, <2>3, <2>4 DEF SInv, TypeOK
  <2>7. Holds(w)'
    BY <2>2, <2>3, <2>4 DEF Holds, Rest
  <2> QED
    BY <2>1, <2>5, <2>6, <2>7 DEF SInv
<1> QED
  BY <1>1, <1>2, <1>3, FinishOutside, OtherOutside, OutsideSingle DEF Next

\* Only a regeneration takes a published row back.
LEMMA FinalStep ==
  ASSUME OneWorker, IInv, SInv, [Next]_vars, NEW r \in Responses, resp[r].status = "published"
  PROVE  resp'[r].status \in {"published", "superseded"}
<1>0. TypeOK /\ OnItsWay(r) /\ \A w \in Workers : wk[w] # Rest => wk[w].r # r
  BY Sent DEF IInv, SInv, AInv, PublishedWasAccepted, Holds
<1>1. ASSUME NEW w \in Workers, NEW q \in Responses, Deliver(w, q) PROVE resp' = resp
  BY <1>1 DEF Deliver
<1>2. ASSUME NEW w \in Workers, Crash(w) PROVE resp' = resp
  BY <1>2 DEF Crash
<1>3. ASSUME NEW w \in Workers, Work(w) PROVE resp'[r].status = resp[r].status
  BY <1>0, <1>3, WorkEffect
<1>4. Outside => resp'[r].status \in {"published", "superseded"}
  BY <1>0 DEF Outside
<1> QED
  BY <1>1, <1>2, <1>3, <1>4, FinishOutside, OtherOutside DEF Next

LEMMA InitSingle == Init => SInv
<1> SUFFICES ASSUME Init PROVE SInv
  OBVIOUS
<1>1. /\ \A r \in Responses : resp[r].status = "pending" /\ puts[r] = 0
      /\ \A w \in Workers : wk[w] = Rest
      /\ done = {}
  BY DEF Init
<1> QED
  BY <1>1 DEF SInv, AInv, PublishedWasAccepted, Holds

LEMMA SingleInvariant == ASSUME OneWorker PROVE Spec => [](IInv /\ SInv)
<1>1. IInv /\ SInv /\ [Next]_vars => SInv'
  BY AcceptedStep, SingleStep DEF SInv
<1> QED
  BY <1>1, InitSingle, Invariant, PTL DEF Spec

\* One worker sends a reply at most once, however often it is enqueued, redelivered
\* or retried.
THEOREM OneWorkerSendsOnce == ASSUME OneWorker PROVE Spec => []SentOnce
<1>1. SInv => SentOnce
  BY DEF SInv, SentOnce
<1> QED
  BY <1>1, SingleInvariant, PTL

\* With one worker a completed review has a response that was published.
THEOREM OneWorkerCompletes == ASSUME OneWorker PROVE Spec => []CompletedIsPublished
<1>1. SInv => CompletedIsPublished
  BY DEF SInv, CompletedIsPublished
<1> QED
  BY <1>1, SingleInvariant, PTL

\* With one worker no late write of a worker, an approval or a cancellation takes a
\* published response back.
THEOREM OneWorkerIsFinal == ASSUME OneWorker PROVE Spec => PublishedIsFinal
<1>1. IInv /\ SInv /\ [Next]_vars =>
        [\A r \in Responses : resp[r].status = "published" =>
            resp'[r].status \in {"published", "superseded"}]_vars
  BY FinalStep
<1> QED
  BY <1>1, SingleInvariant, PTL DEF Spec, PublishedIsFinal
=============================================================================
