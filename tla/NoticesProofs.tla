---------------------------- MODULE NoticesProofs ----------------------------
(***************************************************************************)
(* Proofs about Notices, for any number of clients, digest workers and     *)
(* messages, any preferences, quotas, retries and faults: the types, that  *)
(* a recorded threshold has its notification stored, that a notification   *)
(* marked sent was mailed, and how often a client is told of one thing.    *)
(***************************************************************************)
EXTENDS Notices, FiniteSetTheorems, SequenceTheorems, TLAPS

Row == [topic: Topics, status: States \ {"pending"}]

-----------------------------------------------------------------------------
(* Type correctness.                                                       *)

LEMMA TopicType ==
  ASSUME NEW c \in Clients, NEW level, NEW m \in Months PROVE Topic(c, level, m) \in Topics
  BY DEF Topic, Topics, Events, Immediate

LEMMA InsertedType ==
  ASSUME NEW t PROVE Inserted(t) \in {"pending", "deferred"}
  BY DEF Inserted

LEMMA CrossedType ==
  ASSUME NEW c, NEW m, NEW monthly PROVE Crossed(c, m, monthly) \in Thresholds
  BY DEF Crossed, Thresholds

LEMMA LookType ==
  ASSUME TypeOK, look # Rest
  PROVE  look \in LookJob
  BY DEF TypeOK

LEMMA LookTopicType ==
  ASSUME TypeOK, look # Rest
  PROVE  look.month \in Months /\ LookTopic \in Topics
<1>1. look.c \in Clients /\ look.month \in Months
  BY LookType DEF LookJob
<1> QED
  BY <1>1, TopicType DEF LookTopic

LEMMA DigType ==
  ASSUME TypeOK, NEW w \in DigestWorkers, dig[w] # Rest
  PROVE  dig[w] \in DigJob
  BY DEF TypeOK

LEMMA FaultType ==
  ASSUME TypeOK, Fault PROVE faults' \in 0 .. MaxFaults
  BY NoticesAssumption DEF TypeOK, Fault

LEMMA WroteType ==
  ASSUME TypeOK, NEW T, Wrote(T)
  PROVE  /\ mails' \in [Topics -> Nat]
         /\ \A t \in Topics : mails[t] > 0 => mails'[t] > 0
         /\ \A t \in Topics \cap T : mails'[t] > 0
  BY DEF TypeOK, Wrote

\* Sending may cost a fault, takes no mail back, and is `sent' only if it was sent.
LEMMA SendsType ==
  ASSUME TypeOK, NEW t \in Topics, NEW status \in {"sent", "failed"}, Sends(t, status)
  PROVE  /\ mails' \in [Topics -> Nat] /\ faults' \in 0 .. MaxFaults
         /\ \A u \in Topics : mails[u] > 0 => mails'[u] > 0
         /\ status = "sent" => mails'[t] > 0
<1>1. CASE UNCHANGED mails /\ status = "failed"
  BY <1>1, FaultType DEF Sends, TypeOK
<1>2. CASE Wrote({t})
  BY <1>2, WroteType, FaultType DEF Sends, TypeOK
<1> QED
  BY <1>1, <1>2 DEF Sends

\* The rows with one more at their end.
LEMMA StoreType ==
  ASSUME TypeOK, NEW t \in Topics, NEW status \in States \ {"pending"}, Store(t, status)
  PROVE  /\ rows' \in Seq(Row)
         /\ \A i \in DOMAIN rows : i \in DOMAIN rows' /\ rows'[i] = rows[i]
         /\ \E i \in DOMAIN rows' : rows'[i].topic = t
         /\ \A i \in DOMAIN rows' : i \in DOMAIN rows \/ rows'[i] = [topic |-> t, status |-> status]
<1> DEFINE new == [topic |-> t, status |-> status]
<1>1. rows \in Seq(Row) /\ new \in Row /\ rows' = Append(rows, new)
  BY DEF TypeOK, Row, Store
<1>2. new.topic = t
  OBVIOUS
<1> HIDE DEF new
<1>3. /\ rows' \in Seq(Row) /\ Len(rows') = Len(rows) + 1 /\ Len(rows) \in Nat
      /\ DOMAIN rows = 1 .. Len(rows) /\ DOMAIN rows' = 1 .. Len(rows')
      /\ \A i \in 1 .. Len(rows) : rows'[i] = rows[i]
      /\ rows'[Len(rows) + 1] = new
  BY <1>1
<1> QED
  BY <1>2, <1>3 DEF new

LEMMA RecordedType ==
  ASSUME TypeOK, look # Rest
  PROVE  /\ Recorded \in [Months -> [Clients -> Thresholds]]
         /\ \A m \in Months, c \in Clients :
              Recorded[m][c] = IF m = look.month /\ look.pend[c] # 0 THEN look.pend[c]
                               ELSE alert[m][c]
<1> DEFINE new == [c \in Clients |-> IF look.pend[c] = 0 THEN alert[look.month][c]
                                   ELSE look.pend[c]]
<1>1. /\ look.month \in Months /\ look.pend \in [Clients -> Thresholds]
      /\ alert \in [Months -> [Clients -> Thresholds]]
  BY LookType DEF TypeOK, LookJob
<1>2. new \in [Clients -> Thresholds]
  BY <1>1
<1>3. \A c \in Clients : new[c] = IF look.pend[c] = 0 THEN alert[look.month][c] ELSE look.pend[c]
  OBVIOUS
<1>4. Recorded = [alert EXCEPT ![look.month] = new]
  BY DEF Recorded
<1> HIDE DEF new
<1> QED
  BY <1>1, <1>2, <1>3, <1>4

LEMMA LookKeepsTypes ==
  ASSUME TypeOK, Beat \/ LookStep \/ LookFail PROVE TypeOK'
<1>1. CASE Beat
  BY <1>1 DEF Beat, TypeOK, account
<1>2. CASE LookStart
  <2>1. (CHOOSE c \in Clients : TRUE) \in Clients
    BY NoticesAssumption
  <2> DEFINE none == [c \in Clients |-> 0]
             new == [pc |-> "loop", month |-> month, todo |-> Clients, quotas |-> quota, pend |-> none,
                     c |-> CHOOSE c \in Clients : TRUE, level |-> 80, status |-> "pending"]
  <2>2. none \in [Clients -> Thresholds] /\ quota \in [Clients -> Quotas] /\ month \in Months
    BY DEF TypeOK, Thresholds
  <2> HIDE DEF none
  <2>3. new \in LookJob
    BY <2>1, <2>2 DEF LookJob, States
  <2> HIDE DEF new
  <2>4. look' = new /\ due' = FALSE
    BY <1>2 DEF LookStart, new, none
  <2> QED
    BY <1>2, <2>3, <2>4 DEF LookStart, TypeOK, account
<1>3. ASSUME NEW c \in Clients, LookNext(c) PROVE TypeOK'
  <2> DEFINE level == IF look.quotas[c] <= 0 THEN 0 ELSE Crossed(c, look.month, look.quotas[c])
  <2>1. look \in LookJob
    BY <1>3, LookType DEF LookNext
  <2>2. level \in Thresholds
    BY CrossedType DEF Thresholds
  <2>3. Inserted(Topic(c, level, look.month)) \in States
    BY InsertedType DEF States
  <2>4. look' = IF level = 0 THEN [look EXCEPT !.todo = @ \ {c}]
                ELSE [look EXCEPT !.pc = "dispatch", !.todo = @ \ {c}, !.c = c,
                                  !.level = level, !.status = Inserted(Topic(c, level, look.month))]
    BY <1>3 DEF LookNext
  <2> HIDE DEF level
  <2>5. [look EXCEPT !.todo = @ \ {c}] \in LookJob
    BY <2>1 DEF LookJob
  <2>6. ASSUME level # 0
        PROVE  [look EXCEPT !.pc = "dispatch", !.todo = @ \ {c}, !.c = c, !.level = level,
                            !.status = Inserted(Topic(c, level, look.month))] \in LookJob
    <3> DEFINE status == Inserted(Topic(c, level, look.month))
               Q == [Clients -> Quotas]
               P == [Clients -> Thresholds]
    <3>1. level \in {80, 100} /\ status \in States
      BY <2>2, <2>3, <2>6 DEF Thresholds
    <3>2. LookJob = [pc: {"loop", "dispatch"}, month: Months, todo: SUBSET Clients,
                     quotas: Q, pend: P, c: Clients, level: {80, 100}, status: States]
      BY DEF LookJob
    <3> HIDE DEF status, Q, P
    <3>3. [look EXCEPT !.pc = "dispatch", !.todo = @ \ {c}, !.c = c, !.level = level,
                       !.status = status] \in LookJob
      BY <2>1, <3>1, <3>2
    <3> QED
      BY <3>3 DEF status
  <2>7. look' \in LookJob
    BY <2>4, <2>5, <2>6
  <2> QED
    BY <1>3, <2>7 DEF LookNext, TypeOK, account
<1>4. CASE LookSend
  <2>1. PICK status \in {"sent", "failed"} :
          Sends(LookTopic, status) /\ look' = [look EXCEPT !.status = status]
    BY <1>4 DEF LookSend
  <2>2. look \in LookJob
    BY <1>4, LookType DEF LookSend
  <2>3. look' \in LookJob
    BY <2>1, <2>2 DEF LookJob, States
  <2>4. mails' \in [Topics -> Nat] /\ faults' \in 0 .. MaxFaults
    BY <1>4, <2>1, LookTopicType, SendsType DEF LookSend
  <2> QED
    BY <1>4, <2>3, <2>4 DEF LookSend, TypeOK, account
<1>5. CASE LookCommit
  <2>1. look \in LookJob /\ look # Rest /\ look.status # "pending"
    BY <1>5, LookType DEF LookCommit
  <2>2. rows' \in Seq(Row)
    BY <1>5, <2>1, StoreType, LookTopicType DEF LookCommit, LookJob
  <2>3. look' \in LookJob
    BY <1>5, <2>1 DEF LookCommit, LookJob, Thresholds
  <2> QED
    BY <1>5, <2>1, <2>2, <2>3, RecordedType DEF LookCommit, TypeOK, account, Row
<1>6. CASE LookEnd
  BY <1>6, RecordedType DEF LookEnd, TypeOK, account
<1>7. CASE LookFail
  BY <1>7, FaultType DEF LookFail, TypeOK, account
<1> QED
  BY <1>1, <1>2, <1>3, <1>4, <1>5, <1>6, <1>7 DEF LookStep

LEMMA AskType == ASSUME NEW a \in Asks PROVE a \in Topics
  BY NoticesAssumption

LEMMA NoteKeepsTypes ==
  ASSUME TypeOK, NEW a \in Asks, NoteStep(a) \/ NoteFail(a) \/ NoteCrash(a)
  PROVE  TypeOK'
<1>1. note[a] \in NoteJob /\ a \in Topics
  BY AskType DEF TypeOK
<1>2. CASE NoteStart(a)
  BY <1>1, <1>2, InsertedType DEF NoteStart, TypeOK, account, NoteJob, States
<1>3. CASE NoteSend(a)
  <2>1. PICK status \in {"sent", "failed"} :
          Sends(a, status) /\ note' = [note EXCEPT ![a].status = status]
    BY <1>3 DEF NoteSend
  <2>2. note' \in [Asks -> NoteJob]
    BY <1>1, <2>1 DEF TypeOK, NoteJob, States
  <2>3. mails' \in [Topics -> Nat] /\ faults' \in 0 .. MaxFaults
    BY <1>1, <2>1, SendsType
  <2> QED
    BY <1>3, <2>2, <2>3 DEF NoteSend, TypeOK, account
<1>4. CASE NoteCommit(a)
  <2>1. rows' \in Seq(Row)
    BY <1>1, <1>4, StoreType DEF NoteCommit, NoteJob
  <2> QED
    BY <1>1, <1>4, <2>1 DEF NoteCommit, TypeOK, account, NoteJob, Row
<1>5. CASE NoteFail(a)
  <2> DEFINE retry == [pc |-> "queued", tries |-> note[a].tries + 1, status |-> "pending"]
             over == [note[a] EXCEPT !.pc = "done"]
  <2>2. note[a].tries < NoticeRetries => retry \in NoteJob
    BY <1>1, NoticesAssumption DEF NoteJob, States
  <2>3. over \in NoteJob
    BY <1>1 DEF NoteJob
  <2>4. note' = [note EXCEPT ![a] = IF note[a].tries < NoticeRetries THEN retry ELSE over]
    BY <1>5 DEF NoteFail, TypeOK
  <2> HIDE DEF retry, over
  <2>1. note' \in [Asks -> NoteJob]
    BY <2>2, <2>3, <2>4 DEF TypeOK
  <2> QED
    BY <1>5, <2>1, FaultType DEF NoteFail, TypeOK, account
<1>6. CASE NoteCrash(a)
  <2>1. note' \in [Asks -> NoteJob]
    BY <1>1, <1>6 DEF NoteCrash, TypeOK, NoteJob, States
  <2> QED
    BY <1>6, <2>1, FaultType DEF NoteCrash, TypeOK, account
<1> QED
  BY <1>2, <1>3, <1>4, <1>5, <1>6 DEF NoteStep

LEMMA DeferredRows ==
  ASSUME TypeOK, NEW c
  PROVE  Deferred(c) \subseteq DOMAIN rows /\ Deferred(c) \subseteq Nat
<1>1. rows \in Seq(Row)
  BY DEF TypeOK, Row
<1>2. DOMAIN rows \subseteq Nat
  BY <1>1
<1> QED
  BY <1>2 DEF Deferred

\* The rows, some of them marked.
LEMMA MarkType ==
  ASSUME TypeOK, NEW M,
         rows' = [i \in DOMAIN rows |->
                    IF i \in M THEN [rows[i] EXCEPT !.status = "sent"] ELSE rows[i]]
  PROVE  /\ rows' \in Seq(Row) /\ DOMAIN rows' = DOMAIN rows
         /\ \A i \in DOMAIN rows : rows'[i].topic = rows[i].topic
         /\ \A i \in DOMAIN rows : rows'[i].status = "sent" => rows[i].status = "sent" \/ i \in M
<1>1. rows \in Seq(Row)
  BY DEF TypeOK, Row
<1>2. Len(rows) \in Nat /\ DOMAIN rows = 1 .. Len(rows) /\ \A i \in DOMAIN rows : rows[i] \in Row
  BY <1>1
<1>3. \A r \in Row : [r EXCEPT !.status = "sent"] \in Row /\ [r EXCEPT !.status = "sent"].topic = r.topic
  BY DEF Row, States
<1>4. DOMAIN rows' = DOMAIN rows /\ \A i \in DOMAIN rows :
        rows'[i] = IF i \in M THEN [rows[i] EXCEPT !.status = "sent"] ELSE rows[i]
  OBVIOUS
<1>5. \A i \in DOMAIN rows : rows'[i] \in Row /\ rows'[i].topic = rows[i].topic
  BY <1>2, <1>3, <1>4
<1>6. rows' \in [1 .. Len(rows) -> Row]
  BY <1>2, <1>5
<1>7. rows' \in Seq(Row)
  BY <1>2, <1>6, SeqDef
<1> QED
  BY <1>4, <1>5, <1>7

LEMMA DigestKeepsTypes ==
  ASSUME TypeOK, NEW w \in DigestWorkers, DigestStep(w) \/ DigestFail(w)
  PROVE  TypeOK'
<1>1. CASE DigestStart(w)
  <2>1. (CHOOSE c \in Clients : TRUE) \in Clients
    BY NoticesAssumption
  <2> DEFINE new == [pc |-> "loop", todo |-> {c \in Clients : digest[c]},
               c |-> CHOOSE c \in Clients : TRUE, batch |-> {}, marked |-> {}]
  <2>2. new \in DigJob
    BY <2>1 DEF DigJob
  <2>3. dig' = [dig EXCEPT ![w] = new]
    BY <1>1 DEF DigestStart
  <2> HIDE DEF new
  <2> QED
    BY <1>1, <2>2, <2>3 DEF DigestStart, TypeOK, account
<1>2. ASSUME NEW c \in Clients, DigestNext(w, c) PROVE TypeOK'
  <2>1. dig[w] \in DigJob
    BY <1>2, DigType DEF DigestNext
  <2> DEFINE skip == [dig[w] EXCEPT !.todo = @ \ {c}]
             mail == [dig[w] EXCEPT !.todo = @ \ {c}, !.pc = "mail", !.c = c, !.batch = Deferred(c)]
  <2>2. skip \in DigJob /\ mail \in DigJob
    BY <2>1, DeferredRows DEF DigJob
  <2>3. dig' = [dig EXCEPT ![w] = skip] \/ dig' = [dig EXCEPT ![w] = mail]
    BY <1>2 DEF DigestNext
  <2> HIDE DEF skip, mail
  <2>4. dig' \in [DigestWorkers -> DigJob \cup {Rest}]
    BY <2>2, <2>3 DEF TypeOK
  <2> QED
    BY <1>2, <2>4 DEF DigestNext, TypeOK, account
<1>3. CASE DigestMail(w)
  <2>1. dig[w] \in DigJob
    BY <1>3, DigType DEF DigestMail
  <2> DEFINE sent == [dig[w] EXCEPT !.pc = "loop", !.batch = {}, !.marked = @ \cup dig[w].batch]
             refused == [dig[w] EXCEPT !.pc = "loop", !.batch = {}]
  <2>4. sent \in DigJob /\ refused \in DigJob
    BY <2>1 DEF DigJob
  <2>5. dig' = [dig EXCEPT ![w] = sent] \/ dig' = [dig EXCEPT ![w] = refused]
    BY <1>3 DEF DigestMail
  <2> HIDE DEF sent, refused
  <2>2. dig' \in [DigestWorkers -> DigJob \cup {Rest}]
    BY <2>4, <2>5 DEF TypeOK
  <2>3. mails' \in [Topics -> Nat] /\ faults' \in 0 .. MaxFaults
    BY <1>3, WroteType, FaultType DEF DigestMail, TypeOK
  <2> QED
    BY <1>3, <2>2, <2>3 DEF DigestMail, TypeOK, account
<1>4. CASE DigestEnd(w)
  <2>1. rows' \in Seq(Row)
    BY <1>4, MarkType DEF DigestEnd
  <2> QED
    BY <1>4, <2>1 DEF DigestEnd, TypeOK, account, Row
<1>5. CASE DigestFail(w)
  BY <1>5, FaultType DEF DigestFail, TypeOK, account
<1> QED
  BY <1>1, <1>2, <1>3, <1>4, <1>5 DEF DigestStep

LEMMA AccountKeepsTypes ==
  ASSUME TypeOK, (\E c \in Clients : Charge(c) \/ Change(c)) \/ NewMonth \/ UNCHANGED vars
  PROVE  TypeOK'
<1>1. ASSUME NEW c \in Clients, Charge(c) PROVE TypeOK'
  <2>1. used' \in [Months -> [Clients -> Nat]]
    <3>1. PICK n \in Levels : used' = [used EXCEPT ![month][c] = n]
      BY <1>1 DEF Charge
    <3>2. n \in Nat /\ month \in Months /\ used[month] \in [Clients -> Nat]
      BY NoticesAssumption DEF TypeOK
    <3>3. [used[month] EXCEPT ![c] = n] \in [Clients -> Nat]
      BY <3>2
    <3> QED
      BY <3>1, <3>2, <3>3 DEF TypeOK
  <2> QED
    BY <1>1, <2>1 DEF Charge, TypeOK
<1>2. ASSUME NEW c \in Clients, Change(c) PROVE TypeOK'
  <2>1. quota' \in [Clients -> Quotas]
    BY <1>2 DEF Change, TypeOK
  <2>2. digest' \in [Clients -> BOOLEAN]
    BY <1>2 DEF Change, TypeOK
  <2>3. changes' \in 0 .. MaxChanges
    BY <1>2, NoticesAssumption DEF Change, TypeOK
  <2> QED
    BY <1>2, <2>1, <2>2, <2>3 DEF Change, TypeOK
<1>3. CASE NewMonth
  <2>1. month' \in Months /\ changes' \in 0 .. MaxChanges
    BY <1>3, NoticesAssumption DEF NewMonth, TypeOK, Months
  <2> QED
    BY <1>3, <2>1 DEF NewMonth, TypeOK
<1>4. CASE UNCHANGED vars
  BY <1>4 DEF vars, TypeOK
<1> QED
  BY <1>1, <1>2, <1>3, <1>4

LEMMA InitType == Init => TypeOK
<1> SUFFICES ASSUME Init PROVE TypeOK
  OBVIOUS
<1>1. rows \in Seq([topic: Topics, status: States \ {"pending"}])
  BY DEF Init
<1>2. note \in [Asks -> NoteJob]
  BY NoticesAssumption DEF Init, NoteJob, States
<1>3. /\ used \in [Months -> [Clients -> Nat]]
      /\ alert \in [Months -> [Clients -> Thresholds]]
      /\ mails \in [Topics -> Nat] /\ dig \in [DigestWorkers -> DigJob \cup {Rest}]
  BY DEF Init, Thresholds
<1>4. month \in Months /\ changes \in 0 .. MaxChanges /\ faults \in 0 .. MaxFaults
  BY NoticesAssumption DEF Init, Months
<1> QED
  BY <1>1, <1>2, <1>3, <1>4 DEF Init, TypeOK

LEMMA NextType == TypeOK /\ [Next]_vars => TypeOK'
  BY LookKeepsTypes, NoteKeepsTypes, DigestKeepsTypes, AccountKeepsTypes DEF Next

\* Every variable keeps its type.
THEOREM TypeCorrect == Spec => []TypeOK
  BY InitType, NextType, PTL DEF Spec

-----------------------------------------------------------------------------
(* What is recorded and what is marked.                                    *)

(***************************************************************************)
(* Neither property is inductive: a threshold is set before the commit     *)
(* that writes it, and a row becomes `sent' in a commit after its mail.    *)
(* NInv adds what each task in between carries: the thresholds it has set  *)
(* have their rows, the status `sent' it will store was earned, and the    *)
(* rows a digest will mark have been mailed.                               *)
(***************************************************************************)

Stored(t) == \E i \in DOMAIN rows : rows[i].topic = t

PendIsStored ==
  look # Rest =>
    \A c \in Clients : look.pend[c] # 0 => Stored(Topic(c, look.pend[c], look.month))

LookTold ==
  look # Rest /\ look.pc = "dispatch" /\ look.status = "sent" =>
    mails[LookTopic] > 0

NoteTold ==
  \A a \in Asks : note[a].pc = "dispatch" /\ note[a].status = "sent" => mails[a] > 0

MarkedTold ==
  \A w \in DigestWorkers : dig[w] # Rest =>
    /\ dig[w].batch \subseteq DOMAIN rows /\ dig[w].marked \subseteq DOMAIN rows
    /\ \A i \in dig[w].marked : mails[rows[i].topic] > 0

NInv ==
  /\ TypeOK
  /\ PendIsStored /\ LookTold /\ NoteTold /\ MarkedTold
  /\ RecordedIsStored /\ SentWasMailed

\* No mail is taken back and no row is lost or given another topic.
Grown ==
  /\ \A t \in Topics : mails[t] > 0 => mails'[t] > 0
  /\ \A i \in DOMAIN rows : i \in DOMAIN rows' /\ rows'[i].topic = rows[i].topic

LEMMA RowTopic ==
  ASSUME TypeOK, NEW i \in DOMAIN rows PROVE rows[i].topic \in Topics
<1>1. rows \in Seq(Row)
  BY DEF TypeOK, Row
<1>2. rows[i] \in Row
  BY <1>1
<1> QED
  BY <1>2 DEF Row

\* What a step that grows keeps, for those who do not move in it.
LEMMA GrownKeeps ==
  ASSUME NInv, Grown
  PROVE  /\ \A t : Stored(t) => Stored(t)'
         /\ look' = look => PendIsStored' /\ LookTold'
         /\ note' = note => NoteTold'
         /\ \A w \in DigestWorkers : dig'[w] # Rest /\ dig'[w] = dig[w] =>
              /\ dig'[w].batch \subseteq DOMAIN rows' /\ dig'[w].marked \subseteq DOMAIN rows'
              /\ \A i \in dig'[w].marked : mails'[rows'[i].topic] > 0
         /\ dig' = dig => MarkedTold'
         /\ alert' = alert => RecordedIsStored'
         /\ rows' = rows => SentWasMailed'
<1>1. \A t : Stored(t) => Stored(t)'
  BY DEF Grown, Stored
<1>2. ASSUME look' = look PROVE PendIsStored' /\ LookTold'
  <2>1. PendIsStored'
    BY <1>1, <1>2 DEF NInv, PendIsStored, Topic
  <2>2. look # Rest => LookTopic \in Topics
    BY LookTopicType DEF NInv
  <2>3. LookTold'
    BY <1>2, <2>2 DEF NInv, LookTold, Grown, LookTopic, Topic, Rest
  <2> QED
    BY <2>1, <2>3
<1>3. note' = note => NoteTold'
  BY AskType DEF NInv, NoteTold, Grown
<1>4. ASSUME NEW w \in DigestWorkers, dig[w] # Rest
      PROVE  /\ dig[w].batch \subseteq DOMAIN rows' /\ dig[w].marked \subseteq DOMAIN rows'
             /\ \A i \in dig[w].marked : mails'[rows'[i].topic] > 0
  BY <1>4, RowTopic DEF NInv, MarkedTold, Grown
<1>5. ASSUME alert' = alert PROVE RecordedIsStored'
  <2> SUFFICES ASSUME NEW c \in Clients, NEW m \in Months, alert'[m][c] # 0
               PROVE  \E i \in DOMAIN rows' : rows'[i].topic = Topic(c, alert'[m][c], m)
    BY DEF RecordedIsStored, Topic
  <2>1. Stored(Topic(c, alert[m][c], m))
    BY <1>5 DEF NInv, RecordedIsStored, Stored
  <2> QED
    BY <1>1, <1>5, <2>1 DEF Stored
<1>6. rows' = rows => SentWasMailed'
  BY RowTopic DEF NInv, SentWasMailed, Grown
<1> QED
  BY <1>1, <1>2, <1>3, <1>4, <1>5, <1>6 DEF MarkedTold

\* The thresholds that a commit writes have their notifications stored.
LEMMA RecordedKept ==
  ASSUME NInv, Grown, look # Rest, alert' = Recorded
  PROVE  RecordedIsStored'
<1> SUFFICES ASSUME NEW c \in Clients, NEW m \in Months, alert'[m][c] # 0
             PROVE  \E i \in DOMAIN rows' : rows'[i].topic = Topic(c, alert'[m][c], m)
  BY DEF RecordedIsStored, Topic
<1>1. alert'[m][c] = IF m = look.month /\ look.pend[c] # 0 THEN look.pend[c] ELSE alert[m][c]
  BY RecordedType DEF NInv
<1>2. Stored(Topic(c, alert'[m][c], m))
  BY <1>1 DEF NInv, PendIsStored, RecordedIsStored, Stored
<1> QED
  BY <1>2 DEF Stored, Grown

\* A row that is added is `sent' only if its client was written to.
LEMMA AddedKept ==
  ASSUME NInv, NEW t \in Topics, NEW status \in States \ {"pending"}, Store(t, status),
         mails' = mails, status = "sent" => mails[t] > 0
  PROVE  Grown /\ SentWasMailed' /\ Stored(t)'
<1>1. TypeOK
  BY DEF NInv
<1>2. /\ \A i \in DOMAIN rows : i \in DOMAIN rows' /\ rows'[i] = rows[i]
      /\ \E i \in DOMAIN rows' : rows'[i].topic = t
      /\ \A i \in DOMAIN rows' : i \in DOMAIN rows \/ rows'[i] = [topic |-> t, status |-> status]
  BY <1>1, StoreType
<1>3. \A i \in DOMAIN rows' : rows'[i].status = "sent" => mails[rows'[i].topic] > 0
  BY <1>2 DEF NInv, SentWasMailed
<1> QED
  BY <1>2, <1>3 DEF Grown, SentWasMailed, Stored

LEMMA LookKeeps ==
  ASSUME NInv, TypeOK', Beat \/ LookStep \/ LookFail PROVE NInv'
<1>0. TypeOK /\ note' = note /\ dig' = dig
  BY DEF NInv, Beat, LookStep, LookStart, LookNext, LookSend, LookCommit, LookEnd, LookFail
<1>1. CASE UNCHANGED <<rows, mails>> /\ ~LookSend /\ ~LookCommit
  <2>1. Grown
    BY <1>1 DEF Grown
  <2>2. SentWasMailed' /\ NoteTold' /\ MarkedTold'
    BY <1>0, <1>1, <2>1, GrownKeeps
  <2>3. PendIsStored' /\ LookTold' /\ RecordedIsStored'
    <3>1. CASE Beat
      BY <2>1, <3>1, GrownKeeps DEF Beat
    <3>2. CASE LookStart \/ LookFail
      <4>1. look' # Rest => look'.pc = "loop" /\ \A c \in Clients : look'.pend[c] = 0
        BY <3>2 DEF LookStart, LookFail
      <4>2. alert' = alert
        BY <3>2 DEF LookStart, LookFail
      <4> QED
        BY <2>1, <4>1, <4>2, GrownKeeps DEF PendIsStored, LookTold
    <3>3. ASSUME NEW c \in Clients, LookNext(c)
          PROVE  PendIsStored' /\ LookTold' /\ RecordedIsStored'
      <4>1. look \in LookJob /\ look # Rest /\ alert' = alert /\ look.pc = "loop"
        BY <1>0, <3>3, LookType DEF LookNext
      <4>2. look'.pend = look.pend /\ look'.month = look.month
        BY <3>3, <4>1 DEF LookNext, LookJob
      <4>3. look'.pc = "dispatch" => look'.status # "sent"
        <5>1. \A t : Inserted(t) # "sent"
          BY InsertedType
        <5> QED
          BY <3>3, <4>1, <5>1 DEF LookNext, LookJob
      <4>4. PendIsStored'
        BY <1>1, <4>1, <4>2 DEF NInv, PendIsStored, Stored, Topic
      <4> QED
        BY <2>1, <4>1, <4>3, <4>4, GrownKeeps DEF LookTold
    <3>4. CASE LookEnd
      <4>1. look # Rest /\ alert' = Recorded /\ look' = Rest
        BY <3>4 DEF LookEnd
      <4> QED
        BY <2>1, <4>1, RecordedKept DEF PendIsStored, LookTold
    <3> QED
      BY <1>1, <3>1, <3>2, <3>3, <3>4 DEF LookStep
  <2> QED
    BY <2>2, <2>3 DEF NInv
<1>2. CASE LookSend
  <2>1. PICK status \in {"sent", "failed"} :
          Sends(LookTopic, status) /\ look' = [look EXCEPT !.status = status]
    BY <1>2 DEF LookSend
  <2>2. look \in LookJob /\ look # Rest /\ alert' = alert /\ rows' = rows
    BY <1>0, <1>2, LookType DEF LookSend
  <2>3. LookTopic \in Topics
    BY <1>0, <2>2, LookTopicType
  <2>4. /\ look'.pend = look.pend /\ look'.c = look.c /\ look'.level = look.level
        /\ look'.month = look.month /\ look'.status = status
    BY <2>1, <2>2 DEF LookJob
  <2>5. /\ \A u \in Topics : mails[u] > 0 => mails'[u] > 0
        /\ status = "sent" => mails'[LookTopic] > 0
    BY <1>0, <2>1, <2>3, SendsType
  <2>6. Grown
    BY <2>2, <2>5 DEF Grown
  <2>7. PendIsStored'
    BY <2>2, <2>4 DEF NInv, PendIsStored, Stored, Topic
  <2>8. LookTold'
    BY <2>4, <2>5 DEF LookTold, LookTopic, Topic
  <2>9. SentWasMailed' /\ NoteTold' /\ MarkedTold' /\ RecordedIsStored'
    BY <1>0, <2>2, <2>6, GrownKeeps
  <2> QED
    BY <2>7, <2>8, <2>9 DEF NInv
<1>3. CASE LookCommit
  <2> DEFINE t == LookTopic
  <2>1. /\ look \in LookJob /\ look # Rest /\ look.pc = "dispatch" /\ look.status # "pending"
        /\ Store(t, look.status) /\ alert' = Recorded /\ mails' = mails
    BY <1>0, <1>3, LookType DEF LookCommit
  <2>2. t \in Topics /\ look.status \in States \ {"pending"}
    BY <1>0, <2>1, LookTopicType DEF LookJob
  <2>3. look.status = "sent" => mails[t] > 0
    BY <2>1 DEF NInv, LookTold
  <2>4. Grown /\ SentWasMailed' /\ \E i \in DOMAIN rows' : rows'[i].topic = t
    BY <2>1, <2>2, <2>3, AddedKept DEF Stored
  <2>5. /\ look'.pc = "loop" /\ look'.month = look.month
        /\ \A c \in Clients : look'.pend[c] = IF c = look.c THEN look.level ELSE 0
    BY <1>3, <2>1 DEF LookCommit, LookJob
  <2>6. PendIsStored'
    BY <2>4, <2>5 DEF PendIsStored, Stored, LookTopic, Topic
  <2>7. LookTold'
    BY <2>5 DEF LookTold
  <2>8. RecordedIsStored'
    BY <2>1, <2>4, RecordedKept
  <2>9. NoteTold' /\ MarkedTold'
    BY <1>0, <2>4, GrownKeeps
  <2> QED
    BY <2>4, <2>6, <2>7, <2>8, <2>9 DEF NInv
<1>4. LookSend \/ LookCommit \/ UNCHANGED <<rows, mails>>
  BY DEF Beat, LookStep, LookStart, LookNext, LookEnd, LookFail
<1> QED
  BY <1>1, <1>2, <1>3, <1>4

LEMMA NoteKeeps ==
  ASSUME NInv, TypeOK', NEW a \in Asks, NoteStep(a) \/ NoteFail(a) \/ NoteCrash(a)
  PROVE  NInv'
<1>0. TypeOK /\ a \in Topics /\ note[a] \in NoteJob /\ UNCHANGED <<look, dig, alert>>
  BY AskType DEF NInv, TypeOK, NoteStep, NoteStart, NoteSend, NoteCommit, NoteFail, NoteCrash
<1>1. ASSUME Grown, SentWasMailed', \A b \in Asks \ {a} : note'[b] = note[b],
             note'[a].pc = "dispatch" /\ note'[a].status = "sent" => mails'[a] > 0
      PROVE  NInv'
  <2>1. NoteTold'
    BY <1>1, AskType DEF NInv, NoteTold, Grown
  <2> QED
    BY <1>0, <1>1, <2>1, GrownKeeps DEF NInv
<1>2. CASE NoteSend(a)
  <2>1. PICK status \in {"sent", "failed"} :
          Sends(a, status) /\ note' = [note EXCEPT ![a].status = status]
    BY <1>2 DEF NoteSend
  <2>2. rows' = rows /\ note'[a].status = status /\ \A b \in Asks \ {a} : note'[b] = note[b]
    BY <1>0, <1>2, <2>1 DEF NoteSend, TypeOK, NoteJob
  <2>3. /\ \A u \in Topics : mails[u] > 0 => mails'[u] > 0
        /\ status = "sent" => mails'[a] > 0
    BY <1>0, <2>1, SendsType
  <2>4. Grown
    BY <2>2, <2>3 DEF Grown
  <2> QED
    BY <1>1, <2>2, <2>3, <2>4, GrownKeeps
<1>3. CASE NoteCommit(a)
  <2>1. /\ Store(a, note[a].status) /\ mails' = mails /\ note[a].pc = "dispatch"
        /\ note[a].status \in States \ {"pending"}
        /\ note'[a].pc = "done" /\ \A b \in Asks \ {a} : note'[b] = note[b]
    BY <1>0, <1>3 DEF NoteCommit, TypeOK, NoteJob
  <2>2. note[a].status = "sent" => mails[a] > 0
    BY <2>1 DEF NInv, NoteTold
  <2>3. Grown /\ SentWasMailed'
    BY <1>0, <2>1, <2>2, AddedKept
  <2> QED
    BY <1>1, <2>1, <2>3
<1>4. CASE NoteStart(a) \/ NoteFail(a) \/ NoteCrash(a)
  <2>1. UNCHANGED <<rows, mails>> /\ \A b \in Asks \ {a} : note'[b] = note[b]
    BY <1>4 DEF NoteStart, NoteFail, NoteCrash, TypeOK
  <2>2. note'[a].pc # "dispatch" \/ note'[a].status # "sent"
    <3>1. CASE NoteStart(a)
      <4>1. note'[a].status = Inserted(a)
        BY <1>0, <3>1 DEF NoteStart, TypeOK, NoteJob
      <4> QED
        BY <4>1, InsertedType
    <3>2. CASE NoteFail(a)
      BY <1>0, <3>2 DEF NoteFail, TypeOK, NoteJob
    <3>3. CASE NoteCrash(a)
      BY <1>0, <3>3 DEF NoteCrash, TypeOK, NoteJob
    <3> QED
      BY <1>4, <3>1, <3>2, <3>3
  <2>3. Grown
    BY <2>1 DEF Grown
  <2> QED
    BY <1>1, <2>1, <2>2, <2>3, GrownKeeps
<1> QED
  BY <1>2, <1>3, <1>4 DEF NoteStep

LEMMA DigestKeeps ==
  ASSUME NInv, TypeOK', NEW w \in DigestWorkers, DigestStep(w) \/ DigestFail(w)
  PROVE  NInv'
<1>0. /\ TypeOK /\ UNCHANGED <<look, note, alert>>
      /\ \A v \in DigestWorkers \ {w} : dig'[v] = dig[v]
  BY DEF NInv, TypeOK, DigestStep, DigestStart, DigestNext, DigestMail, DigestEnd, DigestFail
<1>1. ASSUME Grown, SentWasMailed',
             dig'[w] # Rest =>
               /\ dig'[w].batch \subseteq DOMAIN rows' /\ dig'[w].marked \subseteq DOMAIN rows'
               /\ \A i \in dig'[w].marked : mails'[rows'[i].topic] > 0
      PROVE  NInv'
  <2>1. MarkedTold'
    BY <1>0, <1>1, GrownKeeps DEF MarkedTold
  <2> QED
    BY <1>0, <1>1, <2>1, GrownKeeps DEF NInv
<1>2. CASE DigestStart(w)
  <2>1. UNCHANGED <<rows, mails>> /\ dig'[w].batch = {} /\ dig'[w].marked = {}
    BY <1>0, <1>2 DEF DigestStart, TypeOK
  <2>2. Grown
    BY <2>1 DEF Grown
  <2> QED
    BY <1>1, <2>1, <2>2, GrownKeeps
<1>3. ASSUME NEW c \in Clients, DigestNext(w, c) PROVE NInv'
  <2>1. dig[w] # Rest /\ dig[w] \in DigJob /\ UNCHANGED <<rows, mails>>
    BY <1>0, <1>3, DigType DEF DigestNext
  <2>2. dig'[w].marked = dig[w].marked /\ (dig'[w].batch = dig[w].batch \/ dig'[w].batch = Deferred(c))
    BY <1>0, <1>3, <2>1 DEF DigestNext, TypeOK, DigJob
  <2>3. Grown
    BY <2>1 DEF Grown
  <2>4. Deferred(c) \subseteq DOMAIN rows
    BY <1>0, DeferredRows
  <2> QED
    BY <1>1, <2>1, <2>2, <2>3, <2>4, GrownKeeps DEF NInv, MarkedTold
<1>4. CASE DigestMail(w)
  <2> DEFINE sent == TopicsOf(dig[w].batch)
  <2>1. dig[w] # Rest /\ dig[w] \in DigJob /\ rows' = rows
    BY <1>0, <1>4, DigType DEF DigestMail
  <2>2. \/ Wrote(sent) /\ dig'[w].batch = {} /\ dig'[w].marked = dig[w].marked \cup dig[w].batch
        \/ /\ Wrote(sent) \/ UNCHANGED mails
           /\ dig'[w].batch = {} /\ dig'[w].marked = dig[w].marked
    BY <1>0, <1>4, <2>1 DEF DigestMail, TypeOK, DigJob
  <2>3. \A t \in Topics : mails[t] > 0 => mails'[t] > 0
    BY <1>0, <2>2, WroteType
  <2>4. Grown
    BY <2>1, <2>3 DEF Grown
  <2>5. dig[w].batch \subseteq DOMAIN rows /\ dig[w].marked \subseteq DOMAIN rows
    BY <2>1 DEF NInv, MarkedTold
  <2>6. \A i \in dig[w].marked : mails'[rows[i].topic] > 0
    BY <1>0, <2>1, <2>3, <2>5, RowTopic DEF NInv, MarkedTold
  <2>7. Wrote(sent) => \A i \in dig[w].batch : mails'[rows[i].topic] > 0
    BY <1>0, <2>5, RowTopic, WroteType DEF TopicsOf
  <2> HIDE DEF sent
  <2> QED
    BY <1>1, <2>1, <2>2, <2>4, <2>5, <2>6, <2>7, GrownKeeps
<1>5. CASE DigestEnd(w)
  <2> DEFINE M == dig[w].marked
  <2>1. /\ dig[w] # Rest /\ dig'[w] = Rest /\ mails' = mails
        /\ rows' = [i \in DOMAIN rows |->
                      IF i \in M THEN [rows[i] EXCEPT !.status = "sent"] ELSE rows[i]]
    BY <1>0, <1>5 DEF DigestEnd, TypeOK
  <2>2. \A i \in M : mails[rows[i].topic] > 0
    BY <2>1 DEF NInv, MarkedTold
  <2> HIDE DEF M
  <2>3. /\ DOMAIN rows' = DOMAIN rows
        /\ \A i \in DOMAIN rows : rows'[i].topic = rows[i].topic
        /\ \A i \in DOMAIN rows : rows'[i].status = "sent" => rows[i].status = "sent" \/ i \in M
    BY <1>0, <2>1, MarkType
  <2>4. Grown
    BY <2>1, <2>3 DEF Grown
  <2>5. SentWasMailed'
    BY <2>1, <2>2, <2>3 DEF NInv, SentWasMailed
  <2> QED
    BY <1>1, <2>1, <2>4, <2>5
<1>6. CASE DigestFail(w)
  <2>1. UNCHANGED <<rows, mails>> /\ dig'[w] = Rest
    BY <1>0, <1>6 DEF DigestFail, TypeOK
  <2>2. Grown
    BY <2>1 DEF Grown
  <2> QED
    BY <1>1, <2>1, <2>2, GrownKeeps
<1> QED
  BY <1>2, <1>3, <1>4, <1>5, <1>6 DEF DigestStep

LEMMA AccountKeeps ==
  ASSUME NInv, TypeOK', (\E c \in Clients : Charge(c) \/ Change(c)) \/ NewMonth \/ UNCHANGED vars
  PROVE  NInv'
<1>1. UNCHANGED <<rows, mails, look, note, dig, alert>>
  BY DEF Charge, Change, NewMonth, vars
<1>2. Grown
  BY <1>1 DEF Grown
<1> QED
  BY <1>1, <1>2, GrownKeeps DEF NInv

THEOREM Invariant == Spec => []NInv
<1>1. Init => NInv
  BY InitType DEF Init, NInv, PendIsStored, LookTold, NoteTold, MarkedTold, RecordedIsStored,
                  SentWasMailed, Rest
<1>2. NInv /\ [Next]_vars => NInv'
  <2> SUFFICES ASSUME NInv, [Next]_vars PROVE NInv'
    OBVIOUS
  <2>1. TypeOK'
    BY NextType DEF NInv
  <2> QED
    BY <2>1, LookKeeps, NoteKeeps, DigestKeeps, AccountKeeps DEF Next
<1> QED
  BY <1>1, <1>2, PTL DEF Spec

\* A threshold is recorded only with its notification stored, although the commit
\* that writes it is that of another client's notification.
THEOREM RecordedAreStored == Spec => []RecordedIsStored
  BY Invariant, PTL DEF NInv

\* No notification is marked sent without a mail, by the service or by a digest.
THEOREM SentWereMailed == Spec => []SentWasMailed
  BY Invariant, PTL DEF NInv

-----------------------------------------------------------------------------
(* How often a client is told.                                             *)

(***************************************************************************)
(* The bound is on mails, and a mail may still be to come.  The argument   *)
(* spends a budget: Workers for every occasion and every fault.  An        *)
(* occasion that is open (its notification not sent or stored) holds       *)
(* Workers.  One stored as deferred is a debt to each worker, which may    *)
(* read the row before another has marked it; a worker that has mailed one *)
(* has paid it, and is ahead with those it will mark at its end.           *)
(***************************************************************************)

Workers == Cardinality(DigestWorkers)

\* A message's notification may still be sent, or stored for the digests.
NoteOpen(t) ==
  /\ t \in Asks
  /\ \/ note[t].pc = "queued"
     \/ note[t].pc = "dispatch" /\ note[t].status \in {"pending", "deferred"}

Level(t) == IF t[2] = "quota_exhausted" THEN 100 ELSE 80

\* So may the one about a threshold.
LookOpen(t) ==
  /\ t[2] \in {"quota_warning_80", "quota_exhausted"}
  /\ alert[t[3]][t[1]] < Level(t)
  /\ look # Rest /\ look.month = t[3] =>
       /\ look.pend[t[1]] < Level(t)
       /\ ~(/\ look.pc = "dispatch" /\ look.c = t[1] /\ look.level = Level(t)
            /\ look.status \in {"sent", "failed"})

Held(open) == IF open THEN Workers ELSE 0

\* Rows a worker is about to mail or to mark.
Ahead(w) == IF dig[w] = Rest THEN {} ELSE dig[w].batch \cup dig[w].marked

\* Rows about t that a worker has mailed and will mark.
Told(w, t) == IF dig[w] = Rest THEN {} ELSE {i \in dig[w].marked : rows[i].topic = t}

Paid(w, t, i) == Told(w, t) # {} /\ i = CHOOSE x \in Told(w, t) : TRUE

Debt(t) ==
  {p \in DigestWorkers \X DOMAIN rows :
     /\ rows[p[2]].topic = t
     /\ rows[p[2]].status = "deferred" \/ p[2] \in Ahead(p[1])
     /\ ~Paid(p[1], t, p[2])}

Spent(t) ==
  mails[t] + Cardinality(Debt(t)) + Held(NoteOpen(t)) + Held(LookOpen(t))

WithinBudget == \A t \in Topics : Spent(t) <= (Occasions(t) + faults) * Workers

\* A client that is looked at has no threshold to be written; one that has was not
\* told so much before.
LookShape ==
  look # Rest =>
    /\ \A c \in look.todo : look.pend[c] = 0
    /\ \A c \in Clients : look.pend[c] # 0 => alert[look.month][c] < look.pend[c]
    /\ look.pc = "dispatch" =>
         /\ look.c \notin look.todo /\ look.pend[look.c] = 0
         /\ alert[look.month][look.c] < look.level

\* A digest comes to each client once.
DigShape ==
  \A w \in DigestWorkers : dig[w] # Rest =>
    /\ dig[w].pc = "loop" => dig[w].batch = {}
    /\ dig[w].pc = "mail" => dig[w].c \notin dig[w].todo
    /\ \A i \in dig[w].batch : rows[i].topic[1] = dig[w].c
    /\ \A i \in dig[w].marked :
         /\ rows[i].topic[1] \notin dig[w].todo
         /\ dig[w].pc = "mail" => rows[i].topic[1] # dig[w].c

BInv == NInv /\ LookShape /\ DigShape /\ WithinBudget

LEMMA WorkersType == Workers \in Nat /\ Workers >= 1
<1>1. Workers \in Nat /\ (Workers = 0 <=> DigestWorkers = {})
  BY NoticesAssumption, FS_CardinalityType, FS_EmptySet DEF Workers
<1> QED
  BY <1>1, NoticesAssumption

LEMMA HeldType ==
  ASSUME NEW open PROVE Held(open) \in Nat /\ Held(open) <= Workers
  BY WorkersType DEF Held

LEMMA HeldLess ==
  ASSUME NEW open \in BOOLEAN, NEW later \in BOOLEAN, later => open
  PROVE  Held(later) <= Held(open)
  BY WorkersType DEF Held

LEMMA OpenTypes ==
  ASSUME NEW t PROVE /\ NoteOpen(t) \in BOOLEAN /\ LookOpen(t) \in BOOLEAN
                     /\ NoteOpen(t)' \in BOOLEAN /\ LookOpen(t)' \in BOOLEAN
  BY DEF NoteOpen, LookOpen

LEMMA Pairs ==
  ASSUME NEW n \in Nat, NEW X, X \subseteq DigestWorkers \X (1 .. n)
  PROVE  IsFiniteSet(X) /\ Cardinality(X) \in Nat
<1>1. IsFiniteSet(1 .. n)
  BY FS_Interval
<1>2. IsFiniteSet(DigestWorkers \X (1 .. n))
  BY <1>1, NoticesAssumption, FS_Product
<1> QED
  BY <1>2, FS_Subset, FS_CardinalityType

LEMMA DebtFinite ==
  ASSUME TypeOK, NEW t
  PROVE  IsFiniteSet(Debt(t)) /\ Cardinality(Debt(t)) \in Nat
<1>1. rows \in Seq(Row)
  BY DEF TypeOK, Row
<1>2. Len(rows) \in Nat /\ DOMAIN rows = 1 .. Len(rows)
  BY <1>1
<1>3. Debt(t) \subseteq DigestWorkers \X (1 .. Len(rows))
  BY <1>2 DEF Debt
<1> QED
  BY <1>2, <1>3, Pairs

LEMMA DebtFiniteNext ==
  ASSUME TypeOK', NEW t
  PROVE  IsFiniteSet(Debt(t)') /\ Cardinality(Debt(t)') \in Nat
<1>1. rows' \in Seq(Row)
  BY DEF TypeOK, Row
<1>2. Len(rows') \in Nat /\ DOMAIN rows' = 1 .. Len(rows')
  BY <1>1
<1>3. Debt(t)' \subseteq DigestWorkers \X (1 .. Len(rows'))
  BY <1>2 DEF Debt
<1> QED
  BY <1>2, <1>3, Pairs

\* What a debt becomes: less, one less, one more, or one to each worker more.
LEMMA DebtLess ==
  ASSUME TypeOK, NEW t, Debt(t)' \subseteq Debt(t)
  PROVE  Cardinality(Debt(t)') <= Cardinality(Debt(t))
  BY DebtFinite, FS_Subset

LEMMA DebtPaid ==
  ASSUME TypeOK, NEW t, NEW p \in Debt(t), Debt(t)' \subseteq Debt(t) \ {p}
  PROVE  Cardinality(Debt(t)') + 1 <= Cardinality(Debt(t))
<1> DEFINE rest == Debt(t) \ {p}
<1>1. IsFiniteSet(Debt(t)) /\ Cardinality(Debt(t)) \in Nat
  BY DebtFinite
<1>2. IsFiniteSet(rest) /\ Cardinality(rest) = Cardinality(Debt(t)) - 1
  BY <1>1, FS_RemoveElement
<1>3. Debt(t)' \subseteq rest
  OBVIOUS
<1> HIDE DEF rest
<1>4. IsFiniteSet(Debt(t)') /\ Cardinality(Debt(t)') <= Cardinality(rest)
  BY <1>2, <1>3, FS_Subset
<1>5. Cardinality(Debt(t)') \in Nat
  BY <1>4, FS_CardinalityType
<1> QED
  BY <1>1, <1>2, <1>4, <1>5

LEMMA DebtMore ==
  ASSUME TypeOK, TypeOK', NEW t, NEW new, IsFiniteSet(new),
         Debt(t)' \subseteq Debt(t) \cup new
  PROVE  Cardinality(Debt(t)') <= Cardinality(Debt(t)) + Cardinality(new)
<1> DEFINE all == Debt(t) \cup new
           both == Debt(t) \cap new
<1>1. IsFiniteSet(Debt(t)) /\ Cardinality(Debt(t)) \in Nat /\ Cardinality(new) \in Nat
  BY DebtFinite, FS_CardinalityType
<1>2. IsFiniteSet(all) /\ Cardinality(all) = Cardinality(Debt(t)) + Cardinality(new) - Cardinality(both)
  BY <1>1, FS_Union
<1>3. IsFiniteSet(both) /\ Cardinality(both) \in Nat
  BY <1>1, FS_Intersection, FS_CardinalityType
<1>4. Debt(t)' \subseteq all
  OBVIOUS
<1>5. Cardinality(Debt(t)') \in Nat
  BY DebtFiniteNext
<1> HIDE DEF all, both
<1>6. Cardinality(Debt(t)') <= Cardinality(all)
  BY <1>2, <1>4, FS_Subset
<1> QED
  BY <1>1, <1>2, <1>3, <1>5, <1>6

LEMMA DebtToEach ==
  ASSUME TypeOK, TypeOK', NEW t, NEW n,
         Debt(t)' \subseteq Debt(t) \cup (DigestWorkers \X {n})
  PROVE  Cardinality(Debt(t)') <= Cardinality(Debt(t)) + Workers
<1>1. IsFiniteSet({n}) /\ Cardinality({n}) = 1
  BY FS_Singleton
<1>2. /\ IsFiniteSet(DigestWorkers \X {n})
      /\ Cardinality(DigestWorkers \X {n}) = Cardinality(DigestWorkers) * Cardinality({n})
  BY <1>1, NoticesAssumption, FS_Product
<1>3. Cardinality(DigestWorkers \X {n}) = Workers
  BY <1>1, <1>2, WorkersType DEF Workers
<1> QED
  BY <1>2, <1>3, DebtMore

LEMMA SpentTypes ==
  ASSUME TypeOK, TypeOK', NEW t \in Topics
  PROVE  /\ mails[t] \in Nat /\ mails'[t] \in Nat
         /\ faults \in Nat /\ faults' \in Nat /\ Workers \in Nat /\ Workers >= 1
         /\ Cardinality(Debt(t)) \in Nat /\ Cardinality(Debt(t)') \in Nat
         /\ Held(NoteOpen(t)) \in Nat /\ Held(LookOpen(t)) \in Nat
         /\ Held(NoteOpen(t)') \in Nat /\ Held(LookOpen(t)') \in Nat
         /\ Held(NoteOpen(t)') <= Workers /\ Held(LookOpen(t)') <= Workers
         /\ Spent(t) = mails[t] + Cardinality(Debt(t)) + Held(NoteOpen(t)) + Held(LookOpen(t))
         /\ Spent(t)' = mails'[t] + Cardinality(Debt(t)') + Held(NoteOpen(t)') + Held(LookOpen(t)')
<1>1. mails[t] \in Nat /\ mails'[t] \in Nat /\ faults \in Nat /\ faults' \in Nat
  BY NoticesAssumption DEF TypeOK
<1>2. Spent(t)' = mails'[t] + Cardinality(Debt(t)') + Held(NoteOpen(t)') + Held(LookOpen(t)')
  BY DEF Spent, Held, Workers
<1> QED
  BY <1>1, <1>2, WorkersType, HeldType, DebtFinite, DebtFiniteNext DEF Spent

\* A step spends nothing, or a fault pays for what it spends.
Fits(t) ==
  \/ faults' = faults /\ Spent(t)' <= Spent(t)
  \/ faults' = faults + 1 /\ Spent(t)' <= Spent(t) + Workers

LEMMA FitsKeeps ==
  ASSUME TypeOK, TypeOK', WithinBudget, \A t \in Topics : Fits(t)
  PROVE  WithinBudget'
<1> SUFFICES ASSUME NEW t \in Topics
             PROVE  Spent(t)' <= (Occasions(t) + faults') * Workers
  BY DEF WithinBudget, Occasions, Workers
<1> DEFINE o == Occasions(t)
           s == Spent(t)
           z == Spent(t)'
<1>1. o \in Nat /\ s \in Nat /\ z \in Nat /\ faults \in Nat /\ Workers \in Nat
  BY SpentTypes DEF Occasions
<1>2. s <= (o + faults) * Workers
  BY DEF WithinBudget
<1>3. \/ faults' = faults /\ z <= s
      \/ faults' = faults + 1 /\ z <= s + Workers
  BY DEF Fits
<1> HIDE DEF o, s, z
<1> DEFINE b == (o + faults) * Workers
           c == (o + faults') * Workers
<1>4. faults' = faults => c = b
  OBVIOUS
<1>5. faults' = faults + 1 => c = b + Workers
  BY <1>1
<1>6. b \in Nat
  BY <1>1
<1> HIDE DEF b, c
<1>7. s <= b
  BY <1>2 DEF b
<1>8. z <= c
  BY <1>1, <1>3, <1>4, <1>5, <1>6, <1>7
<1> QED
  BY <1>8 DEF c, o, z

-----------------------------------------------------------------------------
(* The steps of the look.                                                  *)

\* A step in which nobody's rows or digests move.
LEMMA SameDebt ==
  ASSUME NEW t, rows' = rows, dig' = dig PROVE Debt(t)' = Debt(t)
  BY DEF Debt, Ahead, Paid, Told

LEMMA SameOpen ==
  ASSUME NEW t
  PROVE  /\ note' = note => NoteOpen(t)' = NoteOpen(t)
         /\ look' = look /\ alert' = alert => LookOpen(t)' = LookOpen(t)
  BY DEF NoteOpen, LookOpen, Rest

\* A step that opens nothing, adds no debt and writes no mail.
LEMMA QuietFits ==
  ASSUME TypeOK, TypeOK', NEW t \in Topics, faults' = faults, mails'[t] <= mails[t],
         Debt(t)' \subseteq Debt(t), NoteOpen(t)' => NoteOpen(t), LookOpen(t)' => LookOpen(t)
  PROVE  Fits(t)
<1>1. /\ Held(NoteOpen(t)') <= Held(NoteOpen(t))
      /\ Held(LookOpen(t)') <= Held(LookOpen(t))
  BY OpenTypes, HeldLess
<1>2. Cardinality(Debt(t)') <= Cardinality(Debt(t))
  BY DebtLess
<1> QED
  BY <1>1, <1>2, SpentTypes DEF Fits

\* What is added to a row of mails by one that is written.
LEMMA SendsOne ==
  ASSUME TypeOK, NEW t \in Topics, NEW status \in {"sent", "failed"}, Sends(t, status)
  PROVE  /\ \A u \in Topics \ {t} : mails'[u] = mails[u]
         /\ mails'[t] = mails[t] \/ mails'[t] = mails[t] + 1
         /\ faults' = faults \/ faults' = faults + 1
  BY DEF Sends, Wrote, Fault, TypeOK

\* The mail of an occasion is paid by what it held.
LEMMA SentFits ==
  ASSUME TypeOK, TypeOK', NEW t \in Topics, mails'[t] <= mails[t] + 1,
         faults' = faults \/ faults' = faults + 1, Debt(t)' \subseteq Debt(t),
         \/ NoteOpen(t) /\ ~NoteOpen(t)' /\ (LookOpen(t)' => LookOpen(t))
         \/ LookOpen(t) /\ ~LookOpen(t)' /\ (NoteOpen(t)' => NoteOpen(t))
  PROVE  Fits(t)
<1>1. Cardinality(Debt(t)') <= Cardinality(Debt(t))
  BY DebtLess
<1>2. Held(NoteOpen(t)') + Held(LookOpen(t)') + Workers
        <= Held(NoteOpen(t)) + Held(LookOpen(t))
  <2>1. CASE NoteOpen(t) /\ ~NoteOpen(t)' /\ (LookOpen(t)' => LookOpen(t))
    <3>1. Held(LookOpen(t)') <= Held(LookOpen(t))
      BY <2>1, OpenTypes, HeldLess
    <3>2. Held(NoteOpen(t)) = Workers /\ Held(NoteOpen(t)') = 0
      BY <2>1 DEF Held
    <3> QED
      BY <3>1, <3>2, SpentTypes
  <2>2. CASE LookOpen(t) /\ ~LookOpen(t)' /\ (NoteOpen(t)' => NoteOpen(t))
    <3>1. Held(NoteOpen(t)') <= Held(NoteOpen(t))
      BY <2>2, OpenTypes, HeldLess
    <3>2. Held(LookOpen(t)) = Workers /\ Held(LookOpen(t)') = 0
      BY <2>2 DEF Held
    <3> QED
      BY <3>1, <3>2, SpentTypes
  <2> QED
    BY <2>1, <2>2
<1> QED
  BY <1>1, <1>2, SpentTypes DEF Fits

\* A fault pays for one occasion that is open again.
LEMMA FaultFits ==
  ASSUME TypeOK, TypeOK', NEW t \in Topics, faults' = faults + 1, mails'[t] <= mails[t],
         Debt(t)' \subseteq Debt(t),
         (NoteOpen(t)' => NoteOpen(t)) \/ (LookOpen(t)' => LookOpen(t))
  PROVE  Fits(t)
<1>1. Cardinality(Debt(t)') <= Cardinality(Debt(t))
  BY DebtLess
<1>2. Held(NoteOpen(t)') + Held(LookOpen(t)')
        <= Held(NoteOpen(t)) + Held(LookOpen(t)) + Workers
  <2>1. CASE NoteOpen(t)' => NoteOpen(t)
    <3>1. Held(NoteOpen(t)') <= Held(NoteOpen(t))
      BY <2>1, OpenTypes, HeldLess
    <3> QED
      BY <3>1, SpentTypes
  <2>2. CASE LookOpen(t)' => LookOpen(t)
    <3>1. Held(LookOpen(t)') <= Held(LookOpen(t))
      BY <2>2, OpenTypes, HeldLess
    <3> QED
      BY <3>1, SpentTypes
  <2> QED
    BY <2>1, <2>2
<1> QED
  BY <1>1, <1>2, SpentTypes DEF Fits

\* An occasion whose notification is stored for the digests is their debt.
LEMMA DeferredFits ==
  ASSUME TypeOK, TypeOK', NEW t \in Topics, mails'[t] <= mails[t], faults' = faults,
         NEW n, Debt(t)' \subseteq Debt(t) \cup (DigestWorkers \X {n}),
         \/ NoteOpen(t) /\ ~NoteOpen(t)' /\ (LookOpen(t)' => LookOpen(t))
         \/ LookOpen(t) /\ ~LookOpen(t)' /\ (NoteOpen(t)' => NoteOpen(t))
  PROVE  Fits(t)
<1>1. Cardinality(Debt(t)') <= Cardinality(Debt(t)) + Workers
  BY DebtToEach
<1>2. Held(NoteOpen(t)') + Held(LookOpen(t)') + Workers
        <= Held(NoteOpen(t)) + Held(LookOpen(t))
  <2>1. CASE NoteOpen(t) /\ ~NoteOpen(t)' /\ (LookOpen(t)' => LookOpen(t))
    <3>1. Held(LookOpen(t)') <= Held(LookOpen(t))
      BY <2>1, OpenTypes, HeldLess
    <3>2. Held(NoteOpen(t)) = Workers /\ Held(NoteOpen(t)') = 0
      BY <2>1 DEF Held
    <3> QED
      BY <3>1, <3>2, SpentTypes
  <2>2. CASE LookOpen(t) /\ ~LookOpen(t)' /\ (NoteOpen(t)' => NoteOpen(t))
    <3>1. Held(NoteOpen(t)') <= Held(NoteOpen(t))
      BY <2>2, OpenTypes, HeldLess
    <3>2. Held(LookOpen(t)) = Workers /\ Held(LookOpen(t)') = 0
      BY <2>2 DEF Held
    <3> QED
      BY <3>1, <3>2, SpentTypes
  <2> QED
    BY <2>1, <2>2
<1> QED
  BY <1>1, <1>2, SpentTypes DEF Fits

\* A row that is stored is a debt only if it is deferred.
LEMMA StoredDebt ==
  ASSUME NInv, NEW u \in Topics, NEW status \in States \ {"pending"}, Store(u, status),
         dig' = dig, NEW t
  PROVE  /\ \E n : Debt(t)' \subseteq Debt(t) \cup (DigestWorkers \X {n})
         /\ status # "deferred" \/ t # u => Debt(t)' \subseteq Debt(t)
<1> DEFINE new == [topic |-> u, status |-> status]
           n == Len(rows) + 1
<1>1. /\ Len(rows) \in Nat /\ DOMAIN rows = 1 .. Len(rows) /\ DOMAIN rows' = 1 .. n
      /\ \A i \in 1 .. Len(rows) : rows'[i] = rows[i]
      /\ rows'[n] = new
  <2>1. rows \in Seq(Row) /\ new \in Row /\ rows' = Append(rows, new)
    BY DEF NInv, TypeOK, Row, Store
  <2> HIDE DEF new
  <2> QED
    BY <2>1
<1>2. \A w \in DigestWorkers : dig[w] # Rest =>
        dig[w].batch \subseteq DOMAIN rows /\ dig[w].marked \subseteq DOMAIN rows
  BY DEF NInv, MarkedTold
<1>3. \A w \in DigestWorkers : Told(w, t)' = Told(w, t) /\ Ahead(w)' = Ahead(w)
  BY <1>1, <1>2 DEF Told, Ahead, Rest
<1>4. \A w \in DigestWorkers : n \notin Ahead(w)
  BY <1>1, <1>2 DEF Ahead
<1>5. new.topic = u /\ new.status = status
  OBVIOUS
<1> HIDE DEF new, n
<1>6. ASSUME NEW p \in Debt(t)'
      PROVE  p \in Debt(t) \/ (p \in DigestWorkers \X {n} /\ status = "deferred" /\ t = u)
  <2>1. /\ p \in DigestWorkers \X DOMAIN rows' /\ rows'[p[2]].topic = t
        /\ rows'[p[2]].status = "deferred" \/ p[2] \in Ahead(p[1])'
        /\ ~(Told(p[1], t)' # {} /\ p[2] = CHOOSE x \in Told(p[1], t)' : TRUE)
    BY <1>6 DEF Debt, Paid
  <2>2. p[1] \in DigestWorkers /\ p = <<p[1], p[2]>> /\ (p[2] \in 1 .. Len(rows) \/ p[2] = n)
    BY <1>1, <2>1 DEF n
  <2>3. Told(p[1], t)' = Told(p[1], t) /\ Ahead(p[1])' = Ahead(p[1])
    BY <1>3, <2>2
  <2>4. CASE p[2] \in 1 .. Len(rows)
    <3>1. rows'[p[2]] = rows[p[2]] /\ p \in DigestWorkers \X DOMAIN rows
      BY <1>1, <2>2, <2>4
    <3> QED
      BY <2>1, <2>3, <3>1 DEF Debt, Paid
  <2>5. CASE p[2] = n
    BY <1>1, <1>4, <1>5, <2>1, <2>2, <2>3, <2>5
  <2> QED
    BY <2>2, <2>4, <2>5
<1> QED
  BY <1>6

LEMMA TopicLevel ==
  ASSUME NEW c, NEW level \in {80, 100}, NEW m
  PROVE  /\ Topic(c, level, m)[1] = c /\ Topic(c, level, m)[3] = m
         /\ Level(Topic(c, level, m)) = level
         /\ Topic(c, level, m)[2] \in {"quota_warning_80", "quota_exhausted"}
  BY DEF Topic, Level

\* What a commit writes closes nothing that it did not.
LEMMA RecordedOpen ==
  ASSUME TypeOK, LookShape, look # Rest, alert' = Recorded, NEW t \in Topics, LookOpen(t)'
  PROVE  /\ alert[t[3]][t[1]] < Level(t)
         /\ look.month = t[3] => look.pend[t[1]] < Level(t)
<1> DEFINE c == t[1]
           m == t[3]
           old == alert[m][c]
<1>1. c \in Clients /\ m \in Months /\ look \in LookJob
  BY LookType DEF Topics
<1>2. look.pend[c] \in Thresholds /\ old \in Thresholds
  BY <1>1 DEF TypeOK, LookJob
<1>3. alert'[m][c] = IF m = look.month /\ look.pend[c] # 0 THEN look.pend[c] ELSE old
  BY <1>1, RecordedType
<1>4. alert'[m][c] < Level(t)
  BY DEF LookOpen, Level
<1>5. m = look.month /\ look.pend[c] # 0 => old < look.pend[c]
  BY <1>1 DEF LookShape
<1>6. Level(t) \in {80, 100}
  BY DEF Level
<1> HIDE DEF c, m, old
<1>7. old < Level(t) /\ (look.month = m => look.pend[c] < Level(t))
  BY <1>2, <1>3, <1>4, <1>5, <1>6 DEF Thresholds
<1> QED
  BY <1>7 DEF c, m, old

LEMMA LookFits ==
  ASSUME BInv, TypeOK', Beat \/ LookStep \/ LookFail, NEW t \in Topics PROVE Fits(t)
<1>0. /\ TypeOK /\ NInv /\ LookShape /\ note' = note /\ dig' = dig
      /\ NoteOpen(t)' = NoteOpen(t) /\ t[1] \in Clients
      /\ t[3] \in Months
      /\ mails[t] \in Nat /\ alert[t[3]][t[1]] \in Thresholds /\ Level(t) \in {80, 100}
  <2>1. note' = note /\ dig' = dig
    BY DEF Beat, LookStep, LookStart, LookNext, LookSend, LookCommit, LookEnd, LookFail
  <2>2. t[1] \in Clients /\ t[3] \in Months
    BY DEF Topics
  <2> QED
    BY <2>1, <2>2, SameOpen DEF BInv, NInv, TypeOK, Level
<1>1. ASSUME rows' = rows PROVE Debt(t)' \subseteq Debt(t)
  BY <1>0, <1>1, SameDebt
<1>2. CASE Beat
  BY <1>0, <1>1, <1>2, SameOpen, QuietFits DEF Beat
<1>3. CASE LookStart
  <2>1. look = Rest /\ look' # Rest /\ look'.pend = [c \in Clients |-> 0] /\ alert' = alert
    BY <1>3 DEF LookStart, Rest
  <2>2. LookOpen(t)' => LookOpen(t)
    BY <2>1 DEF LookOpen, Level
  <2> QED
    BY <1>0, <1>1, <1>3, <2>2, QuietFits DEF LookStart
<1>4. ASSUME NEW c \in Clients, LookNext(c) PROVE Fits(t)
  <2>1. look \in LookJob /\ look # Rest /\ look.pc = "loop" /\ alert' = alert
    BY <1>0, <1>4, LookType DEF LookNext
  <2>2. look'.pend = look.pend /\ look'.month = look.month /\ look' # Rest
    <3> DEFINE level == IF look.quotas[c] <= 0 THEN 0 ELSE Crossed(c, look.month, look.quotas[c])
               skip == [look EXCEPT !.todo = @ \ {c}]
               send == [look EXCEPT !.pc = "dispatch", !.todo = @ \ {c}, !.c = c,
                                    !.level = level, !.status = Inserted(Topic(c, level, look.month))]
    <3>1. look' = IF level = 0 THEN skip ELSE send
      BY <1>4 DEF LookNext
    <3> HIDE DEF level
    <3>2. /\ skip.pend = look.pend /\ skip.month = look.month /\ skip # Rest
          /\ send.pend = look.pend /\ send.month = look.month /\ send # Rest
      BY <2>1 DEF LookJob, Rest
    <3> QED
      BY <3>1, <3>2
  <2>3. LookOpen(t)' => LookOpen(t)
    BY <2>1, <2>2 DEF LookOpen
  <2> QED
    BY <1>0, <1>1, <1>4, <2>3, QuietFits DEF LookNext
<1>5. CASE LookSend
  <2> DEFINE u == LookTopic
  <2>1. PICK status \in {"sent", "failed"} :
          Sends(u, status) /\ look' = [look EXCEPT !.status = status]
    BY <1>5 DEF LookSend
  <2>2. /\ look \in LookJob /\ look # Rest /\ look.pc = "dispatch" /\ look.status = "pending"
        /\ alert' = alert /\ rows' = rows
    BY <1>0, <1>5, LookType DEF LookSend
  <2>3. /\ look' # Rest /\ look'.pc = "dispatch" /\ look'.pend = look.pend
        /\ look'.c = look.c /\ look'.level = look.level /\ look'.status = status
        /\ look'.month = look.month
    BY <2>1, <2>2, TypeOK' DEF LookJob, Rest
  <2>4. u \in Topics /\ u[1] = look.c /\ u[3] = look.month /\ Level(u) = look.level
        /\ u[2] \in {"quota_warning_80", "quota_exhausted"}
    <3>1. look.level \in {80, 100}
      BY <2>2 DEF LookJob
    <3> QED
      BY <1>0, <2>2, <3>1, LookTopicType, TopicLevel DEF LookTopic
  <2>5. /\ \A v \in Topics \ {u} : mails'[v] = mails[v]
        /\ mails'[u] = mails[u] \/ mails'[u] = mails[u] + 1
        /\ faults' = faults \/ faults' = faults + 1
    BY <1>0, <2>1, <2>4, SendsOne
  <2>6. LookOpen(t)' => LookOpen(t)
    BY <2>2, <2>3 DEF LookOpen
  <2> HIDE DEF u
  <2>7. CASE t = u
    <3>1. LookOpen(t)
      <4>1. alert[look.month][look.c] < look.level /\ look.pend[look.c] = 0 /\ look.level \in {80, 100}
        BY <1>0, <2>2 DEF LookShape, LookJob
      <4> QED
        BY <2>2, <2>4, <2>7, <4>1 DEF LookOpen
    <3>2. ~LookOpen(t)'
      BY <2>3, <2>4, <2>7 DEF LookOpen, Level
    <3>3. mails'[t] <= mails[t] + 1
      BY <1>0, <2>5, <2>7
    <3> QED
      BY <1>0, <1>1, <2>2, <2>5, <2>7, <3>1, <3>2, <3>3, SentFits
  <2>8. CASE t # u
    <3>1. mails'[t] <= mails[t]
      BY <1>0, <2>5, <2>8
    <3> QED
      BY <1>0, <1>1, <2>2, <2>5, <2>6, <3>1, QuietFits, FaultFits
  <2> QED
    BY <2>7, <2>8
<1>6. CASE LookCommit
  <2> DEFINE u == LookTopic
  <2>1. /\ look \in LookJob /\ look # Rest /\ look.pc = "dispatch" /\ look.status # "pending"
        /\ Store(u, look.status) /\ alert' = Recorded /\ mails' = mails /\ faults' = faults
    BY <1>0, <1>6, LookType DEF LookCommit
  <2>2. /\ look' # Rest /\ look'.pc = "loop" /\ look'.month = look.month
        /\ \A c \in Clients : look'.pend[c] = IF c = look.c THEN look.level ELSE 0
    BY <1>6, <2>1 DEF LookCommit, LookJob, Rest
  <2>3. u \in Topics /\ u[1] = look.c /\ u[3] = look.month /\ Level(u) = look.level
        /\ u[2] \in {"quota_warning_80", "quota_exhausted"} /\ look.level \in {80, 100}
    <3>1. look.level \in {80, 100}
      BY <2>1 DEF LookJob
    <3> QED
      BY <1>0, <2>1, <3>1, LookTopicType, TopicLevel DEF LookTopic
  <2>4. LookOpen(t)' => LookOpen(t)
    <3> SUFFICES ASSUME LookOpen(t)' PROVE LookOpen(t)
      OBVIOUS
    <3>1. /\ alert[t[3]][t[1]] < Level(t)
          /\ look.month = t[3] => look.pend[t[1]] < Level(t)
      BY <1>0, <2>1, RecordedOpen
    <3>2. /\ look.month = t[3] => look'.pend[t[1]] < Level(t)
          /\ t[2] \in {"quota_warning_80", "quota_exhausted"}
      BY <2>2 DEF LookOpen, Level
    <3>3. look.month = t[3] /\ t[1] = look.c => look.level # Level(t)
      BY <1>0, <2>2, <2>3, <3>2
    <3> QED
      BY <3>1, <3>2, <3>3 DEF LookOpen
  <2> HIDE DEF u
  <2>5. look.status \in States \ {"pending"}
    BY <2>1 DEF LookJob
  <2>6. mails'[t] <= mails[t]
    BY <1>0, <2>1
  <2>7. PICK n : Debt(t)' \subseteq Debt(t) \cup (DigestWorkers \X {n})
    BY <1>0, <2>1, <2>3, <2>5, StoredDebt
  <2>8. CASE look.status = "deferred" /\ t = u
    <3>1. LookOpen(t)
      <4>1. alert[look.month][look.c] < look.level /\ look.pend[look.c] = 0
        BY <1>0, <2>1 DEF LookShape
      <4> QED
        BY <2>3, <2>8, <4>1 DEF LookOpen
    <3>2. ~LookOpen(t)'
      <4>1. look'.pend[t[1]] = look.level
        BY <1>0, <2>2, <2>3, <2>8
      <4>2. ~(look.level < look.level)
        BY <2>3
      <4> QED
        BY <2>2, <2>3, <2>8, <4>1, <4>2 DEF LookOpen, Level
    <3> QED
      BY <1>0, <2>1, <2>6, <2>7, <2>8, <3>1, <3>2, DeferredFits
  <2>9. CASE look.status # "deferred" \/ t # u
    <3>1. Debt(t)' \subseteq Debt(t)
      BY <1>0, <2>1, <2>3, <2>5, <2>9, StoredDebt
    <3> QED
      BY <1>0, <2>1, <2>4, <2>6, <3>1, QuietFits
  <2> QED
    BY <2>8, <2>9
<1>7. CASE LookEnd
  <2>1. /\ look # Rest /\ look.pc = "loop" /\ alert' = Recorded
        /\ rows' = rows /\ mails' = mails /\ faults' = faults
    BY <1>7 DEF LookEnd
  <2>2. LookOpen(t)' => LookOpen(t)
    <3> SUFFICES ASSUME LookOpen(t)' PROVE LookOpen(t)
      OBVIOUS
    <3>1. /\ alert[t[3]][t[1]] < Level(t)
          /\ look.month = t[3] => look.pend[t[1]] < Level(t)
      BY <1>0, <2>1, RecordedOpen
    <3> QED
      BY <2>1, <3>1 DEF LookOpen
  <2> QED
    BY <1>0, <1>1, <2>1, <2>2, QuietFits
<1>8. CASE LookFail
  BY <1>0, <1>1, <1>8, FaultFits DEF LookFail, Fault
<1> QED
  BY <1>2, <1>3, <1>4, <1>5, <1>6, <1>7, <1>8 DEF LookStep

-----------------------------------------------------------------------------
(* The steps of the messages and of the digests.                           *)

LEMMA NoteFits ==
  ASSUME BInv, TypeOK', NEW a \in Asks, NoteStep(a) \/ NoteFail(a) \/ NoteCrash(a),
         NEW t \in Topics
  PROVE  Fits(t)
<1>0. /\ TypeOK /\ NInv /\ note[a] \in NoteJob /\ a \in Topics /\ mails[t] \in Nat
      /\ look' = look /\ dig' = dig /\ alert' = alert /\ LookOpen(t)' = LookOpen(t)
  <2>1. look' = look /\ dig' = dig /\ alert' = alert
    BY DEF NoteStep, NoteStart, NoteSend, NoteCommit, NoteFail, NoteCrash
  <2> QED
    BY <2>1, AskType, SameOpen DEF BInv, NInv, TypeOK
<1>1. ASSUME rows' = rows PROVE Debt(t)' \subseteq Debt(t)
  BY <1>0, <1>1, SameDebt
<1>2. ASSUME \A b \in Asks \ {a} : note'[b] = note[b], t # a
      PROVE  NoteOpen(t)' => NoteOpen(t)
  BY <1>2 DEF NoteOpen
<1>3. CASE NoteStart(a)
  <2>1. /\ note[a].pc = "queued" /\ \A b \in Asks \ {a} : note'[b] = note[b]
        /\ rows' = rows /\ mails' = mails /\ faults' = faults
    BY <1>3 DEF NoteStart, TypeOK
  <2>2. NoteOpen(t)' => NoteOpen(t)
    BY <1>2, <2>1 DEF NoteOpen
  <2> QED
    BY <1>0, <1>1, <2>1, <2>2, QuietFits
<1>4. CASE NoteSend(a)
  <2>1. PICK status \in {"sent", "failed"} :
          Sends(a, status) /\ note' = [note EXCEPT ![a].status = status]
    BY <1>4 DEF NoteSend
  <2>2. /\ note[a].pc = "dispatch" /\ note[a].status = "pending" /\ rows' = rows
        /\ \A b \in Asks \ {a} : note'[b] = note[b]
        /\ note'[a].pc = "dispatch" /\ note'[a].status = status
    BY <1>0, <1>4, <2>1 DEF NoteSend, TypeOK, NoteJob
  <2>3. /\ \A v \in Topics \ {a} : mails'[v] = mails[v]
        /\ mails'[a] = mails[a] \/ mails'[a] = mails[a] + 1
        /\ faults' = faults \/ faults' = faults + 1
    BY <1>0, <2>1, SendsOne
  <2>4. CASE t = a
    <3>1. NoteOpen(t) /\ ~NoteOpen(t)'
      BY <2>2, <2>4 DEF NoteOpen
    <3>2. mails'[t] <= mails[t] + 1
      BY <1>0, <2>3, <2>4
    <3> QED
      BY <1>0, <1>1, <2>2, <2>3, <3>1, <3>2, SentFits
  <2>5. CASE t # a
    <3>1. mails'[t] <= mails[t]
      BY <1>0, <2>3, <2>5
    <3> QED
      BY <1>0, <1>1, <1>2, <2>2, <2>3, <2>5, <3>1, QuietFits, FaultFits
  <2> QED
    BY <2>4, <2>5
<1>5. CASE NoteCommit(a)
  <2>1. /\ note[a].pc = "dispatch" /\ note[a].status \in States \ {"pending"}
        /\ Store(a, note[a].status) /\ mails' = mails /\ faults' = faults
        /\ note'[a].pc = "done" /\ \A b \in Asks \ {a} : note'[b] = note[b]
    BY <1>0, <1>5 DEF NoteCommit, TypeOK, NoteJob
  <2>2. mails'[t] <= mails[t]
    BY <1>0, <2>1
  <2>3. PICK n : Debt(t)' \subseteq Debt(t) \cup (DigestWorkers \X {n})
    BY <1>0, <2>1, StoredDebt
  <2>4. ~NoteOpen(a)' /\ (t = a => ~NoteOpen(t)')
    BY <2>1 DEF NoteOpen
  <2>5. CASE note[a].status = "deferred" /\ t = a
    <3>1. NoteOpen(t)
      BY <2>1, <2>5 DEF NoteOpen
    <3> QED
      BY <1>0, <2>1, <2>2, <2>3, <2>4, <2>5, <3>1, DeferredFits
  <2>6. CASE note[a].status # "deferred" \/ t # a
    <3>1. Debt(t)' \subseteq Debt(t)
      BY <1>0, <2>1, <2>6, StoredDebt
    <3>2. NoteOpen(t)' => NoteOpen(t)
      BY <1>2, <2>1, <2>4
    <3> QED
      BY <1>0, <2>1, <2>2, <3>1, <3>2, QuietFits
  <2> QED
    BY <2>5, <2>6
<1>6. CASE NoteFail(a) \/ NoteCrash(a)
  <2>1. rows' = rows /\ mails' = mails /\ faults' = faults + 1
    BY <1>6 DEF NoteFail, NoteCrash, Fault
  <2> QED
    BY <1>0, <1>1, <2>1, FaultFits
<1> QED
  BY <1>3, <1>4, <1>5, <1>6 DEF NoteStep

\* A step of one worker that leaves the rows: what the others owe is what they owed.
LEMMA OthersDebt ==
  ASSUME NEW w \in DigestWorkers, NEW t, rows' = rows,
         \A v \in DigestWorkers \ {w} : dig'[v] = dig[v], NEW p \in Debt(t)', p[1] # w
  PROVE  p \in Debt(t)
<1>1. p[1] \in DigestWorkers
  BY DEF Debt
<1>2. Told(p[1], t)' = Told(p[1], t) /\ Ahead(p[1])' = Ahead(p[1])
  BY <1>1 DEF Told, Ahead, Rest
<1> QED
  BY <1>2 DEF Debt, Paid

\* Its own debt, when it stays with what it has told.
LEMMA OwnDebt ==
  ASSUME NEW w \in DigestWorkers, NEW t, rows' = rows,
         Told(w, t)' = Told(w, t), NEW p \in Debt(t)', p[1] = w,
         rows[p[2]].status = "deferred" \/ p[2] \in Ahead(w)
  PROVE  p \in Debt(t)
  BY DEF Debt, Paid

LEMMA DigestFits ==
  ASSUME BInv, TypeOK', NEW w \in DigestWorkers, DigestStep(w) \/ DigestFail(w), NEW t \in Topics
  PROVE  Fits(t)
<1>0. /\ TypeOK /\ NInv /\ mails[t] \in Nat /\ mails'[t] \in Nat
      /\ \A v \in DigestWorkers \ {w} : dig'[v] = dig[v]
      /\ NoteOpen(t)' = NoteOpen(t) /\ LookOpen(t)' = LookOpen(t)
  <2>1. UNCHANGED <<look, note, alert>> /\ \A v \in DigestWorkers \ {w} : dig'[v] = dig[v]
    BY DEF BInv, NInv, TypeOK, DigestStep, DigestStart, DigestNext, DigestMail, DigestEnd, DigestFail
  <2> QED
    BY <2>1, SameOpen DEF BInv, NInv, TypeOK
<1>1. ASSUME rows' = rows, Told(w, t)' = Told(w, t), Ahead(w)' \subseteq Ahead(w)
      PROVE  Debt(t)' \subseteq Debt(t)
  <2> SUFFICES ASSUME NEW p \in Debt(t)' PROVE p \in Debt(t)
    OBVIOUS
  <2>1. CASE p[1] = w
    <3>1. rows[p[2]].status = "deferred" \/ p[2] \in Ahead(w)
      BY <1>1, <2>1 DEF Debt
    <3> QED
      BY <1>1, <2>1, <3>1, OwnDebt
  <2> QED
    BY <1>0, <1>1, <2>1, OthersDebt
<1>2. CASE DigestStart(w)
  <2>1. /\ dig[w] = Rest /\ dig'[w] # Rest /\ dig'[w].batch = {} /\ dig'[w].marked = {}
        /\ rows' = rows /\ mails' = mails /\ faults' = faults
    BY <1>0, <1>2 DEF DigestStart, TypeOK, Rest
  <2>2. Told(w, t)' = Told(w, t) /\ Ahead(w)' = Ahead(w)
    BY <2>1 DEF Told, Ahead, Rest
  <2> QED
    BY <1>0, <1>1, <2>1, <2>2, QuietFits
<1>3. ASSUME NEW c \in Clients, DigestNext(w, c) PROVE Fits(t)
  <2>1. /\ dig[w] # Rest /\ dig[w] \in DigJob
        /\ rows' = rows /\ mails' = mails /\ faults' = faults
    BY <1>0, <1>3, DigType DEF DigestNext
  <2>2. /\ dig'[w] # Rest /\ dig'[w].marked = dig[w].marked
        /\ dig'[w].batch = dig[w].batch \/ dig'[w].batch = Deferred(c)
    BY <1>0, <1>3, <2>1 DEF DigestNext, TypeOK, DigJob, Rest
  <2>3. Told(w, t)' = Told(w, t) /\ Ahead(w)' \subseteq Ahead(w) \cup Deferred(c)
    BY <2>1, <2>2 DEF Told, Ahead, Rest
  <2>4. \A p \in Debt(t)' : p[1] = w => rows[p[2]].status = "deferred" \/ p[2] \in Ahead(w)
    BY <2>1, <2>3 DEF Debt, Deferred
  <2>5. Debt(t)' \subseteq Debt(t)
    BY <1>0, <2>1, <2>3, <2>4, OwnDebt, OthersDebt
  <2> QED
    BY <1>0, <2>1, <2>5, QuietFits
<1>4. CASE DigestMail(w)
  <2> DEFINE B == dig[w].batch
             M == dig[w].marked
             sent == TopicsOf(B)
  <2>1. /\ dig[w] # Rest /\ dig[w] \in DigJob /\ dig[w].pc = "mail"
        /\ rows' = rows /\ B \subseteq DOMAIN rows /\ M \subseteq DOMAIN rows
    BY <1>0, <1>4, DigType DEF DigestMail, NInv, MarkedTold
  <2>2. /\ dig'[w] # Rest /\ dig'[w].batch = {}
        /\ \/ Wrote(sent) /\ faults' = faults /\ dig'[w].marked = M \cup B
           \/ (Wrote(sent) \/ mails' = mails) /\ faults' = faults + 1 /\ dig'[w].marked = M
    BY <1>0, <1>4, <2>1 DEF DigestMail, TypeOK, DigJob, Rest, Fault
  <2>3. /\ Wrote(sent) => mails'[t] = IF t \in sent THEN mails[t] + 1 ELSE mails[t]
        /\ mails' = mails => mails'[t] = mails[t]
    BY DEF Wrote
  <2>4. \A i \in DOMAIN rows : i \in B /\ rows[i].topic = t => t \in sent
    BY DEF TopicsOf
  <2>5. t \in sent => Told(w, t) = {} /\ \E i \in B : rows[i].topic = t
    BY <2>1 DEF BInv, DigShape, TopicsOf, Told
  <2>6. Ahead(w) = B \cup M /\ Told(w, t) = {i \in M : rows[i].topic = t}
    BY <2>1 DEF Ahead, Told
  <2>7. Ahead(w)' = dig'[w].marked /\ Told(w, t)' = {i \in dig'[w].marked : rows[i].topic = t}
    BY <2>1, <2>2 DEF Ahead, Told, Rest
  <2> HIDE DEF B, M, sent
  <2>8. CASE faults' = faults + 1
    <3>1. dig'[w].marked = M /\ mails'[t] <= mails[t] + 1
      BY <1>0, <2>2, <2>3, <2>8, SpentTypes
    <3>2. Debt(t)' \subseteq Debt(t)
      BY <1>1, <2>1, <2>6, <2>7, <3>1
    <3> QED
      BY <1>0, <2>8, <3>1, <3>2, DebtLess, SpentTypes DEF Fits
  <2>9. CASE faults' = faults /\ t \notin sent
    <3>1. dig'[w].marked = M \cup B /\ mails'[t] <= mails[t]
      BY <1>0, <2>2, <2>3, <2>9, SpentTypes
    <3>2. Told(w, t)' = Told(w, t)
      BY <2>1, <2>4, <2>6, <2>7, <2>9, <3>1
    <3>3. Debt(t)' \subseteq Debt(t)
      BY <1>1, <2>1, <2>6, <2>7, <3>1, <3>2
    <3> QED
      BY <1>0, <2>9, <3>1, <3>3, QuietFits
  <2>10. CASE faults' = faults /\ t \in sent
    <3>1. dig'[w].marked = M \cup B /\ mails'[t] = mails[t] + 1
      BY <1>0, <2>2, <2>3, <2>10, SpentTypes
    <3> DEFINE k == CHOOSE x \in Told(w, t)' : TRUE
    <3>2. Told(w, t)' # {} /\ Told(w, t) = {}
      BY <2>5, <2>7, <2>10, <3>1
    <3>3. k \in Told(w, t)'
      BY <3>2
    <3>4. k \in Ahead(w) /\ rows[k].topic = t /\ k \in DOMAIN rows
      BY <2>1, <2>6, <2>7, <3>1, <3>3
    <3> HIDE DEF k
    <3>5. <<w, k>> \in Debt(t)
      BY <3>2, <3>4 DEF Debt, Paid
    <3>6. Debt(t)' \subseteq Debt(t) \ {<<w, k>>}
      <4> SUFFICES ASSUME NEW q \in Debt(t)' PROVE q \in Debt(t) /\ q # <<w, k>>
        OBVIOUS
      <4>1. CASE q[1] = w
        <5>1. q[2] # k
          BY <3>2, <4>1 DEF Debt, Paid, k
        <5>2. /\ q \in DigestWorkers \X DOMAIN rows /\ rows[q[2]].topic = t
              /\ rows[q[2]].status = "deferred" \/ q[2] \in Ahead(w)
          BY <2>1, <2>6, <2>7, <3>1, <4>1 DEF Debt
        <5> QED
          BY <3>2, <4>1, <5>1, <5>2 DEF Debt, Paid
      <4>2. CASE q[1] # w
        BY <1>0, <2>1, <4>2, OthersDebt
      <4> QED
        BY <4>1, <4>2
    <3>7. Cardinality(Debt(t)') + 1 <= Cardinality(Debt(t))
      BY <1>0, <3>5, <3>6, DebtPaid
    <3> QED
      BY <1>0, <2>10, <3>1, <3>7, SpentTypes DEF Fits
  <2> QED
    BY <2>2, <2>8, <2>9, <2>10
<1>5. CASE DigestEnd(w)
  <2> DEFINE M == dig[w].marked
  <2>1. /\ dig[w] # Rest /\ dig'[w] = Rest /\ mails' = mails /\ faults' = faults
        /\ rows' = [i \in DOMAIN rows |->
                      IF i \in M THEN [rows[i] EXCEPT !.status = "sent"] ELSE rows[i]]
    BY <1>0, <1>5 DEF DigestEnd, TypeOK
  <2>2. Told(w, t) \subseteq M /\ Ahead(w)' = {}
    BY <2>1 DEF Told, Ahead
  <2> HIDE DEF M
  <2>3. DOMAIN rows' = DOMAIN rows /\ \A i \in DOMAIN rows : rows'[i].topic = rows[i].topic
    BY <1>0, <2>1, MarkType
  <2>4. \A i \in DOMAIN rows : rows'[i].status = "deferred" => rows[i].status = "deferred" /\ i \notin M
    <3> SUFFICES ASSUME NEW i \in DOMAIN rows, rows'[i].status = "deferred"
                 PROVE  rows[i].status = "deferred" /\ i \notin M
      OBVIOUS
    <3>1. rows \in Seq(Row)
      BY <1>0 DEF TypeOK, Row
    <3>2. rows[i] \in Row
      BY <3>1
    <3>3. [rows[i] EXCEPT !.status = "sent"].status = "sent"
      BY <3>2 DEF Row
    <3> QED
      BY <2>1, <3>3
  <2>5. ASSUME NEW q \in Debt(t)' PROVE q \in Debt(t)
    <3>1. /\ q \in DigestWorkers \X DOMAIN rows /\ rows[q[2]].topic = t
          /\ rows'[q[2]].status = "deferred" \/ q[2] \in Ahead(q[1])'
          /\ ~(Told(q[1], t)' # {} /\ q[2] = CHOOSE x \in Told(q[1], t)' : TRUE)
      BY <2>3, <2>5 DEF Debt, Paid
    <3>2. CASE q[1] = w
      <4>1. rows[q[2]].status = "deferred" /\ q[2] \notin M
        BY <2>2, <2>4, <3>1, <3>2
      <4>2. ~Paid(w, t, q[2])
        BY <2>2, <4>1 DEF Paid
      <4> QED
        BY <3>1, <3>2, <4>1, <4>2 DEF Debt
    <3>3. CASE q[1] # w
      <4>1. q[1] \in DigestWorkers /\ dig'[q[1]] = dig[q[1]]
        BY <1>0, <3>1, <3>3
      <4>2. dig[q[1]] # Rest => dig[q[1]].marked \subseteq DOMAIN rows
        BY <1>0, <4>1 DEF NInv, MarkedTold
      <4>3. Told(q[1], t)' = Told(q[1], t) /\ Ahead(q[1])' = Ahead(q[1])
        BY <2>3, <4>1, <4>2 DEF Told, Ahead, Rest
      <4> QED
        BY <2>4, <3>1, <4>3 DEF Debt, Paid
    <3> QED
      BY <3>2, <3>3
  <2>6. Debt(t)' \subseteq Debt(t)
    BY <2>5
  <2> QED
    BY <1>0, <2>1, <2>6, QuietFits
<1>6. CASE DigestFail(w)
  <2> DEFINE k == CHOOSE x \in Told(w, t) : TRUE
  <2>1. /\ dig'[w] = Rest /\ rows' = rows /\ mails' = mails /\ faults' = faults + 1
    BY <1>0, <1>6 DEF DigestFail, TypeOK, Fault
  <2>2. Ahead(w)' = {}
    BY <2>1 DEF Ahead
  <2>3. ASSUME NEW q \in Debt(t)' PROVE q \in Debt(t) \/ q = <<w, k>>
    <3>1. CASE q[1] = w
      <4>1. /\ q \in DigestWorkers \X DOMAIN rows /\ rows[q[2]].topic = t
            /\ rows[q[2]].status = "deferred" /\ q = <<w, q[2]>>
        BY <2>1, <2>2, <2>3, <3>1 DEF Debt
      <4> QED
        BY <3>1, <4>1 DEF Debt, Paid
    <3> QED
      BY <1>0, <2>1, <2>3, <3>1, OthersDebt
  <2> HIDE DEF k
  <2>4. Debt(t)' \subseteq Debt(t) \cup {<<w, k>>}
    BY <2>3
  <2>5. IsFiniteSet({<<w, k>>}) /\ Cardinality({<<w, k>>}) = 1
    BY FS_Singleton
  <2>6. Cardinality(Debt(t)') <= Cardinality(Debt(t)) + 1
    BY <1>0, <2>4, <2>5, DebtMore
  <2> QED
    BY <1>0, <2>1, <2>6, SpentTypes DEF Fits
<1> QED
  BY <1>2, <1>3, <1>4, <1>5, <1>6 DEF DigestStep

LEMMA AccountFits ==
  ASSUME BInv, TypeOK', (\E c \in Clients : Charge(c) \/ Change(c)) \/ NewMonth \/ UNCHANGED vars,
         NEW t \in Topics
  PROVE  Fits(t)
<1>1. UNCHANGED <<alert, rows, mails, look, note, dig, faults>>
  BY DEF Charge, Change, NewMonth, vars
<1>2. TypeOK /\ mails[t] \in Nat
  BY DEF BInv, NInv, TypeOK
<1> QED
  BY <1>1, <1>2, SameDebt, SameOpen, QuietFits

-----------------------------------------------------------------------------
(* The shapes the budget needs.                                            *)

LEMMA LookKeepsShape ==
  ASSUME BInv, TypeOK', Beat \/ LookStep \/ LookFail PROVE LookShape' /\ DigShape'
<1>0. TypeOK /\ NInv /\ LookShape /\ DigShape
  BY DEF BInv, NInv
<1>1. dig' = dig
  BY DEF Beat, LookStep, LookStart, LookNext, LookSend, LookCommit, LookEnd, LookFail
<1>2. \A i \in DOMAIN rows : rows'[i] = rows[i]
  <2>1. CASE LookCommit
    <3>1. /\ look \in LookJob /\ look.status # "pending"
          /\ Store(LookTopic, look.status)
      BY <1>0, <2>1, LookType DEF LookCommit
    <3>2. LookTopic \in Topics /\ look.status \in States \ {"pending"}
      BY <1>0, <2>1, <3>1, LookTopicType DEF LookCommit, LookJob
    <3> QED
      BY <1>0, <3>1, <3>2, StoreType
  <2>2. CASE ~LookCommit
    BY <2>2 DEF Beat, LookStep, LookStart, LookNext, LookSend, LookEnd, LookFail
  <2> QED
    BY <2>1, <2>2
<1>3. DigShape'
  <2>1. \A w \in DigestWorkers : dig[w] # Rest =>
          dig[w].batch \subseteq DOMAIN rows /\ dig[w].marked \subseteq DOMAIN rows
    BY <1>0 DEF NInv, MarkedTold
  <2> QED
    BY <1>0, <1>1, <1>2, <2>1 DEF DigShape, Rest
<1>4. LookShape'
  <2>1. CASE Beat
    BY <1>0, <2>1 DEF Beat, LookShape, Rest
  <2>2. CASE LookStart
    BY <2>2 DEF LookStart, LookShape
  <2>3. ASSUME NEW c \in Clients, LookNext(c) PROVE LookShape'
    <3> DEFINE level == IF look.quotas[c] <= 0 THEN 0 ELSE Crossed(c, look.month, look.quotas[c])
               skip == [look EXCEPT !.todo = @ \ {c}]
               send == [look EXCEPT !.pc = "dispatch", !.todo = @ \ {c}, !.c = c,
                                    !.level = level, !.status = Inserted(Topic(c, level, look.month))]
    <3>1. look' = IF level = 0 THEN skip ELSE send
      BY <2>3 DEF LookNext
    <3>2. look # Rest /\ look \in LookJob /\ look.pc = "loop" /\ c \in look.todo /\ alert' = alert
      BY <1>0, <2>3, LookType DEF LookNext
    <3>3. level # 0 => level \in {80, 100} /\ alert[look.month][c] < level
      BY <1>0, <3>2 DEF Crossed, TypeOK, Thresholds
    <3> HIDE DEF level
    <3>4. /\ skip.pend = look.pend /\ skip.todo = look.todo \ {c} /\ skip.pc = "loop"
          /\ send.pend = look.pend /\ send.todo = look.todo \ {c} /\ send.pc = "dispatch"
          /\ send.c = c /\ send.level = level
          /\ skip.month = look.month /\ send.month = look.month
      BY <3>2 DEF LookJob
    <3> HIDE DEF skip, send
    <3> QED
      BY <1>0, <3>1, <3>2, <3>3, <3>4 DEF LookShape
  <2>4. CASE LookSend
    <3>1. PICK status \in {"sent", "failed"} : look' = [look EXCEPT !.status = status]
      BY <2>4 DEF LookSend
    <3>2. look # Rest /\ look \in LookJob /\ look.pc = "dispatch" /\ alert' = alert
      BY <1>0, <2>4, LookType DEF LookSend
    <3>3. /\ look'.pend = look.pend /\ look'.todo = look.todo /\ look'.pc = look.pc
          /\ look'.c = look.c /\ look'.level = look.level /\ look'.month = look.month
      BY <3>1, <3>2 DEF LookJob
    <3> QED
      BY <1>0, <3>2, <3>3 DEF LookShape
  <2>5. CASE LookCommit
    <3>1. look # Rest /\ look \in LookJob /\ look.pc = "dispatch" /\ alert' = Recorded
      BY <1>0, <2>5, LookType DEF LookCommit
    <3>2. /\ look'.todo = look.todo /\ look'.pc = "loop" /\ look'.month = look.month
          /\ \A c \in Clients : look'.pend[c] = IF c = look.c THEN look.level ELSE 0
      BY <2>5, <3>1 DEF LookCommit, LookJob
    <3>3. look.todo \subseteq Clients /\ look.c \in Clients /\ look.level \in {80, 100}
      BY <3>1 DEF LookJob
    <3>4. alert'[look.month][look.c] < look.level
      <4>1. look.month \in Months /\ look.pend[look.c] = 0
        BY <1>0, <3>1, LookTopicType DEF LookShape
      <4> QED
        BY <1>0, <3>1, <3>3, <4>1, RecordedType DEF LookShape
    <3> QED
      BY <1>0, <3>1, <3>2, <3>3, <3>4 DEF LookShape
  <2>6. CASE LookEnd \/ LookFail
    BY <2>6 DEF LookEnd, LookFail, LookShape
  <2> QED
    BY <2>1, <2>2, <2>3, <2>4, <2>5, <2>6 DEF LookStep
<1> QED
  BY <1>3, <1>4

LEMMA NoteKeepsShape ==
  ASSUME BInv, TypeOK', NEW a \in Asks, NoteStep(a) \/ NoteFail(a) \/ NoteCrash(a)
  PROVE  LookShape' /\ DigShape'
<1>0. TypeOK /\ NInv /\ LookShape /\ DigShape
  BY DEF BInv, NInv
<1>1. dig' = dig /\ look' = look /\ alert' = alert
  BY DEF NoteStep, NoteStart, NoteSend, NoteCommit, NoteFail, NoteCrash
<1>2. \A i \in DOMAIN rows : rows'[i] = rows[i]
  <2>1. CASE NoteCommit(a)
    <3>1. a \in Topics /\ note[a].status \in States \ {"pending"} /\ Store(a, note[a].status)
      BY <1>0, <2>1, AskType DEF NoteCommit, TypeOK, NoteJob
    <3> QED
      BY <1>0, <3>1, StoreType
  <2>2. CASE ~NoteCommit(a)
    BY <2>2 DEF NoteStep, NoteStart, NoteSend, NoteFail, NoteCrash
  <2> QED
    BY <2>1, <2>2
<1>3. DigShape'
  <2>1. \A w \in DigestWorkers : dig[w] # Rest =>
          dig[w].batch \subseteq DOMAIN rows /\ dig[w].marked \subseteq DOMAIN rows
    BY <1>0 DEF NInv, MarkedTold
  <2> QED
    BY <1>0, <1>1, <1>2, <2>1 DEF DigShape, Rest
<1>4. LookShape'
  BY <1>0, <1>1 DEF LookShape, Rest
<1> QED
  BY <1>3, <1>4

\* The shape of one digest.
Shape(w) ==
  dig[w] # Rest =>
    /\ dig[w].pc = "loop" => dig[w].batch = {}
    /\ dig[w].pc = "mail" => dig[w].c \notin dig[w].todo
    /\ \A i \in dig[w].batch : rows[i].topic[1] = dig[w].c
    /\ \A i \in dig[w].marked :
         /\ rows[i].topic[1] \notin dig[w].todo
         /\ dig[w].pc = "mail" => rows[i].topic[1] # dig[w].c

LEMMA DigestKeepsShape ==
  ASSUME BInv, TypeOK', NEW w \in DigestWorkers, DigestStep(w) \/ DigestFail(w)
  PROVE  LookShape' /\ DigShape'
<1>0. /\ TypeOK /\ NInv /\ LookShape /\ DigShape /\ UNCHANGED <<look, alert>>
      /\ \A v \in DigestWorkers \ {w} : dig'[v] = dig[v]
  BY DEF BInv, NInv, TypeOK, DigestStep, DigestStart, DigestNext, DigestMail, DigestEnd, DigestFail
<1>1. LookShape'
  BY <1>0 DEF LookShape, Rest
<1>2. \A i \in DOMAIN rows : rows'[i].topic = rows[i].topic
  <2>1. CASE DigestEnd(w)
    BY <1>0, <2>1, MarkType DEF DigestEnd
  <2>2. CASE ~DigestEnd(w)
    BY <2>2 DEF DigestStep, DigestStart, DigestNext, DigestMail, DigestFail
  <2> QED
    BY <2>1, <2>2
<1>3. ASSUME NEW v \in DigestWorkers \ {w} PROVE Shape(v)'
  <2>1. dig'[v] = dig[v] /\ Shape(v)
    BY <1>0 DEF DigShape, Shape
  <2>2. dig[v] # Rest => dig[v].batch \subseteq DOMAIN rows /\ dig[v].marked \subseteq DOMAIN rows
    BY <1>0 DEF NInv, MarkedTold
  <2> QED
    BY <1>2, <2>1, <2>2 DEF Shape, Rest
<1>4. Shape(w)'
  <2>1. CASE DigestStart(w)
    BY <1>0, <2>1 DEF DigestStart, Shape, TypeOK
  <2>2. ASSUME NEW c \in Clients, DigestNext(w, c) PROVE Shape(w)'
    <3> DEFINE skip == [dig[w] EXCEPT !.todo = @ \ {c}]
               mail == [dig[w] EXCEPT !.todo = @ \ {c}, !.pc = "mail", !.c = c, !.batch = Deferred(c)]
    <3>1. dig[w] # Rest /\ dig[w] \in DigJob /\ dig[w].pc = "loop" /\ c \in dig[w].todo /\ rows' = rows
      BY <1>0, <2>2, DigType DEF DigestNext
    <3>2. dig'[w] = skip \/ dig'[w] = mail
      BY <1>0, <2>2 DEF DigestNext, TypeOK
    <3>3. Shape(w)
      BY <1>0 DEF DigShape, Shape
    <3>4. /\ skip.pc = "loop" /\ skip.batch = dig[w].batch /\ skip.todo = dig[w].todo \ {c}
          /\ skip.c = dig[w].c /\ skip.marked = dig[w].marked
      BY <3>1 DEF DigJob
    <3>5. /\ mail.pc = "mail" /\ mail.batch = Deferred(c) /\ mail.todo = dig[w].todo \ {c}
          /\ mail.c = c /\ mail.marked = dig[w].marked
      BY <3>1 DEF DigJob
    <3>6. \A i \in Deferred(c) : rows[i].topic[1] = c
      BY DEF Deferred
    <3> HIDE DEF skip, mail
    <3>7. dig'[w] = skip => Shape(w)'
      BY <3>1, <3>3, <3>4 DEF Shape
    <3>8. dig'[w] = mail => Shape(w)'
      BY <3>1, <3>3, <3>5, <3>6 DEF Shape
    <3> QED
      BY <3>2, <3>7, <3>8
  <2>3. CASE DigestMail(w)
    <3>1. dig[w] # Rest /\ dig[w] \in DigJob /\ dig[w].pc = "mail" /\ rows' = rows
      BY <1>0, <2>3, DigType DEF DigestMail
    <3>2. /\ dig'[w].pc = "loop" /\ dig'[w].batch = {} /\ dig'[w].todo = dig[w].todo
          /\ dig'[w].marked \subseteq dig[w].marked \cup dig[w].batch
      <4> DEFINE sent == [dig[w] EXCEPT !.pc = "loop", !.batch = {},
                                        !.marked = @ \cup dig[w].batch]
                 refused == [dig[w] EXCEPT !.pc = "loop", !.batch = {}]
      <4>1. dig'[w] = sent \/ dig'[w] = refused
        BY <1>0, <2>3 DEF DigestMail, TypeOK
      <4>2. /\ sent.pc = "loop" /\ sent.batch = {} /\ sent.todo = dig[w].todo
            /\ sent.marked = dig[w].marked \cup dig[w].batch
            /\ refused.pc = "loop" /\ refused.batch = {} /\ refused.todo = dig[w].todo
            /\ refused.marked = dig[w].marked
        BY <3>1 DEF DigJob
      <4> HIDE DEF sent, refused
      <4> QED
        BY <4>1, <4>2
    <3>3. Shape(w)
      BY <1>0 DEF DigShape, Shape
    <3> QED
      BY <3>1, <3>2, <3>3 DEF Shape
  <2>4. CASE DigestEnd(w) \/ DigestFail(w)
    BY <1>0, <2>4 DEF DigestEnd, DigestFail, Shape, TypeOK
  <2> QED
    BY <2>1, <2>2, <2>3, <2>4 DEF DigestStep
<1>5. DigShape'
  BY <1>3, <1>4 DEF DigShape, Shape
<1> QED
  BY <1>1, <1>5

LEMMA AccountKeepsShape ==
  ASSUME BInv, (\E c \in Clients : Charge(c) \/ Change(c)) \/ NewMonth \/ UNCHANGED vars
  PROVE  LookShape' /\ DigShape'
<1>1. UNCHANGED <<alert, rows, look, dig>> /\ LookShape /\ DigShape
  BY DEF BInv, Charge, Change, NewMonth, vars
<1> QED
  BY <1>1 DEF LookShape, DigShape, Rest

LEMMA InitBudget == Init => WithinBudget
<1> SUFFICES ASSUME Init, NEW t \in Topics
             PROVE  Spent(t) <= (Occasions(t) + faults) * Workers
  BY DEF WithinBudget
<1>1. mails[t] = 0 /\ faults = 0 /\ Workers \in Nat
  BY WorkersType DEF Init
<1>2. Debt(t) = {}
  BY DEF Init, Debt
<1>3. Cardinality(Debt(t)) = 0
  BY <1>2, FS_EmptySet
<1>4. Held(NoteOpen(t)) = IF t \in Asks THEN Workers ELSE 0
  BY DEF Init, NoteOpen, Held
<1>5. Held(LookOpen(t)) = IF t[2] \in {"quota_warning_80", "quota_exhausted"} THEN Workers ELSE 0
  BY DEF Init, LookOpen, Held, Level, Topics
<1> QED
  BY <1>1, <1>3, <1>4, <1>5 DEF Spent, Occasions

THEOREM Budget == Spec => []BInv
<1>1. Init => BInv
  <2>1. Init => NInv
    BY InitType DEF Init, NInv, PendIsStored, LookTold, NoteTold, MarkedTold, RecordedIsStored,
                    SentWasMailed, Rest
  <2>2. Init => LookShape /\ DigShape
    BY DEF Init, LookShape, DigShape
  <2> QED
    BY <2>1, <2>2, InitBudget DEF BInv
<1>2. BInv /\ [Next]_vars => BInv'
  <2> SUFFICES ASSUME BInv, [Next]_vars PROVE BInv'
    OBVIOUS
  <2>1. TypeOK /\ NInv /\ WithinBudget
    BY DEF BInv, NInv
  <2>2. TypeOK'
    BY <2>1, NextType
  <2>3. NInv'
    BY <2>1, <2>2, LookKeeps, NoteKeeps, DigestKeeps, AccountKeeps DEF Next
  <2>4. LookShape' /\ DigShape'
    BY <2>2, LookKeepsShape, NoteKeepsShape, DigestKeepsShape, AccountKeepsShape DEF Next
  <2>5. \A t \in Topics : Fits(t)
    BY <2>2, LookFits, NoteFits, DigestFits, AccountFits DEF Next
  <2>6. WithinBudget'
    BY <2>1, <2>2, <2>5, FitsKeeps
  <2> QED
    BY <2>3, <2>4, <2>6 DEF BInv
<1> QED
  BY <1>1, <1>2, PTL DEF Spec

LEMMA BudgetBounds == BInv => RepeatsAreBounded
<1> SUFFICES ASSUME BInv, NEW t \in Topics
             PROVE  mails[t] <= (Occasions(t) + faults) * Cardinality(DigestWorkers)
  BY DEF RepeatsAreBounded
<1> DEFINE b == (Occasions(t) + faults) * Workers
<1>1. TypeOK
  BY DEF BInv, NInv
<1>2. Spent(t) <= b
  BY DEF BInv, WithinBudget
<1>3. /\ mails[t] \in Nat /\ Cardinality(Debt(t)) \in Nat
      /\ Held(NoteOpen(t)) \in Nat /\ Held(LookOpen(t)) \in Nat
  BY <1>1, DebtFinite, HeldType DEF TypeOK
<1>4. b \in Nat
  BY <1>1, WorkersType, NoticesAssumption DEF TypeOK, Occasions
<1> HIDE DEF b
<1>5. mails[t] <= b
  BY <1>2, <1>3, <1>4 DEF Spent
<1> QED
  BY <1>5 DEF b, Workers

\* A client is told of one thing as often as there are occasions and faults, once by each
\* worker of the digests: for any number of clients, messages and overlapping digests.
THEOREM RepeatsBounded == Spec => []RepeatsAreBounded
  BY Budget, BudgetBounds, PTL
=============================================================================
