----------------------------- MODULE IntakeProofs -----------------------------
(***************************************************************************)
(* Proofs about Intake, for any number of clients, locations, reviews and  *)
(* workers, any retries, consents and faults: the types, EnqueuedOnce,     *)
(* OnlyConsentRestores, and that overlapping polls are never all stuck.    *)
(***************************************************************************)
EXTENDS Intake, FiniteSetTheorems, TLAPS

(***************************************************************************)
(* TypeOK is not inductive: a step that writes a column of a credential    *)
(* relies on the row to be there still.                                    *)
(***************************************************************************)

Kept(c) == cred[c] # NoCred

RowsAreKept ==
  /\ \A w \in PollWorkers : poll[w] # Rest => Kept(poll[w].c)
  /\ \A c \in Clients : con[c] # Rest /\ con[c].status # "none" => Kept(c)
  /\ ref # Rest =>
       /\ \A c \in Clients : ref.todo[c] # NoCred => Kept(c)
       /\ ref.pc # "loop" => ref.todo[ref.at] # NoCred

TInv == TypeOK /\ RowsAreKept

-----------------------------------------------------------------------------
(* Jobs and messages.                                                      *)

LEMMA PollType ==
  ASSUME TypeOK, NEW w \in PollWorkers, poll[w] # Rest
  PROVE  poll[w] \in PollJob /\ poll[w].c \in Clients /\ poll[w].tries \in 0 .. PollRetries
  BY DEF TypeOK, PollJob

LEMMA RestIsNoJob ==
  /\ \A j \in PollJob : j # Rest
  /\ \A j \in ConJob : j # Rest
  /\ \A j \in RefJob : j # Rest
  BY DEF PollJob, ConJob, RefJob, Rest

LEMMA CredType ==
  ASSUME TypeOK, NEW c \in Clients, Kept(c)
  PROVE  /\ cred[c] \in Row /\ cred[c].access \in Token /\ cred[c].refresh \in Grants
         /\ cred[c].access.grant \in Grants /\ cred[c].access.age \in 0 .. Life
         /\ cred[c].status \in {"active", "revoked"}
  BY DEF TypeOK, Kept, Row, Token

\* A row is a row, so it is there.
LEMMA WrittenRow ==
  ASSUME TypeOK, NEW c \in Clients, NEW row \in Row, cred' = [cred EXCEPT ![c] = row]
  PROVE  /\ cred' \in [Clients -> Row \cup {NoCred}]
         /\ \A d \in Clients : cred[d] # NoCred => cred'[d] # NoCred
         /\ cred'[c] # NoCred
  BY IntakeAssumption DEF TypeOK

LEMMA StatusRow ==
  ASSUME TypeOK, NEW c \in Clients, Kept(c), NEW s \in {"active", "revoked"}
  PROVE  [cred[c] EXCEPT !.status = s] \in Row
  BY CredType DEF Row

LEMMA AccessRow ==
  ASSUME TypeOK, NEW c \in Clients, Kept(c), NEW t \in Token
  PROVE  [cred[c] EXCEPT !.access = t] \in Row
  BY CredType DEF Row

LEMMA MessageType ==
  ASSUME TypeOK, NEW w \in PollWorkers, poll[w] # Rest
  PROVE  /\ Retried(w) \subseteq Clients \X (0 .. PollRetries)
         /\ pollQ \cup {<<poll[w].c, poll[w].tries>>} \subseteq Clients \X (0 .. PollRetries)
<1>1. poll[w].c \in Clients /\ poll[w].tries \in 0 .. PollRetries
  BY PollType
<1>2. poll[w].tries < PollRetries => poll[w].tries + 1 \in 0 .. PollRetries
  BY <1>1, IntakeAssumption
<1> QED
  BY <1>1, <1>2 DEF Retried, TypeOK

LEMMA PollRests ==
  ASSUME TypeOK, NEW w \in PollWorkers
  PROVE  [poll EXCEPT ![w] = Rest] \in [PollWorkers -> PollJob \cup {Rest}]
  BY DEF TypeOK

LEMMA FaultType ==
  ASSUME TypeOK, Fault PROVE faults' \in 0 .. MaxFaults
  BY IntakeAssumption DEF TypeOK, Fault

LEMMA InitInv == Init => TInv
<1> SUFFICES ASSUME Init PROVE TInv
  OBVIOUS
<1>1. TypeOK
  <2>1. 0 \in Grants /\ 0 \in 0 .. MaxFaults
    BY IntakeAssumption DEF Grants
  <2>2. /\ stored \subseteq Reviews /\ cut \subseteq Reviews
        /\ sent \in [Reviews -> Nat]
        /\ place \in [Locations -> Clients \cup {NoClient}]
        /\ cred \in [Clients -> Row \cup {NoCred}]
    BY DEF Init
  <2>3. /\ consents \in [Clients -> Grants] /\ withdrawn \in [Clients -> Grants]
        /\ pollQ \subseteq Clients \X (0 .. PollRetries)
        /\ poll \in [PollWorkers -> PollJob \cup {Rest}]
        /\ con \in [Clients -> ConJob \cup {Rest}]
    BY <2>1 DEF Init
  <2>4. due \in BOOLEAN /\ ref \in RefJob \cup {Rest} /\ faults \in 0 .. MaxFaults
    BY <2>1 DEF Init
  <2> QED
    BY <2>2, <2>3, <2>4 DEF TypeOK
<1>2. RowsAreKept
  BY DEF Init, RowsAreKept
<1> QED
  BY <1>1, <1>2 DEF TInv

-----------------------------------------------------------------------------
(* The steps of a poll.                                                    *)

LEMMA Inserted ==
  ASSUME NEW j \in PollJob, NEW new \in SUBSET Reviews
  PROVE  /\ [j EXCEPT !.absent = {}, !.found = @ \cup new] \in PollJob
         /\ [j EXCEPT !.absent = {}, !.found = @ \cup new].c = j.c
<1> DEFINE mid == [j EXCEPT !.absent = {}]
<1>1. mid \in PollJob /\ mid.c = j.c
  BY DEF PollJob
<1>2. [mid EXCEPT !.found = @ \cup new] \in PollJob
  BY <1>1 DEF PollJob
<1> QED
  BY <1>1, <1>2 DEF PollJob

\* Another poll is left alone, but for a deadlock; a poll keeps its client.
PollsKeepClient ==
  \A v \in PollWorkers : poll'[v] # Rest => poll[v] # Rest /\ poll'[v].c = poll[v].c

\* What a step of a poll does to the jobs.
LEMMA PollJobs ==
  ASSUME TypeOK, NEW w \in PollWorkers, PollStep(w) \/ PollFail(w) \/ PollCrash(w)
  PROVE  poll' \in [PollWorkers -> PollJob \cup {Rest}] /\ PollsKeepClient
<1>0. poll[w] # Rest => poll[w] \in PollJob
  BY PollType
<1>1. CASE PollList(w)
  <2>1. poll[w] # Rest
    BY <1>1 DEF PollList, Reading
  <2>2. PICK l \in poll[w].left :
          \/ poll' = [poll EXCEPT ![w].left = @ \ {l},
                                  ![w].page = {r \in Reviews : ReviewAt[r] = l}]
          \/ poll' = [poll EXCEPT ![w].pc = "refused"]
    BY <1>1 DEF PollList
  <2>3. [poll[w] EXCEPT !.pc = "refused"] \in PollJob
    BY <1>0, <2>1 DEF PollJob
  <2>4. [poll[w] EXCEPT !.left = @ \ {l}, !.page = {r \in Reviews : ReviewAt[r] = l}] \in PollJob
    <3> DEFINE mid == [poll[w] EXCEPT !.left = @ \ {l}]
    <3>1. mid \in PollJob
      BY <1>0, <2>1 DEF PollJob
    <3>2. [mid EXCEPT !.page = {r \in Reviews : ReviewAt[r] = l}] \in PollJob
      BY <3>1 DEF PollJob
    <3> QED
      BY <3>2
  <2>5. CASE poll' = [poll EXCEPT ![w].left = @ \ {l},
                                  ![w].page = {r \in Reviews : ReviewAt[r] = l}]
    BY <1>0, <2>1, <2>4, <2>5 DEF TypeOK, PollsKeepClient, PollJob
  <2>6. CASE poll' = [poll EXCEPT ![w].pc = "refused"]
    BY <1>0, <2>1, <2>3, <2>6 DEF TypeOK, PollsKeepClient, PollJob
  <2> QED
    BY <2>2, <2>5, <2>6
<1>2. CASE PollLookup(w)
  <2>1. poll[w] # Rest
    BY <1>2 DEF PollLookup, Reading
  <2>2. PICK r \in poll[w].page :
          poll' = [poll EXCEPT ![w].page = @ \ {r},
                               ![w].absent = {r} \ (stored \cup poll[w].found)]
    BY <1>2 DEF PollLookup
  <2> DEFINE absent == {r} \ (stored \cup poll[w].found)
             mid == [poll[w] EXCEPT !.page = @ \ {r}]
  <2>3. mid \in PollJob /\ r \in Reviews
    BY <1>0, <2>1 DEF PollJob
  <2>4. [mid EXCEPT !.absent = absent] \in PollJob
    BY <2>3 DEF PollJob
  <2>5. poll' = [poll EXCEPT ![w] = [mid EXCEPT !.absent = absent]]
    BY <2>2 DEF TypeOK
  <2>6. [mid EXCEPT !.absent = absent].c = poll[w].c
    BY <1>0, <2>1 DEF PollJob
  <2> QED
    BY <2>1, <2>4, <2>5, <2>6 DEF TypeOK, PollsKeepClient
<1>3. CASE PollInsert(w)
  <2>1. poll[w] # Rest
    BY <1>3 DEF PollInsert
  <2>2. PICK r \in poll[w].absent :
          poll' = [poll EXCEPT ![w].absent = {}, ![w].found = @ \cup {r}]
    BY <1>3 DEF PollInsert
  <2> DEFINE job == [poll[w] EXCEPT !.absent = {}, !.found = @ \cup {r}]
  <2>3. {r} \in SUBSET Reviews
    BY <1>0, <2>1 DEF PollJob
  <2>4. poll' = [poll EXCEPT ![w] = job]
    BY <2>2 DEF TypeOK
  <2>5. job \in PollJob /\ job.c = poll[w].c
    BY <1>0, <2>1, <2>3, Inserted
  <2> HIDE DEF job
  <2> QED
    BY <2>1, <2>4, <2>5 DEF TypeOK, PollsKeepClient
<1>4. CASE PollDuplicate(w) \/ PollRevoke(w) \/ PollEnd(w) \/ PollFail(w) \/ PollCrash(w)
  <2>1. poll' = [poll EXCEPT ![w] = Rest]
    BY <1>4 DEF PollDuplicate, PollRevoke, PollEnd, PollFail, PollCrash
  <2> QED
    BY <2>1, PollRests DEF TypeOK, PollsKeepClient
<1>5. CASE \E v \in PollWorkers : PollDeadlock(w, v)
  <2>1. PICK v \in PollWorkers : PollDeadlock(w, v)
    BY <1>5
  <2>2. poll[v] # Rest /\ poll[v].absent \subseteq Reviews /\ v # w
    BY <2>1, PollType DEF PollDeadlock, WaitsFor, PollJob
  <2> DEFINE job == [poll[v] EXCEPT !.absent = {}, !.found = @ \cup poll[v].absent]
  <2>3. poll' = [poll EXCEPT ![w] = Rest, ![v] = job]
    BY <2>1, <2>2 DEF PollDeadlock, TypeOK
  <2>4. job \in PollJob /\ job.c = poll[v].c
    BY <2>2, PollType, Inserted
  <2> HIDE DEF job
  <2> QED
    BY <2>2, <2>3, <2>4 DEF TypeOK, PollsKeepClient
<1>6. CASE PollCommit(w)
  <2>1. poll[w] # Rest
    BY <1>6 DEF PollCommit, Reading
  <2>2. [poll[w] EXCEPT !.pc = "sending"] \in PollJob
    BY <1>0, <2>1 DEF PollJob
  <2> QED
    BY <1>0, <1>6, <2>1, <2>2 DEF PollCommit, TypeOK, PollsKeepClient, PollJob
<1>7. CASE PollSend(w)
  <2>1. PICK r \in poll[w].found : poll' = [poll EXCEPT ![w].found = @ \ {r}]
    BY <1>7 DEF PollSend
  <2>2. poll[w] # Rest
    BY <1>7 DEF PollSend
  <2>3. [poll[w] EXCEPT !.found = @ \ {r}] \in PollJob
    BY <1>0, <2>2 DEF PollJob
  <2> QED
    BY <1>0, <2>1, <2>2, <2>3 DEF TypeOK, PollsKeepClient, PollJob
<1> QED
  BY <1>1, <1>2, <1>3, <1>4, <1>5, <1>6, <1>7 DEF PollStep

LEMMA TakeType ==
  ASSUME TInv, NEW w \in PollWorkers, NEW c \in Clients, PollTake(w, c)
  PROVE  TInv'
<1>1. PICK t \in 0 .. PollRetries :
        /\ pollQ' = pollQ \ {<<c, t>>}
        /\ poll' = IF Active(c)
                   THEN [poll EXCEPT ![w] =
                          [pc |-> "polling", c |-> c, tries |-> t, token |-> cred[c].access,
                           left |-> {l \in Locations : place[l] = c},
                           page |-> {}, absent |-> {}, found |-> {}]]
                   ELSE poll
  BY DEF PollTake
<1>2. CASE Active(c)
  <2> DEFINE job == [pc |-> "polling", c |-> c, tries |-> t, token |-> cred[c].access,
                     left |-> {l \in Locations : place[l] = c},
                     page |-> {}, absent |-> {}, found |-> {}]
  <2>1. job \in PollJob /\ job.c = c /\ Kept(c)
    BY <1>2, CredType DEF TInv, Active, Kept, PollJob
  <2>2. poll' = [poll EXCEPT ![w] = job]
    BY <1>1, <1>2
  <2> HIDE DEF job
  <2>3. TypeOK'
    <3>1. poll' \in [PollWorkers -> PollJob \cup {Rest}]
      BY <2>1, <2>2 DEF TInv, TypeOK
    <3>2. pollQ' \subseteq Clients \X (0 .. PollRetries)
      BY <1>1 DEF TInv, TypeOK
    <3>3. UNCHANGED <<stored, sent, cut, credentials, refreshing, faults>>
      BY DEF PollTake
    <3> QED
      BY <3>1, <3>2, <3>3 DEF TInv, TypeOK, credentials, refreshing
  <2>4. RowsAreKept'
    BY <2>1, <2>2 DEF TInv, TypeOK, RowsAreKept, Kept, PollTake, credentials, refreshing
  <2> QED
    BY <2>3, <2>4 DEF TInv
<1>3. CASE ~Active(c)
  BY <1>1, <1>3 DEF TInv, TypeOK, RowsAreKept, Kept, PollTake, credentials, refreshing
<1> QED
  BY <1>2, <1>3

\* A poll writes no credential but to revoke it.
LEMMA PollStepType ==
  ASSUME TInv, NEW w \in PollWorkers, PollStep(w) \/ PollFail(w) \/ PollCrash(w)
  PROVE  TInv'
<1>0. TypeOK /\ poll' \in [PollWorkers -> PollJob \cup {Rest}] /\ PollsKeepClient
  BY PollJobs DEF TInv
<1>1. poll[w] # Rest => poll[w] \in PollJob
  BY <1>0, PollType
<1>2. /\ stored' \subseteq Reviews /\ cut' \subseteq Reviews
      /\ sent' \in [Reviews -> Nat]
  <2>1. CASE PollCommit(w) \/ PollRevoke(w) \/ PollFail(w) \/ PollCrash(w)
    <3>1. poll[w] # Rest
      BY <2>1 DEF PollCommit, Reading, PollRevoke, PollFail, PollCrash
    <3>2. poll[w].found \subseteq Reviews
      BY <1>1, <3>1 DEF PollJob
    <3> QED
      BY <1>0, <2>1, <3>2 DEF PollCommit, PollRevoke, PollFail, PollCrash, CutShort, TypeOK
  <2>2. CASE PollSend(w)
    <3>1. PICK r \in poll[w].found : sent' = [sent EXCEPT ![r] = @ + 1]
      BY <2>2 DEF PollSend
    <3>2. r \in Reviews
      BY <1>1, <2>2 DEF PollSend, PollJob
    <3>3. sent' \in [Reviews -> Nat]
      BY <1>0, <3>1, <3>2 DEF TypeOK
    <3> QED
      BY <1>0, <2>2, <3>3 DEF PollSend, TypeOK
  <2>3. CASE ~PollCommit(w) /\ ~PollRevoke(w) /\ ~PollFail(w) /\ ~PollCrash(w) /\ ~PollSend(w)
    BY <1>0, <2>3 DEF PollStep, PollList, PollLookup, PollInsert, PollDuplicate, PollDeadlock,
       PollEnd, TypeOK
  <2> QED
    BY <2>1, <2>2, <2>3
<1>3. pollQ' \subseteq Clients \X (0 .. PollRetries)
  <2>1. CASE PollDuplicate(w) \/ PollFail(w) \/ PollCrash(w)
    BY <1>0, <2>1, MessageType DEF PollDuplicate, PollFail, PollCrash
  <2>2. CASE \E v \in PollWorkers : PollDeadlock(w, v)
    BY <1>0, <2>2, MessageType DEF PollDeadlock, WaitsFor
  <2>3. CASE UNCHANGED pollQ
    BY <1>0, <2>3 DEF TypeOK
  <2> QED
    BY <2>1, <2>2, <2>3 DEF PollStep, PollList, PollLookup, PollInsert, PollCommit, PollRevoke,
       PollSend, PollEnd
<1>4. faults' \in 0 .. MaxFaults
  BY <1>0, FaultType DEF PollStep, PollFail, PollCrash, PollList, PollLookup, PollInsert,
     PollDuplicate, PollDeadlock, PollCommit, PollRevoke, PollSend, PollEnd, TypeOK
<1>5. UNCHANGED <<place, consents, withdrawn, con, due, ref>>
  BY DEF PollStep, PollFail, PollCrash, PollList, PollLookup, PollInsert, PollDuplicate,
     PollDeadlock, PollCommit, PollRevoke, PollSend, PollEnd, credentials, refreshing
<1>6. /\ cred' \in [Clients -> Row \cup {NoCred}]
      /\ \A d \in Clients : cred[d] # NoCred => cred'[d] # NoCred
  <2>1. CASE PollRevoke(w)
    <3>1. poll[w].c \in Clients /\ Kept(poll[w].c)
      BY <1>0, <2>1, PollType DEF PollRevoke, TInv, RowsAreKept
    <3>2. [cred[poll[w].c] EXCEPT !.status = "revoked"] \in Row
      BY <1>0, <3>1, StatusRow
    <3> QED
      BY <1>0, <2>1, <3>1, <3>2, WrittenRow DEF PollRevoke
  <2>2. CASE ~PollRevoke(w)
    BY <1>0, <2>2 DEF PollStep, PollFail, PollCrash, PollList, PollLookup, PollInsert,
       PollDuplicate, PollDeadlock, PollCommit, PollSend, PollEnd, credentials, TypeOK
  <2> QED
    BY <2>1, <2>2
<1>7. TypeOK'
  BY <1>0, <1>2, <1>3, <1>4, <1>5, <1>6 DEF TypeOK
<1>8. RowsAreKept'
  <2>1. \A v \in PollWorkers : poll'[v] # Rest => cred'[poll'[v].c] # NoCred
    BY <1>0, <1>6, PollType DEF TInv, RowsAreKept, PollsKeepClient, Kept
  <2>2. \A c \in Clients : con'[c] # Rest /\ con'[c].status # "none" => cred'[c] # NoCred
    BY <1>5, <1>6 DEF TInv, RowsAreKept, Kept
  <2>3. ref' # Rest =>
          /\ \A c \in Clients : ref'.todo[c] # NoCred => cred'[c] # NoCred
          /\ ref'.pc # "loop" => ref'.todo[ref'.at] # NoCred
    BY <1>5, <1>6 DEF TInv, RowsAreKept, Kept
  <2> QED
    BY <2>1, <2>2, <2>3 DEF RowsAreKept, Kept
<1> QED
  BY <1>7, <1>8 DEF TInv

-----------------------------------------------------------------------------
(* The consent and the refresh.                                            *)

LEMMA ConsentType ==
  ASSUME TInv, NEW c \in Clients, Consent(c) \/ ConsentStep(c) \/ Withdraw(c)
  PROVE  TInv'
<1>0. TypeOK /\ (con[c] # Rest => con[c] \in ConJob)
  BY DEF TInv, TypeOK
<1>1. CASE Consent(c)
  <2> DEFINE job == [pc |-> "loaded",
                     status |-> IF cred[c] = NoCred THEN "none" ELSE cred[c].status]
  <2>1. job \in ConJob /\ (job.status # "none" => Kept(c))
    BY <1>0, CredType DEF ConJob, Kept
  <2>2. con' = [con EXCEPT ![c] = job]
    BY <1>1 DEF Consent
  <2> HIDE DEF job
  <2>3. con' \in [Clients -> ConJob \cup {Rest}]
    BY <1>0, <2>1, <2>2 DEF TypeOK
  <2>4. consents' \in [Clients -> Grants]
    BY <1>0, <1>1, IntakeAssumption DEF Consent, TypeOK, Grants
  <2> QED
    BY <1>0, <1>1, <2>1, <2>2, <2>3, <2>4
       DEF Consent, TInv, TypeOK, RowsAreKept, Kept, polling, refreshing
<1>2. CASE ConsentFlush(c)
  <2>1. [con[c] EXCEPT !.pc = "flushed"] \in ConJob
    BY <1>0, <1>2 DEF ConsentFlush, ConJob
  <2>2. con' \in [Clients -> ConJob \cup {Rest}]
    BY <1>0, <1>2, <2>1 DEF ConsentFlush, TypeOK
  <2>3. \A d \in Clients : con'[d] # Rest => con[d] # Rest /\ con'[d].status = con[d].status
    BY <1>0, <1>2 DEF ConsentFlush, TypeOK, ConJob
  <2> QED
    BY <1>2, <2>2, <2>3 DEF ConsentFlush, TInv, TypeOK, RowsAreKept, Kept, polling, refreshing
<1>3. CASE ConsentCommit(c)
  <2> DEFINE row == [access |-> [grant |-> consents[c], age |-> 0], refresh |-> consents[c],
                     status |-> IF con[c].status = "none" THEN "active"
                                ELSE Column(con[c].status, "active", cred[c].status)]
  <2>1. con[c] # Rest /\ con[c] \in ConJob
    BY <1>0, <1>3 DEF ConsentCommit, Locked
  <2>2. row \in Row
    <3>1. consents[c] \in Grants /\ 0 \in 0 .. Life
      BY IntakeAssumption, <1>0 DEF TypeOK
    <3>2. row.status \in {"active", "revoked"}
      <4>1. con[c].status # "none" => cred[c].status \in {"active", "revoked"}
        BY <1>0, <2>1, CredType DEF TInv, RowsAreKept
      <4> QED
        BY <2>1, <4>1 DEF Column, ConJob
    <3> QED
      BY <3>1, <3>2 DEF Row, Token
  <2> HIDE DEF row
  <2>3. cred' = [cred EXCEPT ![c] = row] /\ con' = [con EXCEPT ![c] = Rest]
    BY <1>3 DEF ConsentCommit, row
  <2>4. /\ cred' \in [Clients -> Row \cup {NoCred}]
        /\ \A d \in Clients : cred[d] # NoCred => cred'[d] # NoCred
    BY <1>0, <2>2, <2>3, WrittenRow
  <2>5. place' \in [Locations -> Clients \cup {NoClient}]
    BY <1>0, <1>3 DEF ConsentCommit, TypeOK
  <2>6. UNCHANGED <<consents, withdrawn, polling, refreshing, faults>>
    BY <1>3 DEF ConsentCommit
  <2>7. TypeOK'
    BY <1>0, <2>3, <2>4, <2>5, <2>6 DEF TypeOK, polling, refreshing
  <2>8. RowsAreKept'
    BY <1>0, <2>3, <2>4, <2>6, PollType DEF TInv, TypeOK, RowsAreKept, Kept, polling, refreshing
  <2> QED
    BY <2>7, <2>8 DEF TInv
<1>4. CASE ConsentFail(c)
  BY <1>0, <1>4 DEF ConsentFail, TInv, TypeOK, RowsAreKept, Kept, polling, refreshing
<1>5. CASE Withdraw(c)
  BY <1>0, <1>5 DEF Withdraw, TInv, TypeOK, RowsAreKept, Kept, polling, refreshing
<1> QED
  BY <1>1, <1>2, <1>3, <1>4, <1>5 DEF ConsentStep

\* The job of the refresh task.
LEMMA RefType ==
  ASSUME TInv, ref # Rest
  PROVE  /\ ref \in RefJob /\ ref.at \in Clients
         /\ ref.todo \in [Clients -> Grants \cup {NoCred}]
         /\ \A c \in Clients : ref.todo[c] # NoCred => ref.todo[c] \in Grants /\ Kept(c)
         /\ ref.pc # "loop" => ref.todo[ref.at] # NoCred
<1>1. ref \in RefJob
  BY DEF TInv, TypeOK
<1> QED
  BY <1>1 DEF RefJob, TInv, RowsAreKept

\* What every step of the task keeps of its job.
RefKept ==
  /\ ref' \in RefJob \cup {Rest}
  /\ ref' # Rest =>
       /\ \A c \in Clients : ref'.todo[c] # NoCred => Kept(c)
       /\ ref'.pc # "loop" => ref'.todo[ref'.at] # NoCred

LEMMA RefreshJob ==
  ASSUME TInv, RefreshStep \/ RefreshFail \/ RefreshCrash
  PROVE  RefKept
<1>1. CASE RefreshStart
  <2>1. CASE \E c \in Clients : Expiring(c)
    <3> DEFINE todo == [c \in Clients |-> IF Expiring(c) THEN cred[c].refresh ELSE NoCred]
               job == [pc |-> "loop", at |-> CHOOSE c \in Clients : TRUE, todo |-> todo]
    <3>1. ref' = job
      BY <1>1, <2>1 DEF RefreshStart
    <3>2. (CHOOSE c \in Clients : TRUE) \in Clients
      BY <2>1
    <3>3. \A c \in Clients : Expiring(c) => Kept(c) /\ cred[c].refresh \in Grants
      BY CredType DEF TInv, Expiring, Active, Kept
    <3>4. todo \in [Clients -> Grants \cup {NoCred}]
      BY <3>3
    <3>5. job \in RefJob
      BY <3>2, <3>4 DEF RefJob
    <3>6. \A c \in Clients : job.todo[c] # NoCred => Kept(c)
      BY <3>3
    <3> QED
      BY <3>1, <3>5, <3>6 DEF RefKept
  <2>2. CASE ~\E c \in Clients : Expiring(c)
    BY <1>1, <2>2 DEF RefreshStart, RefKept
  <2> QED
    BY <2>1, <2>2
<1>2. CASE \E c \in Clients : RefreshCall(c)
  <2>1. PICK c \in Clients : RefreshCall(c)
    BY <1>2
  <2>2. ref # Rest /\ ref.todo[c] # NoCred
    BY <2>1 DEF RefreshCall
  <2>3. PICK p \in {"granted", "refused"} :
          ref' = Rest \/ ref' = [ref EXCEPT !.pc = p, !.at = c]
    BY <2>1 DEF RefreshCall
  <2>4. CASE ref' = [ref EXCEPT !.pc = p, !.at = c]
    <3> DEFINE mid == [ref EXCEPT !.pc = p]
    <3>1. mid \in RefJob /\ mid.todo = ref.todo
      BY <2>2, RefType DEF RefJob
    <3>2. ref' = [mid EXCEPT !.at = c]
      BY <2>4
    <3> HIDE DEF mid
    <3>3. ref' \in RefJob /\ ref'.todo = ref.todo /\ ref'.at = c
      BY <3>1, <3>2 DEF RefJob
    <3> QED
      BY <2>2, <3>3, RefType DEF RefKept
  <2> QED
    BY <2>3, <2>4 DEF RefKept
<1>3. CASE RefreshGranted \/ RefreshRefused
  <2>1. ref # Rest /\ RefreshNext
    BY <1>3 DEF RefreshGranted, RefreshRefused
  <2> DEFINE job == [ref EXCEPT !.pc = "loop", !.todo[ref.at] = NoCred]
             mid == [ref EXCEPT !.pc = "loop"]
  <2>2. mid \in RefJob /\ mid.todo = ref.todo /\ mid.pc = "loop"
    BY <2>1, RefType DEF RefJob
  <2>3. job = [mid EXCEPT !.todo = [ref.todo EXCEPT ![ref.at] = NoCred]]
    BY <2>1, RefType DEF RefJob
  <2> HIDE DEF mid, job
  <2>4. [ref.todo EXCEPT ![ref.at] = NoCred] \in [Clients -> Grants \cup {NoCred}]
    BY <2>1, RefType
  <2>5. /\ job \in RefJob /\ job.pc = "loop"
        /\ job.todo = [ref.todo EXCEPT ![ref.at] = NoCred]
    BY <2>2, <2>3, <2>4 DEF RefJob
  <2>6. \A c \in Clients : job.todo[c] # NoCred => Kept(c)
    BY <2>1, <2>5, RefType
  <2>7. ref' = job \/ ref' = Rest
    BY <2>1 DEF RefreshNext, job
  <2> QED
    BY <2>5, <2>6, <2>7 DEF RefKept
<1>4. CASE RefreshFail \/ RefreshCrash
  BY <1>4 DEF RefreshFail, RefreshCrash, RefKept
<1> QED
  BY <1>1, <1>2, <1>3, <1>4 DEF RefreshStep

LEMMA RefreshType ==
  ASSUME TInv, RefreshStep \/ RefreshFail \/ RefreshCrash
  PROVE  TInv'
<1>0. TypeOK /\ RefKept
  BY RefreshJob DEF TInv
<1>1. UNCHANGED <<place, consents, withdrawn, con, polling>>
  BY DEF RefreshStep, RefreshFail, RefreshCrash, RefreshStart, RefreshCall, RefreshGranted,
     RefreshRefused, credentials, polling
<1>2. due' \in BOOLEAN /\ faults' \in 0 .. MaxFaults
  BY <1>0, FaultType DEF TypeOK, RefreshStep, RefreshFail, RefreshCrash, RefreshStart,
     RefreshCall, RefreshGranted, RefreshRefused
<1>3. /\ cred' \in [Clients -> Row \cup {NoCred}]
      /\ \A d \in Clients : cred[d] # NoCred => cred'[d] # NoCred
  <2>1. CASE RefreshGranted
    <3>1. ref.at \in Clients /\ Kept(ref.at) /\ ref.todo[ref.at] \in Grants
      BY <2>1, RefType DEF RefreshGranted
    <3>2. [grant |-> ref.todo[ref.at], age |-> 0] \in Token
      BY <3>1, IntakeAssumption DEF Token
    <3>3. [cred[ref.at] EXCEPT !.access = [grant |-> ref.todo[ref.at], age |-> 0]] \in Row
      BY <1>0, <3>1, <3>2, AccessRow
    <3> QED
      BY <1>0, <2>1, <3>1, <3>3, WrittenRow DEF RefreshGranted
  <2>2. CASE RefreshRefused
    <3>1. ref.at \in Clients /\ Kept(ref.at)
      BY <2>2, RefType DEF RefreshRefused
    <3>2. [cred[ref.at] EXCEPT !.status = "revoked"] \in Row
      BY <1>0, <3>1, StatusRow
    <3> QED
      BY <1>0, <2>2, <3>1, <3>2, WrittenRow DEF RefreshRefused
  <2>3. CASE ~RefreshGranted /\ ~RefreshRefused
    BY <1>0, <2>3 DEF TypeOK, RefreshStep, RefreshFail, RefreshCrash, RefreshStart,
       RefreshCall, credentials
  <2> QED
    BY <2>1, <2>2, <2>3
<1>4. TypeOK'
  BY <1>0, <1>1, <1>2, <1>3 DEF TypeOK, RefKept, polling
<1>5. RowsAreKept'
  BY <1>0, <1>1, <1>3, PollType DEF TInv, RowsAreKept, RefKept, Kept, polling
<1> QED
  BY <1>4, <1>5 DEF TInv

LEMMA TickType ==
  ASSUME TInv, Tick
  PROVE  TInv'
<1>1. ASSUME NEW c \in Clients
      PROVE  cred'[c] \in Row \cup {NoCred} /\ (cred[c] # NoCred => cred'[c] # NoCred)
  <2>1. CASE cred[c] = NoCred \/ cred[c].access.age = Life
    BY <2>1 DEF Tick, TInv, TypeOK
  <2>2. CASE cred[c] # NoCred /\ cred[c].access.age # Life
    <3> DEFINE t == [cred[c].access EXCEPT !.age = @ + 1]
    <3>1. /\ Kept(c) /\ cred[c].access \in Token /\ cred[c].access.age \in 0 .. Life
          /\ cred[c] \in Row
      BY <2>2, CredType DEF TInv, Kept
    <3>2. cred[c].access.age + 1 \in 0 .. Life
      BY <2>2, <3>1, IntakeAssumption
    <3>3. t \in Token
      BY <3>1, <3>2 DEF Token
    <3>4. cred'[c] = [cred[c] EXCEPT !.access = t]
      BY <2>2, <3>1 DEF Tick, Row, Token
    <3>5. cred'[c] \in Row
      BY <3>1, <3>3, <3>4, AccessRow DEF TInv
    <3> QED
      BY <3>5, IntakeAssumption
  <2> QED
    BY <2>1, <2>2
<1>2. cred' \in [Clients -> Row \cup {NoCred}]
  <2>1. cred' = [c \in Clients |-> cred'[c]]
    BY DEF Tick
  <2> QED
    BY <1>1, <2>1
<1> QED
  BY <1>1, <1>2, PollType DEF Tick, TInv, TypeOK, RowsAreKept, Kept, polling

LEMMA TypeInvariant == Spec => []TInv
<1>1. TInv /\ [Next]_vars => TInv'
  <2> SUFFICES ASSUME TInv, [Next]_vars PROVE TInv'
    OBVIOUS
  <2>1. CASE Dispatch
    <3>1. pollQ' \subseteq Clients \X (0 .. PollRetries)
      BY <2>1, IntakeAssumption DEF Dispatch, TInv, TypeOK
    <3> QED
      BY <2>1, <3>1 DEF Dispatch, TInv, TypeOK, RowsAreKept, Kept, credentials, refreshing
  <2>2. CASE RefreshStep \/ RefreshFail \/ RefreshCrash
    BY <2>2, RefreshType
  <2>3. CASE Tick
    BY <2>3, TickType
  <2>4. ASSUME NEW w \in PollWorkers,
               (\E c \in Clients : PollTake(w, c)) \/ PollStep(w) \/ PollFail(w) \/ PollCrash(w)
        PROVE  TInv'
    BY <2>4, TakeType, PollStepType
  <2>5. ASSUME NEW c \in Clients, Consent(c) \/ ConsentStep(c) \/ Withdraw(c)
        PROVE  TInv'
    BY <2>5, ConsentType
  <2>6. CASE UNCHANGED vars
    BY <2>6 DEF vars, TInv, TypeOK, RowsAreKept, Kept
  <2> QED
    BY <2>1, <2>2, <2>3, <2>4, <2>5, <2>6 DEF Next
<1> QED
  BY <1>1, InitInv, PTL DEF Spec

\* The variables always have their types.
THEOREM TypeCorrect == Spec => []TypeOK
<1>1. TInv => TypeOK
  BY DEF TInv
<1> QED
  BY <1>1, TypeInvariant, PTL

-----------------------------------------------------------------------------
(* Who restores a credential.                                              *)

LEMMA StatusStep ==
  ASSUME TInv, [Next]_vars, NEW c \in Clients,
         cred[c] # NoCred, cred[c].status = "revoked", cred'[c].status = "active"
  PROVE  Locked(c)
<1>0. cred[c] \in Row /\ cred \in [Clients -> Row \cup {NoCred}]
  BY CredType DEF TInv, Kept, TypeOK
<1>1. cred' # cred
  OBVIOUS
<1>2. CASE \E w \in PollWorkers : PollStep(w)
  <2>1. PICK w \in PollWorkers : PollRevoke(w)
    BY <1>1, <1>2 DEF PollStep, PollList, PollLookup, PollInsert, PollDuplicate, PollDeadlock,
       PollCommit, PollSend, PollEnd, credentials
  <2>2. cred' = [cred EXCEPT ![poll[w].c].status = "revoked"]
    BY <2>1 DEF PollRevoke
  <2>3. cred'[c].status = "revoked"
    BY <1>0, <2>2 DEF Row
  <2> QED
    BY <2>3
<1>3. CASE RefreshStep
  <2>1. RefreshGranted \/ RefreshRefused
    BY <1>1, <1>3 DEF RefreshStep, RefreshStart, RefreshCall, credentials
  <2>2. cred'[c].status = "revoked"
    BY <1>0, <2>1 DEF RefreshGranted, RefreshRefused, Row
  <2> QED
    BY <2>2
<1>4. CASE Tick
  <2>1. cred'[c].status = "revoked"
    BY <1>0, <1>4 DEF Tick, Row
  <2> QED
    BY <2>1
<1>5. CASE \E d \in Clients : ConsentStep(d)
  <2>1. PICK d \in Clients : ConsentCommit(d)
    BY <1>1, <1>5 DEF ConsentStep, ConsentFlush, ConsentFail
  <2>2. d = c
    BY <1>0, <2>1 DEF ConsentCommit
  <2> QED
    BY <2>1, <2>2 DEF ConsentCommit
<1> QED
  BY <1>1, <1>2, <1>3, <1>4, <1>5 DEF Next, vars, Dispatch, PollTake, PollFail, PollCrash,
     Consent, Withdraw, RefreshFail, RefreshCrash, credentials

\* A credential that is marked revoked becomes active again only where a consent callback
\* holds the row: a refresh that overlaps the revocation writes the access token alone.
THEOREM ConsentRestores == Spec => OnlyConsentRestores
<1> DEFINE A == \A c \in Clients :
       cred[c] # NoCred /\ cred[c].status = "revoked" /\ cred'[c].status = "active"
         => Locked(c)
<1>1. TInv /\ [Next]_vars => A
  BY StatusStep
<1> HIDE DEF A
<1>2. TInv /\ [Next]_vars => [A]_vars
  BY <1>1
<1>3. Spec => [][A]_vars
  BY <1>2, TypeInvariant, PTL DEF Spec
<1> QED
  BY <1>3 DEF OnlyConsentRestores, A

-----------------------------------------------------------------------------
(* Once, and nothing forgotten.                                            *)

(***************************************************************************)
(* What a poll has found is its own: a review is not stored before the     *)
(* poll commits, and not sent before it sends it.  Every stored review has *)
(* been sent, is still to be sent by a poll, or was cut short.             *)
(***************************************************************************)

Sending(w) == poll[w] # Rest /\ poll[w].pc = "sending"
Open(w) == poll[w] # Rest /\ poll[w].pc # "sending"

FoundApart ==
  \A v, w \in PollWorkers :
    v # w /\ poll[v] # Rest /\ poll[w] # Rest => poll[v].found \cap poll[w].found = {}

FoundIsFresh ==
  \A w \in PollWorkers :
    /\ Open(w) => poll[w].found \cap stored = {}
    /\ Sending(w) => poll[w].found \subseteq stored
                    /\ \A r \in poll[w].found : sent[r] = 0

AbsentIsPolling ==
  \A w \in PollWorkers : poll[w] # Rest /\ poll[w].absent # {} =>
    /\ poll[w].pc = "polling"
    /\ \A r, s \in poll[w].absent : r = s

StoredIsAccounted ==
  \A r \in stored : \/ sent[r] > 0 \/ r \in cut
                    \/ \E w \in PollWorkers : Sending(w) /\ r \in poll[w].found

IInv == FoundApart /\ FoundIsFresh /\ AbsentIsPolling /\ EnqueuedOnce /\ StoredIsAccounted

\* The invariant speaks of these variables only.
LEMMA Unseen ==
  ASSUME IInv, UNCHANGED <<stored, sent, cut, poll>>
  PROVE  IInv'
  BY DEF IInv, FoundApart, FoundIsFresh, AbsentIsPolling, EnqueuedOnce, StoredIsAccounted,
     Sending, Open

\* Steps that store, send and cut nothing, end no poll that still sends, and at most look
\* for another review or end.
LEMMA Quiet ==
  ASSUME TInv, IInv, UNCHANGED <<stored, sent, cut>>,
         \A v \in PollWorkers :
           \/ poll'[v] = poll[v]
           \/ poll'[v] = Rest /\ (Sending(v) => poll[v].found = {})
           \/ /\ Open(v)' /\ (poll[v] = Rest => poll'[v].found = {})
              /\ (poll[v] # Rest => Open(v) /\ poll'[v].found = poll[v].found)
              /\ \/ poll'[v].absent = {}
                 \/ /\ poll'[v].pc = "polling"
                    /\ \A r, s \in poll'[v].absent : r = s
  PROVE  IInv'
<1>1. FoundApart'
  BY DEF IInv, FoundApart, Open
<1>2. FoundIsFresh'
  BY DEF IInv, FoundIsFresh, Open, Sending
<1>3. AbsentIsPolling'
  BY DEF IInv, AbsentIsPolling, Open
<1>4. EnqueuedOnce'
  BY DEF IInv, EnqueuedOnce
<1>5. StoredIsAccounted'
  <2>1. \A w \in PollWorkers : Sending(w) /\ poll[w].found # {} => poll'[w] = poll[w]
    BY DEF Sending, Open
  <2>2. \A w \in PollWorkers : \A r : Sending(w) /\ r \in poll[w].found => Sending(w)'
    BY <2>1 DEF Sending
  <2> QED
    BY <2>1, <2>2 DEF IInv, StoredIsAccounted
<1> QED
  BY <1>1, <1>2, <1>3, <1>4, <1>5 DEF IInv

\* A poll begins, asks for a location, looks a review up, fails on a duplicate or ends.
LEMMA QuietSteps ==
  ASSUME TInv, IInv, NEW w \in PollWorkers,
         \/ \E c \in Clients : PollTake(w, c)
         \/ PollList(w) \/ PollLookup(w) \/ PollDuplicate(w) \/ PollEnd(w)
  PROVE  IInv'
<1>0. /\ TypeOK /\ (poll[w] # Rest => poll[w] \in PollJob)
      /\ UNCHANGED <<stored, sent, cut>>
  BY PollType DEF TInv, PollTake, PollList, PollLookup, PollDuplicate, PollEnd
<1>1. CASE \E c \in Clients : PollTake(w, c)
  <2>1. PICK c \in Clients : PollTake(w, c)
    BY <1>1
  <2>2. PICK t \in 0 .. PollRetries :
          poll' = IF Active(c)
                  THEN [poll EXCEPT ![w] =
                         [pc |-> "polling", c |-> c, tries |-> t, token |-> cred[c].access,
                          left |-> {l \in Locations : place[l] = c},
                          page |-> {}, absent |-> {}, found |-> {}]]
                  ELSE poll
    BY <2>1 DEF PollTake
  <2> DEFINE job == [pc |-> "polling", c |-> c, tries |-> t, token |-> cred[c].access,
                     left |-> {l \in Locations : place[l] = c},
                     page |-> {}, absent |-> {}, found |-> {}]
  <2>3. job # Rest /\ job.pc = "polling" /\ job.absent = {} /\ job.found = {}
    BY DEF Rest
  <2>4. poll' = poll \/ poll' = [poll EXCEPT ![w] = job]
    BY <2>2
  <2> HIDE DEF job
  <2>5. poll[w] = Rest
    BY <2>1 DEF PollTake
  <2> QED
    BY <1>0, <2>3, <2>4, <2>5, Quiet DEF TypeOK, Open
<1>2. CASE PollList(w)
  <2>1. poll[w] # Rest /\ poll[w].pc = "polling" /\ poll[w].absent = {}
    BY <1>2 DEF PollList, Reading
  <2>2. PICK l \in poll[w].left :
          \/ poll' = [poll EXCEPT ![w].left = @ \ {l},
                                  ![w].page = {r \in Reviews : ReviewAt[r] = l}]
          \/ poll' = [poll EXCEPT ![w].pc = "refused"]
    BY <1>2 DEF PollList
  <2>3. /\ poll'[w] # Rest /\ poll'[w].pc # "sending" /\ poll'[w].absent = {}
        /\ poll'[w].found = poll[w].found
    BY <1>0, <2>1, <2>2 DEF TypeOK, PollJob, Rest
  <2>4. \A v \in PollWorkers : v # w => poll'[v] = poll[v]
    BY <1>0, <2>2 DEF TypeOK
  <2> QED
    BY <1>0, <2>1, <2>3, <2>4, Quiet DEF Open
<1>3. CASE PollLookup(w)
  <2>1. poll[w] # Rest /\ poll[w].pc = "polling"
    BY <1>3 DEF PollLookup, Reading
  <2>2. PICK r \in poll[w].page :
          poll' = [poll EXCEPT ![w].page = @ \ {r},
                               ![w].absent = {r} \ (stored \cup poll[w].found)]
    BY <1>3 DEF PollLookup
  <2>3. /\ poll'[w] # Rest /\ poll'[w].pc = "polling" /\ poll'[w].absent \subseteq {r}
        /\ poll'[w].found = poll[w].found
    BY <1>0, <2>1, <2>2 DEF TypeOK, PollJob, Rest
  <2>4. \A v \in PollWorkers : v # w => poll'[v] = poll[v]
    BY <1>0, <2>2 DEF TypeOK
  <2> QED
    BY <1>0, <2>1, <2>3, <2>4, Quiet DEF Open
<1>4. CASE PollDuplicate(w) \/ PollEnd(w)
  <2>1. poll' = [poll EXCEPT ![w] = Rest] /\ (Sending(w) => poll[w].found = {})
    BY <1>4 DEF PollDuplicate, PollEnd, Sending, IInv, AbsentIsPolling
  <2> QED
    BY <1>0, <2>1, Quiet DEF TypeOK
<1> QED
  BY <1>1, <1>2, <1>3, <1>4

\* One poll takes over what nobody has, and another ends or none does.
LEMMA Gaining ==
  ASSUME TInv, IInv, UNCHANGED <<stored, sent, cut>>,
         NEW v \in PollWorkers, NEW new \in SUBSET Reviews,
         Open(v), Open(v)', poll'[v].found = poll[v].found \cup new, poll'[v].absent = {},
         new \cap stored = {},
         \A u \in PollWorkers : u # v => poll'[u] = poll[u] \/ (poll'[u] = Rest /\ Open(u)),
         \A u \in PollWorkers : u # v /\ poll'[u] # Rest => poll[u].found \cap new = {}
  PROVE  IInv'
<1>1. FoundApart'
  BY DEF IInv, FoundApart, Open
<1>2. FoundIsFresh'
  BY DEF IInv, FoundIsFresh, Open, Sending
<1>3. AbsentIsPolling'
  BY DEF IInv, AbsentIsPolling, Open
<1>4. EnqueuedOnce'
  BY DEF IInv, EnqueuedOnce
<1>5. StoredIsAccounted'
  <2>1. \A u \in PollWorkers : Sending(u) => poll'[u] = poll[u]
    BY DEF Sending, Open
  <2> QED
    BY <2>1 DEF IInv, StoredIsAccounted, Sending
<1> QED
  BY <1>1, <1>2, <1>3, <1>4, <1>5 DEF IInv

LEMMA InsertStep ==
  ASSUME TInv, IInv, NEW w \in PollWorkers, PollInsert(w)
  PROVE  IInv'
<1>1. PICK r \in poll[w].absent :
        /\ ~Waits(w, r) /\ r \notin stored
        /\ poll' = [poll EXCEPT ![w].absent = {}, ![w].found = @ \cup {r}]
  BY DEF PollInsert
<1>2. poll[w] # Rest /\ poll[w].pc = "polling" /\ poll[w] \in PollJob /\ r \in Reviews
  BY <1>1, PollType DEF PollInsert, IInv, AbsentIsPolling, TInv, PollJob
<1>3. /\ Open(w) /\ Open(w)'
      /\ poll'[w].found = poll[w].found \cup {r} /\ poll'[w].absent = {}
  BY <1>1, <1>2 DEF TInv, TypeOK, PollJob, Open, Rest
<1>4. \A u \in PollWorkers : u # w => poll'[u] = poll[u]
  BY <1>1 DEF TInv, TypeOK
<1>5. \A u \in PollWorkers : u # w /\ poll'[u] # Rest => poll[u].found \cap {r} = {}
  BY <1>1, <1>4 DEF Waits, IInv, FoundIsFresh, Sending
<1>6. {r} \in SUBSET Reviews /\ {r} \cap stored = {} /\ UNCHANGED <<stored, sent, cut>>
  BY <1>1, <1>2 DEF PollInsert
<1> QED
  BY <1>3, <1>4, <1>5, <1>6, Gaining

\* The poll that goes on has waited for a review of the one that ends: nobody else has it.
LEMMA DeadlockStep ==
  ASSUME TInv, IInv, NEW w \in PollWorkers, NEW v \in PollWorkers, PollDeadlock(w, v)
  PROVE  IInv'
<1> DEFINE new == poll[v].absent
<1>0. /\ w # v /\ poll[v] # Rest /\ Open(w) /\ new \cap poll[w].found # {}
      /\ poll[v] \in PollJob /\ poll[w] \in PollJob
  BY PollType DEF PollDeadlock, WaitsFor, Open, TInv
<1>1. /\ w # v /\ Open(w) /\ Open(v) /\ poll[v] \in PollJob /\ poll[w] \in PollJob
      /\ poll[v].pc = "polling"
  BY <1>0 DEF IInv, AbsentIsPolling, Open
<1>2. new \subseteq poll[w].found /\ new \subseteq Reviews
  BY <1>0 DEF IInv, AbsentIsPolling, PollJob
<1>3. poll' = [poll EXCEPT ![w] = Rest, ![v].absent = {}, ![v].found = @ \cup new]
  BY DEF PollDeadlock
<1>4. /\ Open(v)' /\ poll'[v].found = poll[v].found \cup new /\ poll'[v].absent = {}
  BY <1>1, <1>3 DEF TInv, TypeOK, PollJob, Open, Rest
<1>5. \A u \in PollWorkers : u # v =>
        poll'[u] = (IF u = w THEN Rest ELSE poll[u])
  BY <1>1, <1>3 DEF TInv, TypeOK
<1>6. new \cap stored = {}
  BY <1>1, <1>2 DEF IInv, FoundIsFresh
<1>7. \A u \in PollWorkers : u # v /\ poll'[u] # Rest => poll[u].found \cap new = {}
  BY <1>1, <1>2, <1>5 DEF IInv, FoundApart, Open
<1>8. new \in SUBSET Reviews /\ UNCHANGED <<stored, sent, cut>>
  BY <1>2 DEF PollDeadlock
<1>9. \A u \in PollWorkers : u # v => poll'[u] = poll[u] \/ (poll'[u] = Rest /\ Open(u))
  BY <1>1, <1>5
<1> HIDE DEF new
<1> QED
  BY <1>1, <1>4, <1>6, <1>7, <1>8, <1>9, Gaining

\* What is committed was fresh, and is either to be sent or cut short.
LEMMA CommitStep ==
  ASSUME TInv, IInv, NEW w \in PollWorkers, PollCommit(w) \/ PollRevoke(w)
  PROVE  IInv'
<1>1. /\ Open(w) /\ poll[w] \in PollJob
      /\ stored' = stored \cup poll[w].found /\ sent' = sent
  BY PollType DEF PollCommit, PollRevoke, Reading, Open, TInv
<1>2. \A v \in PollWorkers : v # w => poll'[v] = poll[v]
  BY DEF PollCommit, PollRevoke, TInv, TypeOK
<1>3. \/ /\ PollCommit(w) /\ Sending(w)' /\ cut' = cut /\ poll'[w].found = poll[w].found
         /\ poll'[w].absent = {}
      \/ PollRevoke(w) /\ poll'[w] = Rest /\ cut' = cut \cup poll[w].found
  BY <1>1 DEF PollCommit, PollRevoke, Reading, Sending, TInv, TypeOK, PollJob, Rest
<1>4. \A r \in poll[w].found : sent[r] = 0
  BY <1>1 DEF IInv, FoundIsFresh, EnqueuedOnce, TInv, TypeOK, PollJob
<1>5. FoundApart'
  BY <1>1, <1>2, <1>3 DEF IInv, FoundApart, Open
<1>6. FoundIsFresh'
  <2> SUFFICES ASSUME NEW v \in PollWorkers
               PROVE  /\ Open(v)' => poll'[v].found \cap stored' = {}
                      /\ Sending(v)' => poll'[v].found \subseteq stored'
                                       /\ \A r \in poll'[v].found : sent'[r] = 0
    BY DEF FoundIsFresh
  <2>1. CASE v = w
    BY <1>1, <1>3, <1>4, <2>1 DEF Open, Sending
  <2>2. CASE v # w
    BY <1>1, <1>2, <2>2 DEF IInv, FoundIsFresh, FoundApart, Open, Sending
  <2> QED
    BY <2>1, <2>2
<1>7. AbsentIsPolling'
  BY <1>2, <1>3 DEF IInv, AbsentIsPolling
<1>8. EnqueuedOnce'
  BY <1>1 DEF IInv, EnqueuedOnce
<1>9. StoredIsAccounted'
  <2>1. \A v \in PollWorkers : \A r : Sending(v) /\ r \in poll[v].found
                                => Sending(v)' /\ r \in poll'[v].found
    BY <1>1, <1>2 DEF Sending, Open
  <2>2. \A r \in poll[w].found : r \in cut' \/ (Sending(w)' /\ r \in poll'[w].found)
    BY <1>3 DEF Sending
  <2> QED
    BY <1>1, <1>3, <2>1, <2>2 DEF IInv, StoredIsAccounted
<1> QED
  BY <1>5, <1>6, <1>7, <1>8, <1>9 DEF IInv

LEMMA SendStep ==
  ASSUME TInv, IInv, NEW w \in PollWorkers, PollSend(w)
  PROVE  IInv'
<1>1. PICK r \in poll[w].found :
        sent' = [sent EXCEPT ![r] = @ + 1] /\ poll' = [poll EXCEPT ![w].found = @ \ {r}]
  BY DEF PollSend
<1>2. Sending(w) /\ poll[w] \in PollJob /\ r \in Reviews
  BY <1>1, PollType DEF PollSend, Sending, TInv, PollJob
<1>3. r \in stored /\ sent[r] = 0
  BY <1>1, <1>2 DEF IInv, FoundIsFresh
<1>4. /\ Sending(w)' /\ poll'[w].found = poll[w].found \ {r}
      /\ poll'[w].absent = poll[w].absent
      /\ \A v \in PollWorkers : v # w => poll'[v] = poll[v]
  BY <1>1, <1>2 DEF TInv, TypeOK, PollJob, Sending, Rest
<1>5. \A q \in Reviews : sent'[q] = IF q = r THEN 1 ELSE sent[q]
  BY <1>1, <1>2, <1>3 DEF TInv, TypeOK
<1>6. stored' = stored /\ cut' = cut
  BY DEF PollSend
<1>7. FoundApart'
  BY <1>2, <1>4 DEF IInv, FoundApart, Sending
<1>8. FoundIsFresh'
  <2> SUFFICES ASSUME NEW v \in PollWorkers
               PROVE  /\ Open(v)' => poll'[v].found \cap stored' = {}
                      /\ Sending(v)' => poll'[v].found \subseteq stored'
                                       /\ \A q \in poll'[v].found : sent'[q] = 0
    BY DEF FoundIsFresh
  <2>1. CASE v = w
    BY <1>2, <1>4, <1>5, <1>6, <2>1 DEF IInv, FoundIsFresh, Open, Sending, PollJob
  <2>2. CASE v # w
    <3>1. Sending(v)' => poll[v] \in PollJob /\ r \notin poll[v].found
      BY <1>1, <1>2, <1>4, <2>2, PollType DEF IInv, FoundApart, Sending, TInv
    <3> QED
      BY <1>4, <1>5, <1>6, <2>2, <3>1 DEF IInv, FoundIsFresh, Open, Sending, PollJob
  <2> QED
    BY <2>1, <2>2
<1>9. AbsentIsPolling'
  BY <1>2, <1>4 DEF IInv, AbsentIsPolling, Sending
<1>10. EnqueuedOnce'
  BY <1>3, <1>5, <1>6 DEF IInv, EnqueuedOnce
<1>11. StoredIsAccounted'
  BY <1>2, <1>4, <1>5, <1>6 DEF IInv, StoredIsAccounted, Sending, TInv, TypeOK
<1> QED
  BY <1>7, <1>8, <1>9, <1>10, <1>11 DEF IInv

LEMMA LossStep ==
  ASSUME TInv, IInv, NEW w \in PollWorkers, PollFail(w) \/ PollCrash(w)
  PROVE  IInv'
<1>1. /\ poll' = [poll EXCEPT ![w] = Rest]
      /\ CutShort(w) /\ stored' = stored /\ sent' = sent
  BY DEF PollFail, PollCrash
<1>2. \A v \in PollWorkers : poll'[v] = (IF v = w THEN Rest ELSE poll[v])
  BY <1>1 DEF TInv, TypeOK
<1>3. FoundApart' /\ AbsentIsPolling' /\ EnqueuedOnce'
  BY <1>1, <1>2 DEF IInv, FoundApart, AbsentIsPolling, EnqueuedOnce
<1>4. FoundIsFresh'
  BY <1>1, <1>2 DEF IInv, FoundIsFresh, Open, Sending
<1>5. StoredIsAccounted'
  BY <1>1, <1>2 DEF IInv, StoredIsAccounted, Sending, CutShort
<1> QED
  BY <1>3, <1>4, <1>5 DEF IInv

LEMMA OnceInvariant == Spec => []IInv
<1>1. Init => IInv
  BY DEF Init, IInv, FoundApart, FoundIsFresh, AbsentIsPolling, EnqueuedOnce,
     StoredIsAccounted, Sending, Open
<1>2. TInv /\ IInv /\ [Next]_vars => IInv'
  <2> SUFFICES ASSUME TInv, IInv, [Next]_vars PROVE IInv'
    OBVIOUS
  <2>1. ASSUME NEW w \in PollWorkers,
               (\E c \in Clients : PollTake(w, c)) \/ PollStep(w) \/ PollFail(w) \/ PollCrash(w)
        PROVE  IInv'
    BY <2>1, QuietSteps, InsertStep, DeadlockStep, CommitStep, SendStep, LossStep DEF PollStep
  <2>2. CASE UNCHANGED <<stored, sent, cut, poll>>
    BY <2>2, Unseen
  <2>3. CASE RefreshStep \/ RefreshFail \/ RefreshCrash
    BY <2>2, <2>3 DEF RefreshStep, RefreshFail, RefreshCrash, RefreshStart, RefreshCall,
       RefreshGranted, RefreshRefused, polling
  <2>4. CASE \E c \in Clients : Consent(c) \/ ConsentStep(c) \/ Withdraw(c)
    BY <2>2, <2>4 DEF Consent, ConsentStep, ConsentFlush, ConsentCommit, ConsentFail,
       Withdraw, polling
  <2>5. CASE Dispatch \/ UNCHANGED vars
    BY <2>2, <2>5 DEF Dispatch, vars
  <2>6. CASE Tick
    BY <2>2, <2>6 DEF Tick, polling
  <2> QED
    BY <2>1, <2>3, <2>4, <2>5, <2>6 DEF Next
<1> QED
  BY <1>1, <1>2, TypeInvariant, PTL DEF Spec

\* However polls overlap, deadlock, are retried or are delivered again, a review is enqueued
\* at most once, and only after it is stored.
THEOREM ReviewsEnqueuedOnce == Spec => []EnqueuedOnce
<1>1. IInv => EnqueuedOnce
  BY DEF IInv
<1> QED
  BY <1>1, OnceInvariant, PTL

\* No stored review is forgotten but by a poll that was cut short: all others have been
\* enqueued or belong to a poll that is about to enqueue them.
THEOREM NothingForgotten == Spec => []StoredIsAccounted
<1>1. IInv => StoredIsAccounted
  BY DEF IInv
<1> QED
  BY <1>1, OnceInvariant, PTL

-----------------------------------------------------------------------------
(* Polls that wait.                                                        *)

Waiting(w) == poll[w] # Rest /\ \E r \in poll[w].absent : Waits(w, r)

\* What the database calls a deadlock, seen from one that waits for its victim.
Broken(w, v) == WaitsFor(v, w) /\ OnCycle(w)

\* Of polls that all wait for one another, the least set that still does is a cycle.
LEMMA CycleWithin ==
  ASSUME NEW S, S \subseteq PollWorkers, S # {}, \A x \in S : \E y \in S : WaitsFor(x, y)
  PROVE  \E w, v \in S : Broken(w, v)
<1> DEFINE R == StrictSubsetOrdering(S)
           F == FiniteSubsetsOf(S)
           C == {T \in SUBSET S : T # {} /\ \A x \in T : \E y \in T : WaitsFor(x, y)}
<1>1. IsWellFoundedOn(R, F)
  BY FS_StrictSubsetOrderingWellFounded
<1>2. C \subseteq F
  <2>1. IsFiniteSet(S)
    BY IntakeAssumption, FS_Subset
  <2>2. \A T \in SUBSET S : IsFiniteSet(T)
    BY <2>1, FS_Subset
  <2> QED
    BY <2>2 DEF FiniteSubsetsOf
<1>3. C # {}
  <2>1. S \in C
    OBVIOUS
  <2> QED
    BY <2>1
<1> HIDE DEF R, F
<1>4. PICK T \in C : \A U \in C : ~(<<U, T>> \in R)
  <2> HIDE DEF C
  <2> QED
    BY <1>1, <1>2, <1>3, WFMin
<1>5. ASSUME NEW y \in T PROVE \E x \in T : WaitsFor(x, y)
  <2> SUFFICES ASSUME \A x \in T : ~WaitsFor(x, y) PROVE FALSE
    OBVIOUS
  <2> DEFINE U == T \ {y}
  <2>1. \A x \in T : \E z \in U : WaitsFor(x, z)
    OBVIOUS
  <2>2. U \in C
    BY <2>1
  <2>3. U \in SUBSET S /\ T \in SUBSET S /\ U \subseteq T /\ U # T
    BY <1>5
  <2>4. <<U, T>> \in R
    BY <2>3 DEF R, StrictSubsetOrdering
  <2> QED
    BY <1>4, <2>2, <2>4
<1>6. PICK w \in T : TRUE
  OBVIOUS
<1>7. PICK v \in T : WaitsFor(v, w)
  BY <1>5
<1>8. OnCycle(w)
  <2>1. T \in SUBSET PollWorkers
    OBVIOUS
  <2> QED
    BY <1>5, <2>1 DEF OnCycle
<1> QED
  BY <1>7, <1>8 DEF Broken

\* A poll takes a step: it lists, looks up or commits; inserts, or finds its review stored;
\* revokes; or sends.
Moves(w) ==
  \/ Reading(w)
  \/ poll[w] # Rest /\ \E r \in poll[w].absent : r \in stored \/ ~Waits(w, r)
  \/ Open(w) /\ poll[w].pc = "refused" /\ ~Locked(poll[w].c)
  \/ Sending(w)

NobodyIsStuck ==
  (\E w \in PollWorkers : poll[w] # Rest) =>
    \E v \in PollWorkers :
      \/ Moves(v)
      \/ poll[v] # Rest /\ Locked(poll[v].c)
      \/ \E u \in PollWorkers : Broken(v, u)

LEMMA WaitsOrMoves ==
  ASSUME TInv, NEW w \in PollWorkers, poll[w] # Rest, ~Locked(poll[w].c)
  PROVE  Moves(w) \/ Waiting(w)
<1>1. poll[w].pc \in {"polling", "refused", "sending"}
  BY PollType DEF PollJob, TInv
<1> QED
  BY <1>1 DEF Moves, Waiting, Reading, Open, Sending

LEMMA StuckIsBroken == TInv => NobodyIsStuck
<1> SUFFICES ASSUME TInv, NEW w \in PollWorkers, poll[w] # Rest,
                    \A v \in PollWorkers : poll[v] # Rest => ~Moves(v) /\ ~Locked(poll[v].c)
             PROVE  \E v, u \in PollWorkers : Broken(v, u)
  BY DEF NobodyIsStuck, Moves, Reading, Open, Sending
<1> DEFINE S == {v \in PollWorkers : Waiting(v)}
<1>1. ASSUME NEW x \in S PROVE \E y \in S : WaitsFor(x, y)
  <2>1. PICK r \in poll[x].absent : Waits(x, r)
    BY DEF Waiting
  <2>2. PICK y \in PollWorkers \ {x} : poll[y] # Rest /\ poll[y].pc # "sending" /\ r \in poll[y].found
    BY <2>1 DEF Waits
  <2>3. y \in S
    BY <2>2, WaitsOrMoves
  <2>4. WaitsFor(x, y)
    BY <2>1, <2>2 DEF WaitsFor, Waiting
  <2> QED
    BY <2>3, <2>4
<1>2. S # {} /\ S \subseteq PollWorkers
  BY WaitsOrMoves
<1> HIDE DEF S
<1>3. PICK v \in S, u \in S : Broken(v, u)
  BY <1>1, <1>2, CycleWithin
<1> QED
  BY <1>2, <1>3

\* While a poll runs, one takes a step, waits for a consent that is being committed, or is
\* part of a cycle that the database breaks, however many polls overlap.
THEOREM PollsAreNotStuck == Spec => []NobodyIsStuck
  BY StuckIsBroken, TypeInvariant, PTL
=============================================================================
