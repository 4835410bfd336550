--------------------------- MODULE DraftingProofs ---------------------------
(***************************************************************************)
(* Proofs about Drafting, for any number of reviews and workers, any tiers *)
(* and any months, retries and crashes: the types, QuotaNearlyHeld, and    *)
(* what the drafts and their count stand for.                              *)
(***************************************************************************)
EXTENDS Drafting, FiniteSetTheorems, TLAPS

(***************************************************************************)
(* QuotaNearlyHeld is not inductive: a generation that has passed its      *)
(* check will count whatever the others have counted since.  Committed(m)  *)
(* are the generations that can still add to month m without meeting its   *)
(* cap: those that have counted in it, those that have passed the check    *)
(* and will count in the month it is, and those that loaded a quota        *)
(* greater than any the month has known, before it began.                  *)
(***************************************************************************)

Committed(m) ==
  {w \in GenWorkers :
     /\ gen[w] # Rest
     /\ \/ gen[w].pc = "counted" /\ gen[w].at = m
        \/ m = month /\ gen[w].pc = "checked"
        \/ m = month /\ gen[w].pc = "loaded" /\ gen[w].quota > ceiling[m]}

\* What month m is charged and can still be charged.
Bounded(m) ==
  usage[m] + Cardinality(Committed(m)) <= ceiling[m] + Cardinality(GenWorkers) - 1

QuotaInForce == quota <= ceiling[month]

UnbegunIsUnused == \A m \in Months : m > month => usage[m] = 0

CountedHasBegun ==
  \A w \in GenWorkers : gen[w] # Rest /\ gen[w].pc = "counted" => gen[w].at \in 1 .. month

IInv ==
  /\ TypeOK
  /\ QuotaInForce
  /\ UnbegunIsUnused
  /\ CountedHasBegun
  /\ \A m \in 1 .. month : Bounded(m)

-----------------------------------------------------------------------------
(* Type correctness.                                                       *)

LEMMA DecideType == ASSUME NEW c, NEW s PROVE Decide(c, s) \in ReviewStatuses
  BY DEF Decide, ReviewStatuses

LEMMA FltType ==
  ASSUME TypeOK, NEW w \in FilterWorkers, flt[w] # Rest
  PROVE  flt[w] \in FilterJob /\ flt[w].r \in Reviews
  BY DEF TypeOK, FilterJob

LEMMA GenType ==
  ASSUME TypeOK, NEW w \in GenWorkers, gen[w] # Rest
  PROVE  gen[w] \in GenJob /\ gen[w].r \in Reviews
  BY DEF TypeOK, GenJob

LEMMA BusyGen ==
  ASSUME TypeOK, NEW w \in GenWorkers, gen[w].pc # "rest"
  PROVE  gen[w] # Rest
  BY DEF Rest

\* Every message can be given back.
LEMMA FilterMessage ==
  ASSUME TypeOK, NEW w \in FilterWorkers, flt[w] # Rest
  PROVE  /\ <<flt[w].r, flt[w].tries>> \in Reviews \X (0 .. FilterRetries)
         /\ flt[w].tries < FilterRetries =>
              <<flt[w].r, flt[w].tries + 1>> \in Reviews \X (0 .. FilterRetries)
  BY FltType, DraftingAssumption DEF FilterJob

LEMMA GenMessage ==
  ASSUME TypeOK, NEW w \in GenWorkers, gen[w] # Rest
  PROVE  /\ <<gen[w].r, gen[w].tries>> \in Reviews \X (0 .. GenRetries)
         /\ gen[w].tries < GenRetries =>
              <<gen[w].r, gen[w].tries + 1>> \in Reviews \X (0 .. GenRetries)
  BY GenType, DraftingAssumption DEF GenJob

THEOREM InitType == Init => TypeOK
<1> SUFFICES ASSUME Init PROVE TypeOK
  OBVIOUS
<1>1. /\ content \in [Reviews -> Contents] /\ settings \in Settings /\ quota \in Quotas
      /\ review \in [Reviews -> ReviewStatuses]
      /\ draft \in [Reviews -> Draft \cup {NoDraft}]
  BY DEF Init, ReviewStatuses
<1>2. month \in Months /\ rows \subseteq Months /\ usage \in [Months -> Nat]
  BY DraftingAssumption DEF Init, Months
<1>3. ceiling \in [Months -> Nat]
  BY <1>1, DraftingAssumption DEF Init
<1>4. /\ filterQ \subseteq Reviews \X (0 .. FilterRetries)
      /\ genQ \subseteq Reviews \X (0 .. GenRetries)
      /\ dead \subseteq Reviews /\ asked \subseteq Reviews
  BY DraftingAssumption DEF Init
<1>5. /\ flt \in [FilterWorkers -> FilterJob \cup {Rest}]
      /\ gen \in [GenWorkers -> GenJob \cup {Rest}]
  BY DEF Init
<1>6. crashes \in 0 .. MaxCrashes /\ regenerations \in 0 .. MaxRegenerations
  BY DraftingAssumption DEF Init
<1> QED
  BY <1>1, <1>2, <1>3, <1>4, <1>5, <1>6 DEF TypeOK

LEMMA LostType ==
  ASSUME TypeOK, Lost
  PROVE  crashes' \in 0 .. MaxCrashes
  BY DraftingAssumption DEF TypeOK, Lost

\* The steps of process_review_task.
LEMMA FilterType ==
  ASSUME TypeOK, NEW w \in FilterWorkers,
         \/ \E r \in Reviews : FilterTake(w, r)
         \/ FilterStep(w)
         \/ FilterCrash(w)
  PROVE  TypeOK'
<1>1. CASE \E r \in Reviews : FilterTake(w, r)
  <2>1. PICK r \in Reviews : FilterTake(w, r)
    BY <1>1
  <2>2. PICK t \in 0 .. FilterRetries :
          /\ filterQ' = filterQ \ {<<r, t>>}
          /\ flt' = [flt EXCEPT ![w] = [pc |-> "loaded", r |-> r, tries |-> t,
                                        settings |-> settings]]
    BY <2>1 DEF FilterTake
  <2>3. flt' \in [FilterWorkers -> FilterJob \cup {Rest}]
    BY <2>2 DEF TypeOK, FilterJob
  <2> QED
    BY <2>1, <2>2, <2>3 DEF TypeOK, FilterTake, account, environment
<1>2. CASE FilterCommit(w)
  <2>1. flt[w] # Rest
    BY <1>2 DEF FilterCommit
  <2>2. review' \in [Reviews -> ReviewStatuses]
    BY <1>2, DecideType DEF FilterCommit, TypeOK
  <2>3. draft' \in [Reviews -> Draft \cup {NoDraft}]
    <3>1. Template \in Draft
      BY DraftingAssumption DEF Draft, Template
    <3> QED
      BY <1>2, <3>1 DEF FilterCommit, TypeOK
  <2>4. /\ filterQ' \subseteq Reviews \X (0 .. FilterRetries)
        /\ flt' \in [FilterWorkers -> FilterJob \cup {Rest}]
        /\ crashes' \in 0 .. MaxCrashes
    BY <1>2, <2>1, FilterMessage, LostType DEF FilterCommit, FilterEnd, TypeOK
  <2> QED
    BY <1>2, <2>2, <2>3, <2>4 DEF TypeOK, FilterCommit, account, environment
<1>3. CASE FilterFail(w)
  <2>1. flt[w] # Rest
    BY <1>3 DEF FilterFail
  <2>2. /\ filterQ' \subseteq Reviews \X (0 .. FilterRetries)
        /\ flt' \in [FilterWorkers -> FilterJob \cup {Rest}]
        /\ dead' \subseteq Reviews
    BY <1>3, <2>1, FilterMessage, FltType DEF FilterFail, TypeOK
  <2> QED
    BY <1>3, <2>2 DEF TypeOK, FilterFail, account, environment
<1>4. CASE FilterCrash(w)
  <2>1. flt[w] # Rest
    BY <1>4 DEF FilterCrash
  <2>2. /\ filterQ' \subseteq Reviews \X (0 .. FilterRetries)
        /\ flt' \in [FilterWorkers -> FilterJob \cup {Rest}]
        /\ crashes' \in 0 .. MaxCrashes
    BY <1>4, <2>1, FilterMessage, LostType DEF FilterCrash, TypeOK
  <2> QED
    BY <1>4, <2>2 DEF TypeOK, FilterCrash, account, environment
<1> QED
  BY <1>1, <1>2, <1>3, <1>4 DEF FilterStep

\* The steps of generate_response that leave the drafts alone.
LEMMA GenerationType ==
  ASSUME TypeOK, NEW w \in GenWorkers,
         \/ \E r \in Reviews : GenTake(w, r)
         \/ GenCheck(w) \/ GenExhausted(w) \/ GenIncrement(w) \/ GenFail(w)
         \/ GenCrash(w)
  PROVE  TypeOK'
<1>1. CASE \E r \in Reviews : GenTake(w, r)
  <2>1. PICK r \in Reviews : GenTake(w, r)
    BY <1>1
  <2>2. PICK t \in 0 .. GenRetries :
          /\ genQ' = genQ \ {<<r, t>>}
          /\ gen' = [gen EXCEPT ![w] = [pc |-> "loaded", r |-> r, tries |-> t,
                                        seen |-> review[r], quota |-> quota,
                                        holds |-> {}, at |-> 0]]
    BY <2>1 DEF GenTake
  <2>3. gen' \in [GenWorkers -> GenJob \cup {Rest}]
    BY <2>2, DraftingAssumption DEF TypeOK, GenJob
  <2> QED
    BY <2>1, <2>2, <2>3 DEF TypeOK, GenTake, account, environment
<1>2. CASE GenCheck(w)
  <2>1. gen[w] \in GenJob
    BY <1>2, BusyGen, GenType DEF GenCheck
  <2>2. gen' \in [GenWorkers -> GenJob \cup {Rest}]
    BY <1>2, <2>1 DEF TypeOK, GenCheck, GenJob
  <2> QED
    BY <1>2, <2>2 DEF TypeOK, GenCheck, account, environment
<1>3. CASE GenExhausted(w)
  <2>1. gen[w] # Rest
    BY <1>3, BusyGen DEF GenExhausted
  <2>2. review' \in [Reviews -> ReviewStatuses]
    BY <1>3, <2>1, GenType DEF GenExhausted, TypeOK, Column, ReviewStatuses
  <2>3. /\ genQ' \subseteq Reviews \X (0 .. GenRetries)
        /\ gen' \in [GenWorkers -> GenJob \cup {Rest}]
        /\ crashes' \in 0 .. MaxCrashes
    BY <1>3, <2>1, GenMessage, LostType DEF GenExhausted, GenEnd, TypeOK
  <2> QED
    BY <1>3, <2>2, <2>3 DEF TypeOK, GenExhausted, account, environment
<1>4. CASE GenIncrement(w)
  <2>1. gen[w] \in GenJob
    BY <1>4, BusyGen, GenType DEF GenIncrement
  <2>2. month \in Months /\ month \in 0 .. MaxMonth
    BY DraftingAssumption DEF TypeOK, Months
  <2>3. [gen[w] EXCEPT !.pc = "counted", !.at = month, !.holds = @ \cup {month}] \in GenJob
    BY <2>1, <2>2 DEF GenJob
  <2>4. gen' \in [GenWorkers -> GenJob \cup {Rest}]
    BY <1>4, <2>3 DEF TypeOK, GenIncrement
  <2> QED
    BY <1>4, <2>4 DEF TypeOK, GenIncrement, account, environment
<1>5. CASE GenFail(w)
  <2>1. gen[w] # Rest
    BY <1>5 DEF GenFail
  <2>2. /\ genQ' \subseteq Reviews \X (0 .. GenRetries)
        /\ gen' \in [GenWorkers -> GenJob \cup {Rest}]
    BY <1>5, <2>1, GenMessage DEF GenFail, TypeOK
  <2> QED
    BY <1>5, <2>2 DEF TypeOK, GenFail, account, environment
<1>6. CASE GenCrash(w)
  <2>1. gen[w] # Rest
    BY <1>6 DEF GenCrash
  <2>2. /\ genQ' \subseteq Reviews \X (0 .. GenRetries)
        /\ gen' \in [GenWorkers -> GenJob \cup {Rest}]
        /\ crashes' \in 0 .. MaxCrashes
    BY <1>6, <2>1, GenMessage, LostType DEF GenCrash, TypeOK
  <2> QED
    BY <1>6, <2>2 DEF TypeOK, GenCrash, account, environment
<1> QED
  BY <1>1, <1>2, <1>3, <1>4, <1>5, <1>6

\* A draft is stored, and what it was counted in is committed.
LEMMA StoreType ==
  ASSUME TypeOK, NEW w \in GenWorkers, GenCommit(w)
  PROVE  TypeOK'
<1>1. gen[w] # Rest /\ gen[w] \in GenJob /\ gen[w].r \in Reviews
  BY BusyGen, GenType DEF GenCommit
<1>2. draft' \in [Reviews -> Draft \cup {NoDraft}]
  <2>1. PICK answer \in 0 .. 1 :
          draft' = [draft EXCEPT ![gen[w].r] = [status |-> "pending", charged |-> gen[w].at,
                                                ai_status |-> answer]]
    BY DEF GenCommit, StoreDraft
  <2>2. [status |-> "pending", charged |-> gen[w].at, ai_status |-> answer] \in Draft
    BY <1>1 DEF Draft, GenJob
  <2> QED
    BY <2>1, <2>2 DEF TypeOK
<1>3. review' \in [Reviews -> ReviewStatuses]
  BY <1>1 DEF GenCommit, StoreDraft, TypeOK, Column, ReviewStatuses
<1>4. usage' \in [Months -> Nat]
  <2>1. usage \in [Months -> Nat] /\ usage' = [usage EXCEPT ![gen[w].at] = @ + 1]
    BY DEF GenCommit, Charge, TypeOK
  <2>2. CASE gen[w].at \in Months
    BY <2>1, <2>2
  <2>3. CASE gen[w].at \notin Months
    BY <2>1, <2>3
  <2> QED
    BY <2>2, <2>3
<1>5. rows' \subseteq Months
  BY <1>1 DEF GenCommit, Charge, TypeOK, GenJob
<1>6. /\ genQ' \subseteq Reviews \X (0 .. GenRetries)
      /\ gen' \in [GenWorkers -> GenJob \cup {Rest}]
      /\ crashes' \in 0 .. MaxCrashes
  BY <1>1, GenMessage, LostType DEF GenCommit, GenEnd, TypeOK
<1>7. UNCHANGED <<environment, quota, month, ceiling, filterQ, dead, asked, flt>>
  BY DEF GenCommit, Charge
<1> QED
  BY <1>2, <1>3, <1>4, <1>5, <1>6, <1>7 DEF TypeOK, environment

\* Regeneration, publication and the load simulation.
LEMMA RequestsType ==
  ASSUME TypeOK, NEW r \in Reviews,
         Regenerate(r) \/ Enqueue(r) \/ Drive(r) \/ Answer(r)
  PROVE  TypeOK'
<1>1. CASE Regenerate(r)
  <2>1. draft[r] \in Draft
    BY <1>1 DEF TypeOK, Regenerate
  <2>2. draft' \in [Reviews -> Draft \cup {NoDraft}]
    BY <1>1, <2>1 DEF TypeOK, Regenerate, Draft
  <2>3. regenerations' \in 0 .. MaxRegenerations
    BY <1>1, DraftingAssumption DEF TypeOK, Regenerate
  <2> QED
    BY <1>1, <2>2, <2>3 DEF TypeOK, Regenerate, account
<1>2. <<r, 0>> \in Reviews \X (0 .. GenRetries)
  BY DraftingAssumption
<1>3. CASE Enqueue(r)
  BY <1>2, <1>3 DEF TypeOK, Enqueue, account, environment
<1>4. CASE Drive(r)
  BY <1>2, <1>4 DEF TypeOK, Drive, account, environment
<1>5. CASE Answer(r)
  <2>1. draft[r] \in Draft
    BY <1>5 DEF TypeOK, Answer
  <2>2. draft' \in [Reviews -> Draft \cup {NoDraft}]
    BY <1>5, <2>1 DEF TypeOK, Answer, Draft
  <2>3. review' \in [Reviews -> ReviewStatuses]
    BY <1>5 DEF TypeOK, Answer, ReviewStatuses
  <2> QED
    BY <1>5, <2>2, <2>3 DEF TypeOK, Answer, account, environment
<1> QED
  BY <1>1, <1>3, <1>4, <1>5

LEMMA QuotaType ==
  ASSUME TypeOK
  PROVE  /\ quota \in Nat \ {0} /\ month \in Nat \ {0} /\ MaxMonth \in Nat
         /\ \A m \in Months : usage[m] \in Nat /\ ceiling[m] \in Nat
         /\ \A m \in 1 .. month : m \in Months
  BY DraftingAssumption DEF TypeOK, Months

\* The settings, the tier and the month.
LEMMA SurroundingsType ==
  ASSUME TypeOK, PatchSettings \/ ChangeTier \/ NewMonth
  PROVE  TypeOK'
<1>1. CASE PatchSettings
  BY <1>1 DEF TypeOK, PatchSettings, account
<1>2. CASE ChangeTier
  <2>1. quota' \in Quotas /\ quota' \in Nat
    BY <1>2, DraftingAssumption DEF ChangeTier
  <2>2. ceiling' \in [Months -> Nat]
    BY <1>2, <2>1, QuotaType DEF TypeOK, ChangeTier, Larger
  <2> QED
    BY <1>2, <2>1, <2>2 DEF TypeOK, ChangeTier, environment
<1>3. CASE NewMonth
  <2>1. month' \in Months
    BY <1>3, DraftingAssumption DEF TypeOK, NewMonth, Months
  <2>2. ceiling' \in [Months -> Nat]
    BY <1>3, QuotaType DEF TypeOK, NewMonth
  <2> QED
    BY <1>3, <2>1, <2>2 DEF TypeOK, NewMonth, environment
<1> QED
  BY <1>1, <1>2, <1>3

LEMMA NextType == TypeOK /\ [Next]_vars => TypeOK'
<1> SUFFICES ASSUME TypeOK, [Next]_vars PROVE TypeOK'
  OBVIOUS
<1>1. ASSUME NEW w \in FilterWorkers,
             (\E r \in Reviews : FilterTake(w, r)) \/ FilterStep(w) \/ FilterCrash(w)
      PROVE  TypeOK'
  BY <1>1, FilterType
<1>2. ASSUME NEW w \in GenWorkers,
             (\E r \in Reviews : GenTake(w, r)) \/ GenStep(w) \/ GenCrash(w)
      PROVE  TypeOK'
  BY <1>2, GenerationType, StoreType DEF GenStep
<1>3. ASSUME NEW r \in Reviews, Regenerate(r) \/ Enqueue(r) \/ Drive(r) \/ Answer(r)
      PROVE  TypeOK'
  BY <1>3, RequestsType
<1>4. CASE PatchSettings \/ ChangeTier \/ NewMonth
  BY <1>4, SurroundingsType
<1>5. CASE UNCHANGED vars
  BY <1>5 DEF TypeOK, vars
<1> QED
  BY <1>1, <1>2, <1>3, <1>4, <1>5 DEF Next

\* Every variable keeps its type, whatever the workers do.
THEOREM TypeCorrect == Spec => []TypeOK
  BY InitType, NextType, PTL DEF Spec

-----------------------------------------------------------------------------
(* The monthly cap.                                                        *)

LEMMA Workers ==
  ASSUME NEW S \in SUBSET GenWorkers
  PROVE  /\ IsFiniteSet(S) /\ Cardinality(S) \in Nat
         /\ Cardinality(S) <= Cardinality(GenWorkers)
         /\ Cardinality(GenWorkers) \in Nat
         /\ \A T \in SUBSET S : Cardinality(T) <= Cardinality(S)
         /\ \A w \in S : Cardinality(S \ {w}) = Cardinality(S) - 1
  BY DraftingAssumption, FS_Subset, FS_CardinalityType, FS_RemoveElement

\* A step that commits no generation further, and charges nothing, keeps the bound.
LEMMA NoNewCommitment ==
  ASSUME TypeOK, TypeOK', NEW m \in Months, Bounded(m),
         Committed(m)' \subseteq Committed(m),
         usage'[m] = usage[m], ceiling'[m] >= ceiling[m]
  PROVE  Bounded(m)'
<1>1. Committed(m) \in SUBSET GenWorkers
  BY DEF Committed
<1> DEFINE C == Committed(m)
           D == Committed(m)'
<1>2. /\ Cardinality(D) \in Nat /\ Cardinality(C) \in Nat
      /\ Cardinality(D) <= Cardinality(C) /\ Cardinality(GenWorkers) \in Nat
  BY <1>1, Workers
<1>3. usage[m] \in Nat /\ ceiling[m] \in Nat /\ usage'[m] \in Nat /\ ceiling'[m] \in Nat
  BY DEF TypeOK
<1>4. usage[m] + Cardinality(C) <= ceiling[m] + Cardinality(GenWorkers) - 1
  BY DEF Bounded
<1>5. SUFFICES usage'[m] + Cardinality(D) <= ceiling'[m] + Cardinality(GenWorkers) - 1
  BY DEF Bounded
<1> HIDE DEF C, D
<1> QED
  BY <1>2, <1>3, <1>4

\* Steps that leave the account alone, and whose generations commit to nothing new.
LEMMA AccountKept ==
  ASSUME IInv, TypeOK', UNCHANGED <<quota, month, usage, ceiling>>,
         \A w \in GenWorkers :
           \/ gen'[w] = gen[w]
           \/ gen'[w] = Rest
           \/ gen'[w].pc = "loaded" /\ gen'[w].quota = quota
  PROVE  IInv'
<1>1. QuotaInForce' /\ UnbegunIsUnused'
  BY DEF IInv, QuotaInForce, UnbegunIsUnused
<1>2. CountedHasBegun'
  BY DEF IInv, CountedHasBegun
<1>3. ASSUME NEW m \in 1 .. month' PROVE Bounded(m)'
  <2>1. m \in Months /\ Bounded(m)
    BY <1>3, QuotaType DEF IInv
  <2>2. quota \in Nat /\ ceiling[month] \in Nat
    BY DraftingAssumption DEF IInv, TypeOK
  <2>3. Committed(m)' \subseteq Committed(m)
    BY <2>2 DEF IInv, QuotaInForce, Committed
  <2>4. ceiling'[m] >= ceiling[m]
    BY <2>1, QuotaType DEF IInv
  <2> QED
    BY <2>1, <2>3, <2>4, NoNewCommitment DEF IInv
<1> QED
  BY <1>1, <1>2, <1>3 DEF IInv

LEMMA InitInv == Init => IInv
<1> SUFFICES ASSUME Init PROVE IInv
  OBVIOUS
<1>1. TypeOK
  BY InitType
<1>2. month = 1 /\ 1 \in Months /\ quota \in Nat \ {0} /\ ceiling[1] = quota
  BY DraftingAssumption DEF Init, Months
<1>3. QuotaInForce /\ UnbegunIsUnused
  BY <1>2 DEF Init, QuotaInForce, UnbegunIsUnused
<1>4. Committed(1) = {} /\ CountedHasBegun
  BY DEF Init, Committed, CountedHasBegun
<1>5. Cardinality(Committed(1)) = 0 /\ Cardinality(GenWorkers) \in Nat
  BY <1>4, FS_EmptySet, FS_CardinalityType, DraftingAssumption
<1>6. usage[1] = 0
  BY <1>2 DEF Init
<1>7. \A m \in 1 .. month : Bounded(m)
  BY <1>2, <1>5, <1>6 DEF Bounded
<1> QED
  BY <1>1, <1>3, <1>4, <1>7 DEF IInv

\* The check adds its generation to those committed, below the cap.
LEMMA CheckInv ==
  ASSUME IInv, TypeOK', NEW w \in GenWorkers, GenCheck(w)
  PROVE  IInv'
<1>1. /\ gen[w] # Rest /\ gen[w].pc = "loaded" /\ usage[month] < gen[w].quota
      /\ gen[w] \in GenJob
      /\ UNCHANGED <<quota, month, usage, ceiling>>
  BY BusyGen, GenType DEF IInv, GenCheck, account
<1>2. /\ gen'[w].pc = "checked" /\ \A v \in GenWorkers \ {w} : gen'[v] = gen[v]
      /\ gen'[w] # Rest
  BY <1>1 DEF IInv, TypeOK, GenCheck, Rest, GenJob
<1>3. gen[w].quota \in Nat
  BY <1>1, DraftingAssumption DEF GenJob
<1>4. QuotaInForce' /\ UnbegunIsUnused' /\ CountedHasBegun'
  BY <1>1, <1>2 DEF IInv, QuotaInForce, UnbegunIsUnused, CountedHasBegun
<1>5. ASSUME NEW m \in 1 .. month' PROVE Bounded(m)'
  <2> DEFINE C == Committed(m)
             D == Committed(m)'
  <2>1. /\ m \in Months /\ Bounded(m) /\ usage'[m] = usage[m] /\ ceiling'[m] = ceiling[m]
        /\ usage[m] \in Nat /\ ceiling[m] \in Nat
    BY <1>1, <1>5, QuotaType DEF IInv
  <2>2. C \in SUBSET GenWorkers /\ D \in SUBSET GenWorkers
    BY DEF Committed
  <2>3. CASE m # month \/ w \in C
    <3>1. D \subseteq C
      BY <1>1, <1>2, <2>3 DEF Committed
    <3> QED
      BY <2>1, <3>1, NoNewCommitment DEF IInv
  <2>4. CASE m = month /\ w \notin C
    <3>1. ~(gen[w].quota > ceiling[m])
      BY <1>1, <2>4 DEF Committed
    <3>2. usage[m] < ceiling[m]
      BY <1>1, <1>3, <2>1, <2>4, <3>1
    <3>3. Cardinality(D) \in Nat /\ Cardinality(D) <= Cardinality(GenWorkers)
          /\ Cardinality(GenWorkers) \in Nat
      BY <2>2, Workers
    <3>4. usage'[m] + Cardinality(D) <= ceiling'[m] + Cardinality(GenWorkers) - 1
      <4> HIDE DEF C, D
      <4> QED
        BY <2>1, <3>2, <3>3
    <3> QED
      BY <3>4 DEF Bounded
  <2> QED
    BY <2>3, <2>4
<1> QED
  BY <1>1, <1>4, <1>5 DEF IInv

\* A generation that counts was committed to the month.
LEMMA IncrementInv ==
  ASSUME IInv, TypeOK', NEW w \in GenWorkers, GenIncrement(w)
  PROVE  IInv'
<1>1. /\ gen[w] # Rest /\ gen[w].pc = "checked" /\ gen[w] \in GenJob
      /\ UNCHANGED <<quota, month, usage, ceiling>>
  BY BusyGen, GenType DEF IInv, GenIncrement, account
<1>2. /\ gen'[w].pc = "counted" /\ gen'[w].at = month
      /\ \A v \in GenWorkers \ {w} : gen'[v] = gen[v]
  BY <1>1 DEF IInv, TypeOK, GenIncrement, GenJob
<1>3. month \in 1 .. month
  BY QuotaType DEF IInv
<1>4. QuotaInForce' /\ UnbegunIsUnused' /\ CountedHasBegun'
  BY <1>1, <1>2, <1>3 DEF IInv, QuotaInForce, UnbegunIsUnused, CountedHasBegun
<1>5. ASSUME NEW m \in 1 .. month' PROVE Bounded(m)'
  <2>1. m \in Months /\ Bounded(m) /\ ceiling'[m] >= ceiling[m]
    BY <1>1, <1>5, QuotaType DEF IInv
  <2>2. Committed(m)' \subseteq Committed(m)
    BY <1>1, <1>2 DEF Committed
  <2> QED
    BY <1>1, <2>1, <2>2, NoNewCommitment DEF IInv
<1> QED
  BY <1>1, <1>4, <1>5 DEF IInv

\* What a commit adds to the count it takes from those committed.
LEMMA CommitInv ==
  ASSUME IInv, TypeOK', NEW w \in GenWorkers, GenCommit(w)
  PROVE  IInv'
<1>1. /\ gen[w] # Rest /\ gen[w].pc = "counted" /\ gen[w] \in GenJob
      /\ gen[w].at \in 1 .. month
      /\ UNCHANGED <<quota, month, ceiling>>
  BY BusyGen, GenType DEF IInv, GenCommit, Charge, CountedHasBegun
<1>2. gen'[w] = Rest /\ \A v \in GenWorkers \ {w} : gen'[v] = gen[v]
  BY DEF IInv, TypeOK, GenCommit, GenEnd
<1>3. PICK a \in 1 .. month : a = gen[w].at
  BY <1>1
<1>4. /\ a \in Months /\ usage[a] \in Nat /\ usage'[a] = usage[a] + 1
      /\ \A m \in Months : m # a => usage'[m] = usage[m]
  BY <1>3, QuotaType DEF IInv, TypeOK, GenCommit, Charge
<1>5. QuotaInForce' /\ UnbegunIsUnused' /\ CountedHasBegun'
  <2>1. QuotaInForce'
    BY <1>1 DEF IInv, QuotaInForce
  <2>2. UnbegunIsUnused'
    <3>1. month \in Nat /\ month' = month
      BY <1>1, QuotaType DEF IInv
    <3>2. ASSUME NEW m \in Months, m > month PROVE usage'[m] = 0
      <4>1. m # a
        BY <3>1, <3>2 DEF Months
      <4> QED
        BY <1>4, <3>2, <4>1 DEF IInv, UnbegunIsUnused
    <3> QED
      BY <3>1, <3>2 DEF UnbegunIsUnused
  <2>3. CountedHasBegun'
    BY <1>1, <1>2 DEF IInv, CountedHasBegun
  <2> QED
    BY <2>1, <2>2, <2>3
<1>6. ASSUME NEW m \in 1 .. month', m # a PROVE Bounded(m)'
  <2>1. m \in Months /\ Bounded(m) /\ ceiling'[m] >= ceiling[m] /\ usage'[m] = usage[m]
    BY <1>1, <1>4, <1>6, QuotaType DEF IInv
  <2>2. Committed(m)' \subseteq Committed(m)
    BY <1>1, <1>2 DEF Committed
  <2> QED
    BY <2>1, <2>2, NoNewCommitment DEF IInv
<1>7. Bounded(a)'
  <2> DEFINE C == Committed(a)
             D == Committed(a)'
  <2>1. C \in SUBSET GenWorkers /\ w \in C /\ D \subseteq C \ {w}
    BY <1>1, <1>2, <1>3 DEF Committed
  <2>2. /\ Cardinality(C) \in Nat /\ Cardinality(C \ {w}) = Cardinality(C) - 1
        /\ Cardinality(GenWorkers) \in Nat
    BY <2>1, Workers
  <2>3. Cardinality(D) \in Nat /\ Cardinality(D) <= Cardinality(C \ {w})
    <3>1. (C \ {w}) \in SUBSET GenWorkers /\ D \in SUBSET GenWorkers
      BY <2>1
    <3> QED
      BY <2>1, <3>1, Workers
  <2>4. /\ usage[a] + Cardinality(C) <= ceiling[a] + Cardinality(GenWorkers) - 1
        /\ ceiling[a] \in Nat /\ ceiling'[a] = ceiling[a]
    BY <1>1, <1>3, <1>4 DEF IInv, Bounded, TypeOK
  <2>5. usage'[a] + Cardinality(D) <= ceiling'[a] + Cardinality(GenWorkers) - 1
    <3> HIDE DEF C, D
    <3> QED
      BY <1>4, <2>2, <2>3, <2>4
  <2> QED
    BY <2>5 DEF Bounded
<1>8. ASSUME NEW m \in 1 .. month' PROVE Bounded(m)'
  BY <1>6, <1>7, <1>8
<1> QED
  BY <1>5, <1>8 DEF IInv

\* A tier only raises the greatest quota the month has known.
LEMMA TierInv ==
  ASSUME IInv, TypeOK', ChangeTier
  PROVE  IInv'
<1>1. /\ quota' \in Nat /\ quota \in Nat
      /\ month \in Months /\ month \in Nat
      /\ UNCHANGED <<month, usage, gen>>
      /\ ceiling[month] \in Nat
  BY QuotaType, DraftingAssumption DEF IInv, TypeOK, ChangeTier, Months
<1>2. /\ ceiling'[month] = Larger(ceiling[month], quota')
      /\ \A m \in Months : m # month => ceiling'[m] = ceiling[m]
  BY <1>1 DEF IInv, TypeOK, ChangeTier
<1>3. ceiling'[month] >= ceiling[month] /\ quota' <= ceiling'[month] /\ ceiling'[month] \in Nat
  BY <1>1, <1>2 DEF Larger
<1>4. QuotaInForce' /\ UnbegunIsUnused' /\ CountedHasBegun'
  BY <1>1, <1>3 DEF IInv, QuotaInForce, UnbegunIsUnused, CountedHasBegun
<1>5. ASSUME NEW m \in 1 .. month' PROVE Bounded(m)'
  <2>1. m \in Months /\ Bounded(m) /\ ceiling[m] \in Nat
    BY <1>1, <1>5, QuotaType DEF IInv
  <2>2. ceiling'[m] >= ceiling[m] /\ ceiling'[m] \in Nat
    BY <1>2, <1>3, <2>1
  <2>3. \A v \in GenWorkers : gen[v] # Rest => gen[v].quota \in Nat
    BY GenType, DraftingAssumption DEF IInv, GenJob
  <2>4. Committed(m)' \subseteq Committed(m)
    BY <1>1, <2>1, <2>2, <2>3 DEF Committed
  <2> QED
    BY <1>1, <2>1, <2>2, <2>4, NoNewCommitment DEF IInv
<1> QED
  BY <1>4, <1>5 DEF IInv

\* A month begins unused: the workers on the way are all that can pass its cap.
LEMMA MonthInv ==
  ASSUME IInv, TypeOK', NewMonth
  PROVE  IInv'
<1>1. /\ quota \in Nat \ {0} /\ month \in Nat \ {0} /\ month' = month + 1
      /\ month + 1 \in Months
      /\ UNCHANGED <<quota, usage, gen>>
  BY QuotaType DEF IInv, TypeOK, NewMonth, Months
<1>2. /\ ceiling'[month + 1] = quota
      /\ \A m \in 1 .. month : ceiling'[m] = ceiling[m]
  BY <1>1, QuotaType DEF IInv, TypeOK, NewMonth
<1>3. QuotaInForce' /\ UnbegunIsUnused'
  BY <1>1, <1>2 DEF IInv, QuotaInForce, UnbegunIsUnused, Months
<1>4. CountedHasBegun'
  BY <1>1 DEF IInv, CountedHasBegun
<1>5. ASSUME NEW m \in 1 .. month PROVE Bounded(m)'
  <2>1. m \in Months /\ Bounded(m) /\ ceiling[m] \in Nat /\ m # month'
    BY <1>1, <1>5, QuotaType DEF IInv
  <2>2. ceiling'[m] >= ceiling[m] /\ usage'[m] = usage[m]
    BY <1>1, <1>2, <2>1
  <2>3. Committed(m)' \subseteq Committed(m)
    BY <1>1, <2>1 DEF Committed
  <2> QED
    BY <2>1, <2>2, <2>3, NoNewCommitment DEF IInv
<1>6. ASSUME NEW m, m = month + 1 PROVE Bounded(m)'
  <2> DEFINE D == Committed(m)'
  <2>1. D \in SUBSET GenWorkers
    BY DEF Committed
  <2>2. Cardinality(D) \in Nat /\ Cardinality(D) <= Cardinality(GenWorkers)
        /\ Cardinality(GenWorkers) \in Nat
    BY <2>1, Workers
  <2>3. usage'[m] = 0
    BY <1>1, <1>6 DEF IInv, UnbegunIsUnused
  <2>4. usage'[m] + Cardinality(D) <= ceiling'[m] + Cardinality(GenWorkers) - 1
    <3> HIDE DEF D
    <3> QED
      BY <1>1, <1>2, <1>6, <2>2, <2>3
  <2> QED
    BY <2>4 DEF Bounded
<1>7. ASSUME NEW m \in 1 .. month' PROVE Bounded(m)'
  BY <1>1, <1>5, <1>6, <1>7
<1> QED
  BY <1>3, <1>4, <1>7 DEF IInv

\* The other steps leave the account alone, and commit no generation.
LEMMA OtherInv ==
  ASSUME IInv, TypeOK',
         \/ \E w \in FilterWorkers :
              (\E r \in Reviews : FilterTake(w, r)) \/ FilterStep(w) \/ FilterCrash(w)
         \/ \E w \in GenWorkers :
              \/ \E r \in Reviews : GenTake(w, r)
              \/ GenExhausted(w) \/ GenFail(w) \/ GenCrash(w)
         \/ \E r \in Reviews : Regenerate(r) \/ Enqueue(r) \/ Drive(r) \/ Answer(r)
         \/ PatchSettings
         \/ UNCHANGED vars
  PROVE  IInv'
<1>1. ASSUME NEW w \in GenWorkers, NEW r \in Reviews, GenTake(w, r)
      PROVE  IInv'
  BY <1>1, AccountKept DEF IInv, TypeOK, GenTake, account
<1>2. ASSUME NEW w \in GenWorkers, GenExhausted(w) \/ GenFail(w) \/ GenCrash(w)
      PROVE  IInv'
  <2>1. UNCHANGED <<quota, month, usage, ceiling>>
    BY <1>2 DEF GenExhausted, GenFail, GenCrash, account
  <2>2. \A v \in GenWorkers : gen'[v] = gen[v] \/ gen'[v] = Rest
    BY <1>2 DEF IInv, TypeOK, GenExhausted, GenEnd, GenFail, GenCrash
  <2> QED
    BY <2>1, <2>2, AccountKept
<1>3. ASSUME UNCHANGED <<quota, month, usage, ceiling, gen>>
      PROVE  IInv'
  BY <1>3, AccountKept
<1>4. ASSUME NEW w \in FilterWorkers,
             (\E r \in Reviews : FilterTake(w, r)) \/ FilterStep(w) \/ FilterCrash(w)
      PROVE  UNCHANGED <<quota, month, usage, ceiling, gen>>
  BY <1>4 DEF FilterTake, FilterStep, FilterCommit, FilterFail, FilterCrash, account
<1>5. ASSUME NEW r \in Reviews, Regenerate(r) \/ Enqueue(r) \/ Drive(r) \/ Answer(r)
      PROVE  UNCHANGED <<quota, month, usage, ceiling, gen>>
  BY <1>5 DEF Regenerate, Enqueue, Drive, Answer, account
<1>6. CASE PatchSettings \/ UNCHANGED vars
  BY <1>3, <1>6 DEF PatchSettings, account, vars
<1> QED
  BY <1>1, <1>2, <1>3, <1>4, <1>5, <1>6

\* The invariant holds in every reachable state.
THEOREM Invariant == Spec => []IInv
<1>1. Init => IInv
  BY InitInv
<1>2. IInv /\ [Next]_vars => IInv'
  <2> SUFFICES ASSUME IInv, [Next]_vars PROVE IInv'
    OBVIOUS
  <2>1. TypeOK'
    BY NextType DEF IInv
  <2>2. ASSUME NEW w \in GenWorkers, GenCheck(w) \/ GenIncrement(w) \/ GenCommit(w)
        PROVE  IInv'
    BY <2>1, <2>2, CheckInv, IncrementInv, CommitInv
  <2>3. CASE ChangeTier \/ NewMonth
    BY <2>1, <2>3, TierInv, MonthInv
  <2> QED
    BY <2>1, <2>2, <2>3, OtherInv DEF Next, GenStep
<1> QED
  BY <1>1, <1>2, PTL DEF Spec

\* Overlapping generations pass the monthly cap by less than the number of
\* workers, for any number of workers, reviews, tiers and months.
THEOREM QuotaHolds == Spec => []QuotaNearlyHeld
<1>1. IInv => QuotaNearlyHeld
  <2> SUFFICES ASSUME IInv, NEW m \in 1 .. month
               PROVE  usage[m] <= ceiling[m] + Cardinality(GenWorkers) - 1
    BY DEF QuotaNearlyHeld
  <2>1. Bounded(m) /\ usage[m] \in Nat /\ ceiling[m] \in Nat
    BY QuotaType DEF IInv
  <2>2. Cardinality(Committed(m)) \in Nat /\ Cardinality(GenWorkers) \in Nat
    BY Workers DEF Committed
  <2> QED
    BY <2>1, <2>2 DEF Bounded
<1> QED
  BY <1>1, Invariant, PTL

-----------------------------------------------------------------------------
(* Drafts and what they stand for.                                         *)

(***************************************************************************)
(* A draft, once there, stays.  So a generation can only add one where     *)
(* there is none, and whatever asks for a generation was either decided    *)
(* for the model by the filter or comes too late: the review has a draft.  *)
(***************************************************************************)

Good(r) == content[r].text /\ content[r].rating > 3

Charged(m) == {r \in Reviews : draft[r] # NoDraft /\ draft[r].charged = m}

MayBeGenerated(r) ==
  \/ review[r] = "processing"
  \/ r \in asked
  \/ \E t \in 0 .. GenRetries : <<r, t>> \in genQ
  \/ \E w \in GenWorkers : gen[w] # Rest /\ gen[w].r = r

GoodOrDrafted ==
  \A r \in Reviews : MayBeGenerated(r) => Good(r) \/ draft[r] # NoDraft

DInv == GoodOrDrafted /\ LowRatingStaysHuman /\ AwaitingIsUnanswered /\ CountIsStoredCalls

\* What a step does to the drafts: nothing, a status, a template or a generated one.
DraftsKept ==
  /\ \A r \in Reviews : draft[r] # NoDraft => draft'[r] # NoDraft /\ draft'[r].charged = draft[r].charged
  /\ \A r \in Reviews : draft[r] = NoDraft => draft'[r] = NoDraft \/ draft'[r].charged = 0

\* Who a step may come to ask a generation for.
AskedKept ==
  /\ \A r \in Reviews : review'[r] = "processing" =>
       \/ review[r] = "processing" \/ Good(r)
       \/ \E w \in GenWorkers : gen[w] # Rest /\ gen[w].r = r
  /\ \A r \in Reviews : r \in asked' => r \in asked \/ draft'[r] # NoDraft
  /\ \A r \in Reviews, t \in 0 .. GenRetries : <<r, t>> \in genQ' =>
       \/ <<r, t>> \in genQ \/ r \in asked \/ review[r] = "processing"
       \/ \E w \in GenWorkers : gen[w] # Rest /\ gen[w].r = r
  /\ \A w \in GenWorkers : gen'[w] # Rest =>
       \/ gen[w] # Rest /\ gen'[w].r = gen[w].r
       \/ \E t \in 0 .. GenRetries : <<gen'[w].r, t>> \in genQ

AwaitKept ==
  \A r \in Reviews : review'[r] = "awaiting_response" =>
    \/ review[r] = "awaiting_response" /\ draft'[r] = draft[r]
    \/ draft'[r] # NoDraft /\ draft'[r].status # "published"

LEMMA Asked ==
  ASSUME GoodOrDrafted, AskedKept, content' = content,
         \A r \in Reviews : draft[r] # NoDraft => draft'[r] # NoDraft
  PROVE  GoodOrDrafted'
<1> SUFFICES ASSUME NEW r \in Reviews, MayBeGenerated(r)'
             PROVE  Good(r)' \/ draft'[r] # NoDraft
  BY DEF GoodOrDrafted
<1>1. Good(r)' <=> Good(r)
  BY DEF Good
<1>2. Good(r) \/ MayBeGenerated(r) \/ draft'[r] # NoDraft
  BY DEF AskedKept, MayBeGenerated
<1> QED
  BY <1>1, <1>2 DEF GoodOrDrafted

LEMMA Uncharged ==
  ASSUME TypeOK, DInv, DraftsKept, usage' = usage, content' = content
  PROVE  CountIsStoredCalls' /\ LowRatingStaysHuman'
<1>1. \A m \in Months : Charged(m)' = Charged(m)
  BY DEF DraftsKept, Charged, Months
<1>2. \A m \in Months : usage[m] = Cardinality(Charged(m))
  BY DEF DInv, CountIsStoredCalls, Charged
<1>3. CountIsStoredCalls'
  BY <1>1, <1>2 DEF CountIsStoredCalls, Charged
<1>4. LowRatingStaysHuman'
  BY DEF DInv, LowRatingStaysHuman, DraftsKept
<1> QED
  BY <1>3, <1>4

LEMMA Undisturbed ==
  ASSUME TypeOK, DInv, DraftsKept, AskedKept, AwaitKept, usage' = usage, content' = content
  PROVE  DInv'
<1>1. GoodOrDrafted'
  BY Asked DEF DInv, DraftsKept
<1>2. AwaitingIsUnanswered'
  BY DEF DInv, AwaitKept, AwaitingIsUnanswered, DraftsKept
<1> QED
  BY <1>1, <1>2, Uncharged DEF DInv

LEMMA Decided ==
  ASSUME NEW c \in Content, NEW s \in Setting
  PROVE  Decide(c, s) = "processing" => c.text /\ c.rating > 3
  BY DEF Decide, Content, Setting

LEMMA FilterDrafts ==
  ASSUME TypeOK, DInv, NEW w \in FilterWorkers,
         (\E r \in Reviews : FilterTake(w, r)) \/ FilterStep(w) \/ FilterCrash(w)
  PROVE  DInv'
<1>1. CASE FilterCommit(w)
  <2> DEFINE r == flt[w].r
             decision == Decide(content[r], flt[w].settings)
             template == Template
  <2>1. flt[w] # Rest /\ r \in Reviews /\ flt[w].settings \in Settings
    BY <1>1, FltType DEF FilterCommit, FilterJob
  <2>2. /\ decision = "awaiting_response" => draft[r] = NoDraft
        /\ review' = [review EXCEPT ![r] = decision]
        /\ draft' = IF decision = "awaiting_response"
                    THEN [draft EXCEPT ![r] = template] ELSE draft
        /\ UNCHANGED <<usage, content, genQ, asked, gen>>
    BY <1>1 DEF FilterCommit, account, environment
  <2>3. template # NoDraft /\ template.charged = 0 /\ template.status = "pending"
    BY DraftingAssumption DEF Draft, Template
  <2>4. decision = "processing" => Good(r)
    BY <2>1, Decided, DraftingAssumption DEF TypeOK, Good
  <2> HIDE DEF r, decision, template
  <2>5. DraftsKept
    BY <2>1, <2>2, <2>3 DEF DraftsKept, TypeOK
  <2>6. AskedKept
    BY <2>1, <2>2, <2>4 DEF AskedKept, TypeOK
  <2>7. AwaitKept
    BY <2>1, <2>2, <2>3 DEF AwaitKept, TypeOK
  <2> QED
    BY <2>2, <2>5, <2>6, <2>7, Undisturbed
<1>2. CASE (\E r \in Reviews : FilterTake(w, r)) \/ FilterFail(w) \/ FilterCrash(w)
  <2>1. UNCHANGED <<usage, content, review, draft, genQ, asked, gen>>
    BY <1>2 DEF FilterTake, FilterFail, FilterCrash, account, environment
  <2>2. DraftsKept /\ AskedKept /\ AwaitKept
    BY <2>1 DEF DraftsKept, AskedKept, AwaitKept
  <2> QED
    BY <2>1, <2>2, Undisturbed
<1> QED
  BY <1>1, <1>2 DEF FilterStep

\* The steps of a generation that leave the drafts alone.
LEMMA GenerationDrafts ==
  ASSUME TypeOK, DInv, NEW w \in GenWorkers,
         \/ \E r \in Reviews : GenTake(w, r)
         \/ GenCheck(w) \/ GenExhausted(w) \/ GenIncrement(w) \/ GenFail(w) \/ GenCrash(w)
  PROVE  DInv'
<1>1. UNCHANGED <<usage, content, draft, asked>>
  BY DEF GenTake, GenCheck, GenExhausted, GenIncrement, GenFail, GenCrash, account, environment
<1>2. DraftsKept
  BY <1>1 DEF DraftsKept
<1>3. CASE \E r \in Reviews : GenTake(w, r)
  <2>1. PICK r \in Reviews, t \in 0 .. GenRetries :
          /\ <<r, t>> \in genQ /\ genQ' = genQ \ {<<r, t>>} /\ review' = review
          /\ gen' = [gen EXCEPT ![w] = [pc |-> "loaded", r |-> r, tries |-> t,
                                        seen |-> review[r], quota |-> quota,
                                        holds |-> {}, at |-> 0]]
    BY <1>3 DEF GenTake
  <2>2. AskedKept
    BY <1>1, <2>1 DEF AskedKept, TypeOK
  <2> QED
    BY <1>1, <1>2, <2>1, <2>2, Undisturbed DEF AwaitKept
<1>4. CASE GenCheck(w) \/ GenIncrement(w)
  <2>1. gen[w] # Rest /\ gen[w] \in GenJob /\ UNCHANGED <<review, genQ>>
    BY <1>4, BusyGen, GenType DEF GenCheck, GenIncrement
  <2>2. /\ gen'[w].r = gen[w].r
        /\ \A v \in GenWorkers : v # w => gen'[v] = gen[v]
    BY <1>4, <2>1 DEF GenCheck, GenIncrement, TypeOK, GenJob
  <2>3. AskedKept
    BY <1>1, <2>1, <2>2 DEF AskedKept
  <2> QED
    BY <1>1, <1>2, <2>1, <2>3, Undisturbed DEF AwaitKept
<1>5. CASE GenExhausted(w) \/ GenFail(w) \/ GenCrash(w)
  <2>1. gen[w] # Rest /\ gen[w].r \in Reviews /\ gen' = [gen EXCEPT ![w] = Rest]
    BY <1>5, BusyGen, GenType DEF GenExhausted, GenEnd, GenFail, GenCrash
  <2>2. \A m \in genQ' : m \in genQ \/ \E t : m = <<gen[w].r, t>>
    BY <1>5 DEF GenExhausted, GenEnd, GenFail, GenCrash
  <2>3. \/ review' = review
        \/ review' = [review EXCEPT ![gen[w].r] = Column(gen[w].seen, "processing", @)]
    BY <1>5 DEF GenExhausted, GenFail, GenCrash
  <2>4. \A r \in Reviews : review'[r] = review[r] \/ (r = gen[w].r /\ review'[r] = "processing")
    BY <2>1, <2>3 DEF TypeOK, Column
  <2>5. \A v \in GenWorkers : gen'[v] = gen[v] \/ gen'[v] = Rest
    BY <2>1 DEF TypeOK
  <2>6. \A r \in Reviews, t \in 0 .. GenRetries : <<r, t>> \in genQ' =>
          <<r, t>> \in genQ \/ r = gen[w].r
    BY <2>2
  <2>7. AskedKept
    BY <1>1, <2>1, <2>4, <2>5, <2>6 DEF AskedKept
  <2>8. AwaitKept
    BY <1>1, <2>4 DEF AwaitKept
  <2> QED
    BY <1>1, <1>2, <2>7, <2>8, Undisturbed
<1> QED
  BY <1>3, <1>4, <1>5

\* A generated draft is added where there was none, and counted in its month.
LEMMA CommitDrafts ==
  ASSUME IInv, DInv, NEW w \in GenWorkers, GenCommit(w)
  PROVE  DInv'
<1> DEFINE r == gen[w].r
           a == gen[w].at
<1>0. PICK answer \in 0 .. 1 :
        draft' = [draft EXCEPT ![r] = [status |-> "pending", charged |-> a,
                                       ai_status |-> answer]]
  BY DEF GenCommit, StoreDraft
<1> DEFINE new == [status |-> "pending", charged |-> a, ai_status |-> answer]
<1>1. /\ TypeOK /\ gen[w] # Rest /\ r \in Reviews /\ draft[r] = NoDraft
      /\ a \in 1 .. month /\ a \in Months /\ month \in Months /\ a \in 0 .. MaxMonth
  <2>1. gen[w] # Rest /\ gen[w].pc = "counted" /\ draft[r] = NoDraft
    BY BusyGen DEF IInv, GenCommit
  <2>2. a \in 1 .. month /\ month \in Months
    BY <2>1 DEF IInv, CountedHasBegun, TypeOK
  <2> QED
    BY <2>1, <2>2, GenType, DraftingAssumption DEF IInv, Months
<1>2. /\ draft' = [draft EXCEPT ![r] = new]
      /\ review' = [review EXCEPT ![r] = Column(gen[w].seen, "awaiting_response", @)]
      /\ usage' = [usage EXCEPT ![a] = @ + 1]
      /\ gen' = [gen EXCEPT ![w] = Rest]
      /\ UNCHANGED <<content, asked>>
  BY <1>0 DEF GenCommit, StoreDraft, Charge, GenEnd, environment
<1>3. \A m \in genQ' : m \in genQ \/ \E t : m = <<r, t>>
  BY DEF GenCommit, GenEnd
<1>4. new # NoDraft /\ new.charged = a /\ new.status = "pending"
  BY <1>1, DraftingAssumption DEF Draft
<1> HIDE DEF new
<1>5. Good(r)
  BY <1>1 DEF DInv, GoodOrDrafted, MayBeGenerated
<1> HIDE DEF r, a
<1>6. \A q \in Reviews : draft'[q] = IF q = r THEN new ELSE draft[q]
  BY <1>1, <1>2 DEF TypeOK
<1>7. GoodOrDrafted'
  <2>1. \A q \in Reviews : draft[q] # NoDraft => draft'[q] # NoDraft
    BY <1>1, <1>6
  <2>2. AskedKept
    <3>1. \A q \in Reviews : review'[q] = "processing" => review[q] = "processing"
      BY <1>1, <1>2 DEF TypeOK, Column
    <3>2. \A v \in GenWorkers : gen'[v] = gen[v] \/ gen'[v] = Rest
      BY <1>1, <1>2 DEF TypeOK
    <3>3. \A q \in Reviews, t \in 0 .. GenRetries : <<q, t>> \in genQ' =>
            <<q, t>> \in genQ \/ q = r
      BY <1>3
    <3> QED
      BY <1>1, <1>2, <3>1, <3>2, <3>3 DEF AskedKept, r
  <2> QED
    BY <1>2, <2>1, <2>2, Asked DEF DInv
<1>8. LowRatingStaysHuman'
  BY <1>2, <1>5, <1>6 DEF DInv, LowRatingStaysHuman, Good
<1>9. AwaitingIsUnanswered'
  BY <1>1, <1>2, <1>4, <1>6 DEF DInv, AwaitingIsUnanswered, TypeOK
<1>10. CountIsStoredCalls'
  <2>1. ASSUME NEW m \in Months
        PROVE  usage'[m] = Cardinality(Charged(m)')
    <3>1. IsFiniteSet(Charged(m)) /\ usage[m] = Cardinality(Charged(m))
      <4>1. IsFiniteSet(Charged(m))
        BY DraftingAssumption, FS_Subset DEF Charged
      <4> QED
        BY <4>1 DEF DInv, CountIsStoredCalls, Charged
    <3>2. CASE m = a
      <4>1. Charged(m)' = Charged(m) \cup {r} /\ r \notin Charged(m)
        BY <1>1, <1>4, <1>6, <3>2 DEF Charged
      <4>2. Cardinality(Charged(m)') = Cardinality(Charged(m)) + 1
        BY <3>1, <4>1, FS_AddElement
      <4>3. usage'[m] = usage[m] + 1
        BY <1>1, <1>2, <3>2 DEF TypeOK
      <4> QED
        BY <3>1, <4>2, <4>3
    <3>3. CASE m # a
      <4>1. Charged(m)' = Charged(m)
        BY <1>1, <1>4, <1>6, <3>3 DEF Charged
      <4>2. usage'[m] = usage[m]
        BY <1>1, <1>2, <3>3 DEF TypeOK
      <4> QED
        BY <3>1, <4>1, <4>2
    <3> QED
      BY <3>2, <3>3
  <2> QED
    BY <2>1 DEF CountIsStoredCalls, Charged
<1> QED
  BY <1>7, <1>8, <1>9, <1>10 DEF DInv

\* A new status leaves the draft a draft, charged to the month it was.
LEMMA Restated ==
  ASSUME TypeOK, NEW r \in Reviews, NEW s \in {"pending", "published", "superseded"},
         draft[r] # NoDraft, draft' = [draft EXCEPT ![r].status = s]
  PROVE  /\ DraftsKept /\ draft'[r] # NoDraft /\ draft'[r].status = s
         /\ \A q \in Reviews \ {r} : draft'[q] = draft[q]
<1>1. draft[r] \in Draft
  BY DEF TypeOK
<1>2. [draft[r] EXCEPT !.status = s] \in Draft
  BY <1>1 DEF Draft
<1>3. /\ [draft[r] EXCEPT !.status = s].charged = draft[r].charged
      /\ [draft[r] EXCEPT !.status = s].status = s
  BY <1>1 DEF Draft
<1>4. \A q \in Reviews :
        draft'[q] = IF q = r THEN [draft[r] EXCEPT !.status = s] ELSE draft[q]
  BY DEF TypeOK
<1> QED
  BY <1>2, <1>3, <1>4, DraftingAssumption DEF DraftsKept

\* What asks for a generation has a draft, or a review the filter has let through.
LEMMA RequestDrafts ==
  ASSUME TypeOK, DInv, NEW r \in Reviews,
         Regenerate(r) \/ Enqueue(r) \/ Drive(r) \/ Answer(r)
  PROVE  DInv'
<1>1. UNCHANGED <<usage, content, gen>>
  BY DEF Regenerate, Enqueue, Drive, Answer, account, environment
<1>2. CASE Regenerate(r)
  <2>1. /\ draft[r] # NoDraft
        /\ draft' = [draft EXCEPT ![r].status = "superseded"]
        /\ asked' = asked \cup {r}
        /\ UNCHANGED <<review, genQ>>
    BY <1>2 DEF Regenerate
  <2>2. /\ DraftsKept /\ draft'[r] # NoDraft /\ draft'[r].status = "superseded"
        /\ \A q \in Reviews \ {r} : draft'[q] = draft[q]
    BY <2>1, Restated
  <2>3. AskedKept /\ AwaitKept
    BY <1>1, <2>1, <2>2 DEF AskedKept, AwaitKept
  <2> QED
    BY <1>1, <2>2, <2>3, Undisturbed
<1>3. CASE Enqueue(r) \/ Drive(r)
  <2>1. /\ UNCHANGED <<draft, review>>
        /\ r \in asked \/ review[r] = "processing"
        /\ asked' \subseteq asked
        /\ \A m \in genQ' : m \in genQ \/ m = <<r, 0>>
    BY <1>3 DEF Enqueue, Drive
  <2>2. AskedKept
    BY <1>1, <2>1 DEF AskedKept
  <2>3. DraftsKept /\ AwaitKept
    BY <2>1 DEF DraftsKept, AwaitKept
  <2> QED
    BY <1>1, <2>2, <2>3, Undisturbed
<1>4. CASE Answer(r)
  <2>1. /\ draft[r] # NoDraft
        /\ draft' = [draft EXCEPT ![r].status = "published"]
        /\ review' = [review EXCEPT ![r] = "completed"]
        /\ UNCHANGED <<asked, genQ>>
    BY <1>4 DEF Answer
  <2>2. DraftsKept /\ \A q \in Reviews \ {r} : draft'[q] = draft[q]
    BY <2>1, Restated
  <2>3. /\ review'[r] = "completed"
        /\ \A q \in Reviews \ {r} : review'[q] = review[q]
    BY <2>1 DEF TypeOK
  <2>4. AskedKept /\ AwaitKept
    BY <1>1, <2>1, <2>2, <2>3 DEF AskedKept, AwaitKept
  <2> QED
    BY <1>1, <2>2, <2>4, Undisturbed
<1> QED
  BY <1>2, <1>3, <1>4

LEMMA SurroundingDrafts ==
  ASSUME TypeOK, DInv, PatchSettings \/ ChangeTier \/ NewMonth \/ UNCHANGED vars
  PROVE  DInv'
<1>1. UNCHANGED <<usage, content, review, draft, genQ, asked, gen>>
  BY DEF PatchSettings, ChangeTier, NewMonth, account, environment, vars
<1>2. DraftsKept /\ AskedKept /\ AwaitKept
  BY <1>1 DEF DraftsKept, AskedKept, AwaitKept
<1> QED
  BY <1>1, <1>2, Undisturbed

LEMMA InitDrafts == Init => DInv
<1> SUFFICES ASSUME Init PROVE DInv
  OBVIOUS
<1>1. /\ \A r \in Reviews : review[r] = "detected" /\ draft[r] = NoDraft
      /\ genQ = {} /\ asked = {}
      /\ \A w \in GenWorkers : gen[w] = Rest
      /\ \A m \in Months : usage[m] = 0
  BY DEF Init
<1>2. GoodOrDrafted
  BY <1>1 DEF GoodOrDrafted, MayBeGenerated
<1>3. CountIsStoredCalls
  BY <1>1, FS_EmptySet DEF CountIsStoredCalls
<1> QED
  BY <1>1, <1>2, <1>3 DEF DInv, LowRatingStaysHuman, AwaitingIsUnanswered

LEMMA DraftsInvariant == Spec => []DInv
<1>1. Init => DInv
  BY InitDrafts
<1>2. IInv /\ DInv /\ [Next]_vars => DInv'
  <2> SUFFICES ASSUME IInv, DInv, [Next]_vars PROVE DInv'
    OBVIOUS
  <2>1. TypeOK
    BY DEF IInv
  <2>2. ASSUME NEW w \in GenWorkers, GenStep(w) \/ GenCrash(w) \/ \E r \in Reviews : GenTake(w, r)
        PROVE  DInv'
    BY <2>1, <2>2, GenerationDrafts, CommitDrafts DEF GenStep
  <2> QED
    BY <2>1, <2>2, FilterDrafts, RequestDrafts, SurroundingDrafts DEF Next
<1> QED
  BY <1>1, <1>2, Invariant, PTL DEF Spec

\* The model drafts no reply to a review without a text or of three stars or
\* fewer, however settings, retries, regenerations and crashes fall.
THEOREM LowRatingsStayHuman == Spec => []LowRatingStaysHuman
  BY DraftsInvariant, PTL DEF DInv

\* A review that has been answered does not await an answer again, whatever tasks run
\* again on it: one that does has a response that was not published.
THEOREM AwaitingUnanswered == Spec => []AwaitingIsUnanswered
  BY DraftsInvariant, PTL DEF DInv

\* The count of a month is that of the calls of the model whose result is stored, the
\* refused ones included: rollbacks, retries and redelivered messages charge nothing,
\* for any number of workers.
THEOREM CountsAreStoredCalls == Spec => []CountIsStoredCalls
  BY DraftsInvariant, PTL DEF DInv

-----------------------------------------------------------------------------
(* No review is lost before it is filtered.                                *)

Queued(r) == \E t \in 0 .. FilterRetries : <<r, t>> \in filterQ

InHand(r) == \E w \in FilterWorkers : flt[w] # Rest /\ flt[w].r = r

\* A review nobody has filtered still has its message, in the queue or with a
\* worker, or is among the dead letters.
NoReviewIsLost ==
  \A r \in Reviews : review[r] = "detected" => r \in dead \/ Queued(r) \/ InHand(r)

\* Filtering and generation give a review another status than `detected', and
\* nothing gives that one back.
LEMMA DetectedKept ==
  ASSUME TypeOK, [Next]_vars, NEW r \in Reviews, review'[r] = "detected"
  PROVE  review[r] = "detected"
<1>1. ASSUME NEW w \in FilterWorkers, FilterCommit(w) PROVE review[r] = "detected"
  BY <1>1 DEF FilterCommit, Decide, TypeOK
<1>2. ASSUME NEW w \in FilterWorkers,
             (\E q \in Reviews : FilterTake(w, q)) \/ FilterFail(w) \/ FilterCrash(w)
      PROVE  review[r] = "detected"
  BY <1>2 DEF FilterTake, FilterFail, FilterCrash
<1>3. ASSUME NEW w \in GenWorkers, GenExhausted(w) \/ GenCommit(w)
      PROVE  review[r] = "detected"
  BY <1>3 DEF GenExhausted, GenCommit, StoreDraft, Column, TypeOK
<1>4. ASSUME NEW w \in GenWorkers,
             \/ \E q \in Reviews : GenTake(w, q)
             \/ GenCheck(w) \/ GenIncrement(w) \/ GenFail(w) \/ GenCrash(w)
      PROVE  review[r] = "detected"
  BY <1>4 DEF GenTake, GenCheck, GenIncrement, GenFail, GenCrash
<1>5. ASSUME NEW q \in Reviews, Regenerate(q) \/ Enqueue(q) \/ Drive(q) \/ Answer(q)
      PROVE  review[r] = "detected"
  BY <1>5 DEF Regenerate, Enqueue, Drive, Answer, TypeOK
<1>6. ASSUME PatchSettings \/ ChangeTier \/ NewMonth \/ UNCHANGED vars
      PROVE  review[r] = "detected"
  BY <1>6 DEF PatchSettings, ChangeTier, NewMonth, vars
<1> QED
  BY <1>1, <1>2, <1>3, <1>4, <1>5, <1>6 DEF Next, FilterStep, GenStep

\* What a step other than that of a filter worker leaves alone.
LEMMA FilteringKept ==
  ASSUME [Next]_vars,
         ~ \E w \in FilterWorkers :
             (\E r \in Reviews : FilterTake(w, r)) \/ FilterStep(w) \/ FilterCrash(w)
  PROVE  UNCHANGED <<dead, filterQ, flt>>
<1>1. ASSUME NEW w \in GenWorkers,
             (\E r \in Reviews : GenTake(w, r)) \/ GenStep(w) \/ GenCrash(w)
      PROVE  UNCHANGED <<dead, filterQ, flt>>
  BY <1>1 DEF GenTake, GenStep, GenCheck, GenExhausted, GenIncrement, GenCommit, GenFail,
              GenCrash
<1>2. ASSUME NEW r \in Reviews, Regenerate(r) \/ Enqueue(r) \/ Drive(r) \/ Answer(r)
      PROVE  UNCHANGED <<dead, filterQ, flt>>
  BY <1>2 DEF Regenerate, Enqueue, Drive, Answer
<1>3. ASSUME PatchSettings \/ ChangeTier \/ NewMonth \/ UNCHANGED vars
      PROVE  UNCHANGED <<dead, filterQ, flt>>
  BY <1>3 DEF PatchSettings, ChangeTier, NewMonth, vars
<1> QED
  BY <1>1, <1>2, <1>3 DEF Next

\* A worker that takes a message holds it.
LEMMA TakeKeeps ==
  ASSUME TypeOK, NEW w \in FilterWorkers, NEW q \in Reviews, FilterTake(w, q),
         NEW r \in Reviews, r \in dead \/ Queued(r) \/ InHand(r)
  PROVE  r \in dead' \/ Queued(r)' \/ InHand(r)'
<1>1. PICK u \in 0 .. FilterRetries :
        /\ filterQ' = filterQ \ {<<q, u>>}
        /\ flt' = [flt EXCEPT ![w] = [pc |-> "loaded", r |-> q, tries |-> u,
                                      settings |-> settings]]
  BY DEF FilterTake
<1>2. flt[w] = Rest /\ dead' = dead
  BY DEF FilterTake
<1>3. flt'[w] # Rest /\ flt'[w].r = q
  BY <1>1 DEF TypeOK, Rest
<1>4. CASE r = q
  BY <1>3, <1>4 DEF InHand
<1>5. CASE Queued(r) /\ r # q
  BY <1>1, <1>5 DEF Queued
<1>6. CASE InHand(r)
  BY <1>1, <1>2, <1>6 DEF InHand, TypeOK
<1> QED
  BY <1>2, <1>4, <1>5, <1>6

\* A worker that fails or is lost gives its message back, or to the dead letters.
LEMMA ReturnKeeps ==
  ASSUME TypeOK, NEW w \in FilterWorkers, FilterFail(w) \/ FilterCrash(w),
         NEW r \in Reviews, r \in dead \/ Queued(r) \/ InHand(r)
  PROVE  r \in dead' \/ Queued(r)' \/ InHand(r)'
<1>1. flt[w] # Rest /\ flt' = [flt EXCEPT ![w] = Rest]
  BY DEF FilterFail, FilterCrash
<1>2. dead \subseteq dead' /\ filterQ \subseteq filterQ'
  BY DEF FilterFail, FilterCrash
<1>3. flt[w].tries \in 0 .. FilterRetries
  BY <1>1, FltType DEF FilterJob
<1>4. CASE InHand(r) /\ flt[w].r = r
  <2>1. CASE FilterCrash(w)
    BY <1>3, <1>4, <2>1 DEF FilterCrash, Queued
  <2>2. CASE FilterFail(w) /\ flt[w].tries < FilterRetries
    <3>1. flt[w].tries + 1 \in 0 .. FilterRetries
      BY <1>3, <2>2, DraftingAssumption
    <3> QED
      BY <1>4, <2>2, <3>1 DEF FilterFail, Queued
  <2>3. CASE FilterFail(w) /\ ~(flt[w].tries < FilterRetries)
    BY <1>4, <2>3 DEF FilterFail
  <2> QED
    BY <2>1, <2>2, <2>3
<1>5. CASE InHand(r) /\ flt[w].r # r
  BY <1>1, <1>5 DEF InHand, TypeOK
<1>6. CASE r \in dead \/ Queued(r)
  BY <1>2, <1>6 DEF Queued
<1> QED
  BY <1>4, <1>5, <1>6

\* A worker that ends lets go of a review it has decided.
LEMMA CommitKeeps ==
  ASSUME TypeOK, NEW w \in FilterWorkers, FilterCommit(w),
         NEW r \in Reviews, r \in dead \/ Queued(r) \/ InHand(r), review'[r] = "detected"
  PROVE  r \in dead' \/ Queued(r)' \/ InHand(r)'
<1>1. flt[w].r # r
  BY DEF FilterCommit, Decide, TypeOK
<1>2. /\ flt' = [flt EXCEPT ![w] = Rest]
      /\ dead' = dead /\ filterQ \subseteq filterQ'
  BY DEF FilterCommit, FilterEnd
<1>3. InHand(r) => InHand(r)'
  BY <1>1, <1>2 DEF InHand, TypeOK
<1>4. Queued(r) => Queued(r)'
  BY <1>2 DEF Queued
<1> QED
  BY <1>2, <1>3, <1>4

LEMMA NextKeeps ==
  ASSUME TypeOK, NoReviewIsLost, [Next]_vars
  PROVE  NoReviewIsLost'
<1> SUFFICES ASSUME NEW r \in Reviews, review'[r] = "detected"
             PROVE  r \in dead' \/ Queued(r)' \/ InHand(r)'
  BY DEF NoReviewIsLost
<1>1. r \in dead \/ Queued(r) \/ InHand(r)
  BY DetectedKept DEF NoReviewIsLost
<1>2. CASE \E w \in FilterWorkers :
             (\E q \in Reviews : FilterTake(w, q)) \/ FilterStep(w) \/ FilterCrash(w)
  BY <1>1, <1>2, TakeKeeps, ReturnKeeps, CommitKeeps DEF FilterStep
<1>3. CASE UNCHANGED <<dead, filterQ, flt>>
  BY <1>1, <1>3 DEF Queued, InHand
<1> QED
  BY <1>2, <1>3, FilteringKept

\* Whatever workers are lost, messages redelivered and tries exhausted, a stored
\* review is filtered, on its way to be, or a dead letter: what DetectedIsFiltered
\* needs besides fairness.
THEOREM ReviewsAreNotLost == Spec => []NoReviewIsLost
<1>1. Init => NoReviewIsLost
  <2> SUFFICES ASSUME Init, NEW r \in Reviews PROVE Queued(r)
    BY DEF NoReviewIsLost
  <2>1. 0 \in 0 .. FilterRetries /\ <<r, 0>> \in filterQ
    BY DraftingAssumption DEF Init
  <2> QED
    BY <2>1 DEF Queued
<1>2. TypeOK /\ NoReviewIsLost /\ [Next]_vars => NoReviewIsLost'
  BY NextKeeps
<1> QED
  BY <1>1, <1>2, TypeCorrect, PTL DEF Spec
=============================================================================
