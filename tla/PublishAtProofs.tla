-------------------------- MODULE PublishAtProofs --------------------------
(***************************************************************************)
(* The three properties of compute_publish_at, for every set of instants,  *)
(* delays, windows and zones.  The argument is about one candidate:        *)
(*   c       the instant now + delta,                                      *)
(*   l       what the client's clock shows at c,                           *)
(*   t       the wall clock aimed at, when l is outside the window.        *)
(* t lies after l and at most a day and the jitter later; the zone's       *)
(* offsets before and after its change then bound the instant of t.        *)
(***************************************************************************)
EXTENDS PublishAt, TLAPS

Zone == [before: Int, after: Int, at: Int]
Window == {w \in [start: 0 .. Day - 1, end: 0 .. Day - 1] : w.start < w.end}

\* Nothing else is used of the two units.
LEMMA Units == Day \in Nat \ {0} /\ Hour \in Nat /\ Hour < Day
  BY SMT DEF Day, Hour

\* The time of day of a wall clock, and what is left without it.
LEMMA TimeOfDayType ==
  ASSUME NEW l \in Int
  PROVE  /\ TimeOfDay(l) \in 0 .. Day - 1
         /\ l \div Day \in Int
         /\ Midnight(l) = Day * (l \div Day)
         /\ Midnight(l) \in Int
         /\ l = Midnight(l) + TimeOfDay(l)
  BY Units, SMT DEF TimeOfDay, Midnight

\* The clock shows s at s seconds after a midnight.
LEMMA TimeAfterMidnight ==
  ASSUME NEW k \in Int, NEW s \in 0 .. Day - 1
  PROVE  TimeOfDay(Day * k + s) = s
  BY Units, SMT DEF TimeOfDay

\* The start of the next window lies after the clock, within a day of it.
LEMMA TargetIsNext ==
  ASSUME NEW w \in Window, NEW l \in Int, ~Inside(w, l)
  PROVE  /\ Target(w, l) \in Int
         /\ l < Target(w, l)
         /\ Target(w, l) <= l + Day
<1>1. w.start \in 0 .. Day - 1 /\ w.end \in 0 .. Day - 1 /\ w.start < w.end
  BY DEF Window
<1>2. TimeOfDay(l) \in 0 .. Day - 1 /\ Midnight(l) \in Int /\ l = Midnight(l) + TimeOfDay(l)
  BY TimeOfDayType
<1>3. CASE TimeOfDay(l) < w.start
  BY <1>1, <1>2, <1>3, Units, SMT DEF Target
<1>4. CASE ~(TimeOfDay(l) < w.start)
  <2>1. w.end < TimeOfDay(l)
    BY <1>1, <1>2, <1>4, Units, SMT DEF Inside
  <2> QED BY <1>1, <1>2, <1>4, <2>1, Units, SMT DEF Target
<1> QED BY <1>3, <1>4

\* A wall clock later than the one shown at c is an instant later than c, but
\* for what the clocks go back, and no later than it is by the clock, but for
\* the same.
LEMMA InstantIsLater ==
  ASSUME NEW zone \in Zone, NEW c \in Int, NEW t \in Int, NEW most \in Nat,
         Wall(zone, c) < t, t <= Wall(zone, c) + most
  PROVE  /\ Instant(zone, t) \in Int
         /\ c - FallBack(zone) <= Instant(zone, t)
         /\ Instant(zone, t) <= c + most + FallBack(zone)
<1>1. zone.before \in Int /\ zone.after \in Int /\ zone.at \in Int
  BY DEF Zone
<1>2. CASE c < zone.at
  BY <1>1, <1>2 DEF Wall, Instant, FallBack
<1>3. CASE ~(c < zone.at)
  BY <1>1, <1>3 DEF Wall, Instant, FallBack
<1> QED BY <1>2, <1>3

\* What an approval is given, between its least and its greatest delay.
LEMMA Bounds ==
  ASSUME NEW now \in Int, NEW delta \in Nat, NEW jitter \in 0 .. Hour,
         NEW w \in Window, NEW zone \in Zone
  PROVE  LET d == ComputePublishAt(now, delta, jitter, w, zone)
         IN  /\ d \in Int
             /\ now + delta - FallBack(zone) <= d
             /\ d <= now + delta + Day + Hour + FallBack(zone)
<1> DEFINE c == now + delta
           l == Wall(zone, c)
           t == Target(w, l) + jitter
<1>1. c \in Int /\ zone.before \in Int /\ zone.after \in Int /\ zone.at \in Int
  BY DEF Zone
<1>2. l \in Int
  BY <1>1 DEF Wall
<1>3. FallBack(zone) \in Nat
  BY <1>1 DEF FallBack
<1>4. Day \in Nat /\ Hour \in Nat
  BY Units
<1>5. CASE Inside(w, l)
  <2>1. ComputePublishAt(now, delta, jitter, w, zone) = c
    BY <1>5 DEF ComputePublishAt
  <2> QED BY <1>1, <1>3, <1>4, <2>1
<1>6. CASE ~Inside(w, l)
  <2>1. ComputePublishAt(now, delta, jitter, w, zone) = Instant(zone, t)
    BY <1>6 DEF ComputePublishAt
  <2> HIDE DEF c, l
  <2>2. Target(w, l) \in Int /\ l < Target(w, l) /\ Target(w, l) <= l + Day
    BY <1>2, <1>6, TargetIsNext
  <2>3. t \in Int /\ l < t /\ t <= l + (Day + Hour)
    BY <1>2, <1>4, <2>2
  <2>4. Day + Hour \in Nat
    BY <1>4
  <2> HIDE DEF t
  <2>5. /\ Instant(zone, t) \in Int
        /\ c - FallBack(zone) <= Instant(zone, t)
        /\ Instant(zone, t) <= c + (Day + Hour) + FallBack(zone)
    BY <1>1, <2>3, <2>4, InstantIsLater DEF l
  <2> USE DEF c
  <2> QED BY <1>1, <1>3, <1>4, <2>1, <2>5
<1> QED BY <1>5, <1>6

\* The jitter keeps the target inside a window of an hour or more.
LEMMA TargetInside ==
  ASSUME NEW w \in Window, NEW l \in Int, NEW jitter \in 0 .. Hour,
         w.end - w.start >= Hour
  PROVE  Inside(w, Target(w, l) + jitter)
<1> DEFINE s == w.start
           q == l \div Day
<1>1. s \in 0 .. Day - 1 /\ w.end \in 0 .. Day - 1
  BY DEF Window
<1>2. s + jitter \in 0 .. Day - 1 /\ s + jitter <= w.end /\ s <= s + jitter
  BY <1>1, Units, SMT
<1>3. q \in Int /\ Midnight(l) = Day * q
  BY TimeOfDayType
<1> HIDE DEF s, q
<1>4. Day * q \in Int /\ Day * q + Day = Day * (q + 1) /\ q + 1 \in Int
  BY <1>3, Units, SMT
<1>5. \E k \in Int : Target(w, l) = Day * k + s
  BY <1>3, <1>4 DEF Target, s
<1>6. PICK k \in Int : Target(w, l) = Day * k + s
  BY <1>5
<1>7. Target(w, l) + jitter = Day * k + (s + jitter)
  BY <1>1, <1>6, Units, SMT
<1>8. TimeOfDay(Target(w, l) + jitter) = s + jitter
  BY <1>2, <1>7, TimeAfterMidnight
<1> QED BY <1>2, <1>8 DEF Inside, s

\* When the clocks do not skip an hour, the client's clock shows the wall clock
\* an instant was computed from.
LEMMA WallOfInstant ==
  ASSUME NEW zone \in Zone, NEW t \in Int, zone.before >= zone.after
  PROVE  Wall(zone, Instant(zone, t)) = t
  BY DEF Zone, Wall, Instant

Properties == DelayRespected /\ DueInWindow /\ NoLongWait

IInv == input \in Asked /\ Properties

LEMMA Starts == Init => IInv
  BY DEF Init, IInv, Properties, DelayRespected, DueInWindow, NoLongWait

\* An approval is given an instant that has the three properties.
LEMMA Steps == IInv /\ [Schedule]_<<input, due>> => IInv'
<1> SUFFICES ASSUME IInv, [Schedule]_<<input, due>> PROVE IInv'
  OBVIOUS
<1>1. CASE UNCHANGED <<input, due>>
  BY <1>1 DEF IInv, Properties, DelayRespected, DueInWindow, NoLongWait
<1>2. CASE Schedule
  <2>1. PICK delta \in Deltas, jitter \in Jitters :
          /\ input.range[1] <= delta /\ delta <= input.range[2]
          /\ due' = {ComputePublishAt(input.now, delta, jitter, input.window, input.zone)}
    BY <1>2 DEF Schedule
  <2>2. input' = input
    BY <1>2 DEF Schedule
  <2> DEFINE d == ComputePublishAt(input.now, delta, jitter, input.window, input.zone)
  <2>3. /\ input.now \in Int /\ input.window \in Window /\ input.zone \in Zone
        /\ input.range \in DelayRanges
        /\ delta \in Nat /\ jitter \in 0 .. Hour
    BY InputsAssumption DEF IInv, Asked, Window, Zone
  <2>4. input.range[1] \in Nat /\ input.range[2] \in Nat
    BY <2>3, Units, SMT DEF DelayRanges
  <2>5. /\ d \in Int
        /\ input.now + delta - FallBack(input.zone) <= d
        /\ d <= input.now + delta + Day + Hour + FallBack(input.zone)
    BY <2>3, Bounds
  <2>6. FallBack(input.zone) \in Int /\ Day \in Int /\ Hour \in Int
    BY <2>3, Units, SMT DEF FallBack, Zone
  <2>7. ASSUME input.window.end - input.window.start >= Hour,
               input.zone.before >= input.zone.after
        PROVE  Inside(input.window, Wall(input.zone, d))
    <3> DEFINE l == Wall(input.zone, input.now + delta)
               t == Target(input.window, l) + jitter
    <3>1. l \in Int
      BY <2>3 DEF Wall, Zone
    <3>2. CASE Inside(input.window, l)
      BY <3>2 DEF ComputePublishAt
    <3>3. CASE ~Inside(input.window, l)
      <4>1. d = Instant(input.zone, t)
        BY <3>3 DEF ComputePublishAt
      <4>2. Target(input.window, l) \in Int
        BY <2>3, <3>1, <3>3, TargetIsNext
      <4>3. t \in Int
        BY <2>3, <4>2, Units, SMT
      <4>4. Wall(input.zone, d) = t
        BY <2>3, <2>7, <4>1, <4>3, WallOfInstant
      <4>5. Inside(input.window, t)
        BY <2>3, <2>7, <3>1, TargetInside
      <4> QED BY <4>4, <4>5
    <3> QED BY <3>2, <3>3
  <2> HIDE DEF d
  <2>8. due' = {d}
    BY <2>1 DEF d
  <2>9. DelayRespected'
    <3>1. d >= input.now + input.range[1] - FallBack(input.zone)
      BY <2>1, <2>3, <2>4, <2>5, <2>6
    <3> QED BY <2>2, <2>8, <3>1 DEF DelayRespected
  <2>10. DueInWindow'
    BY <2>2, <2>7, <2>8 DEF DueInWindow
  <2>11. NoLongWait'
    <3>1. d <= input.now + input.range[2] + Day + Hour + FallBack(input.zone)
      BY <2>1, <2>3, <2>4, <2>5, <2>6
    <3> QED BY <2>2, <2>8, <3>1 DEF NoLongWait
  <2> QED BY <2>2, <2>9, <2>10, <2>11 DEF IInv, Properties
<1> QED BY <1>1, <1>2

LEMMA Always == Spec => []IInv
  BY Starts, Steps, PTL DEF Spec

\* No reply is due before its least delay, but for what the clocks go back.
THEOREM DelayIsRespected == Spec => []DelayRespected
  BY Always, PTL DEF IInv, Properties

\* In a window of an hour or more, and unless the clocks skip an hour, a reply
\* is due inside the window.
THEOREM DueIsInWindow == Spec => []DueInWindow
  BY Always, PTL DEF IInv, Properties

\* A reply waits for one stretch outside the window at most.
THEOREM WaitIsBounded == Spec => []NoLongWait
  BY Always, PTL DEF IInv, Properties
=============================================================================
