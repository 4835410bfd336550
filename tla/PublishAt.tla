----------------------------- MODULE PublishAt -----------------------------
(***************************************************************************)
(* backend/app/utils/time.py: the instant at which an approved reply is    *)
(* published.  Instants are seconds of UTC, times of day seconds since     *)
(* midnight in the client's zone.  A zone has one offset change: `before'  *)
(* applies up to the instant `at', `after' from it on.                     *)
(***************************************************************************)
EXTENDS Integers

CONSTANTS
  Instants,     \* when approvals happen
  Deltas,       \* the delays rng.randint may draw
  Jitters,      \* the jitters it may draw
  Windows,      \* the windows of the clients' settings
  Zones         \* their time zones

VARIABLES
  input,        \* what the approval knows
  due           \* the instant it was given: at most one

Minute == 60
Hour == 3600
Day == 86400

\* _DELAY_RANGES, as <<low, high>>.
DelayRanges == {<<Hour, 2 * Hour>>, <<2 * Hour, 5 * Hour>>, <<5 * Hour, Day>>,
                <<Day, 2 * Day>>, <<2 * Day, 5 * Day>>}

\* The table's CHECK wants window_end after window_start.
ASSUME InputsAssumption ==
  /\ Instants \subseteq Int /\ Deltas \subseteq Nat /\ Jitters \subseteq 0 .. Hour
  /\ Windows \subseteq {w \in [start: 0 .. Day - 1, end: 0 .. Day - 1] : w.start < w.end}
  /\ Zones \subseteq [before: Int, after: Int, at: Int]

\* astimezone(tz): the wall clock at an instant, counted from a midnight.
Wall(zone, u) == u + (IF u < zone.at THEN zone.before ELSE zone.after)

TimeOfDay(l) == l % Day
Midnight(l) == l - TimeOfDay(l)

\* astimezone(UTC) of a wall clock that was put together (fold = 0): the earlier
\* of two instants, and in a gap the one the earlier offset gives.
Instant(zone, l) ==
  IF l - zone.before >= zone.at /\ l - zone.after >= zone.at
  THEN l - zone.after
  ELSE l - zone.before

Inside(w, l) == w.start <= TimeOfDay(l) /\ TimeOfDay(l) <= w.end

\* Bug: a candidate after the window goes back to the start of the same day.
TargetSameDay(w, l) == Midnight(l) + w.start

\* Bug: a candidate before the window goes to the next day all the same.
TargetTomorrow(w, l) == Midnight(l) + Day + w.start

\* The start of the window that comes next, as a wall clock.
Target(w, l) ==
  IF TimeOfDay(l) < w.start THEN Midnight(l) + w.start ELSE Midnight(l) + Day + w.start

\* Bug: the wall clock is taken for UTC.
ComputePublishAtNaive(now, delta, jitter, w, zone) ==
  LET l == Wall(zone, now + delta)
  IN  IF Inside(w, l) THEN now + delta ELSE Target(w, l) + jitter

\* compute_publish_at, with the two random draws as parameters: `delta' in the
\* delay range, `jitter' in 0 .. 3600.
ComputePublishAt(now, delta, jitter, w, zone) ==
  LET l == Wall(zone, now + delta)
  IN  IF Inside(w, l) THEN now + delta ELSE Instant(zone, Target(w, l) + jitter)

\* An approval is about to ask for its instant.
Asked == [now: Instants, range: DelayRanges, window: Windows, zone: Zones]

Init == input \in Asked /\ due = {}

Schedule ==
  /\ due = {}
  /\ \E delta \in Deltas, jitter \in Jitters :
       /\ input.range[1] <= delta /\ delta <= input.range[2]
       /\ due' = {ComputePublishAt(input.now, delta, jitter, input.window, input.zone)}
  /\ UNCHANGED input

Spec == Init /\ [][Schedule]_<<input, due>>

-----------------------------------------------------------------------------
(* Properties.                                                             *)

\* How far the clocks go back at the change, 0 when they do not.
FallBack(zone) == IF zone.before > zone.after THEN zone.before - zone.after ELSE 0

\* A reply is never due before the least delay of its range, however the window
\* moves it, except by what the clocks go back in the night they change: the
\* start of the window is then the first of two such times of day.
DelayRespected ==
  \A d \in due : d >= input.now + input.range[1] - FallBack(input.zone)

\* In a window of an hour or more the due instant lies in the window on the
\* client's clock.  The jitter is added to the wall clock, so this holds in the
\* night the clocks go back; a start in the hour they skip escapes it.
DueInWindow ==
  input.window.end - input.window.start >= Hour /\ input.zone.before >= input.zone.after
    => \A d \in due : Inside(input.window, Wall(input.zone, d))

\* A reply waits for one stretch outside the window at most: once its delay is
\* over it is due within a day and the jitter.
NoLongWait ==
  \A d \in due :
    d <= input.now + input.range[2] + Day + Hour + FallBack(input.zone)
=============================================================================
