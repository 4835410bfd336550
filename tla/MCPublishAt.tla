---------------------------- MODULE MCPublishAt ----------------------------
(***************************************************************************)
(* PublishAt for TLC: approvals every Grain seconds of the two days around *)
(* an offset change, and the ends and middles of the ranges drawn from.    *)
(***************************************************************************)
EXTENDS PublishAt

CONSTANT Grain

SomeInstants == {k * Grain : k \in 0 .. (2 * Day) \div Grain}
SomeDeltas == {Hour, 90 * Minute, 2 * Hour, 3 * Hour, 5 * Hour, 15 * Hour, Day, 2 * Day,
               3 * Day, 5 * Day}
SomeJitters == {0, 30 * Minute, Hour}

SomeWindows == {[start |-> s, end |-> e] :
                  s \in {0, 2 * Hour + 45 * Minute, 9 * Hour},
                  e \in {9 * Hour + 30 * Minute, 10 * Hour + 30 * Minute, 20 * Hour, Day - 1}}

\* A change at 01:00 UTC of the second day: forward, backward, or none.
SomeZones == {[before |-> b, after |-> a, at |-> Day + Hour] :
                b \in {Hour, 2 * Hour}, a \in {Hour, 2 * Hour}}
=============================================================================
