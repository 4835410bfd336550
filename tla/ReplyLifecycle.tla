--------------------------- MODULE ReplyLifecycle ---------------------------
(***************************************************************************)
(* What publication promises, one reply at a time: the state machine of    *)
(* docs/01-database.md (responses.status) with the undo window of          *)
(* docs/04-flows.md, seen together with what Google shows.  There are no   *)
(* requests, messages, workers or tokens here: a reply is approved, can be *)
(* cancelled while its hold lasts, is sent once after it, and can be       *)
(* removed by the team once it is published.                               *)
(***************************************************************************)
EXTENDS Integers

CONSTANTS Replies, Contents, Nothing,
          Hold,     \* how long a reply is held after its approval
          Slack,    \* how late a decision taken in time may be recorded
          Horizon   \* bound: the clock

VARIABLES clock, phase, until, shown

lifecycle == <<clock, phase, until, shown>>

Phases == {"open", "held", "cancelled", "sending", "published", "failed"}

Start ==
  /\ clock = 0
  /\ phase = [r \in Replies |-> "open"]
  /\ until = [r \in Replies |-> -1]
  /\ shown = [r \in Replies |-> Nothing]

Move(r, from, to) == phase[r] = from /\ phase' = [phase EXCEPT ![r] = to]

Approve(r) ==
  /\ Move(r, "open", "held")
  /\ \E late \in 0 .. Slack : until' = [until EXCEPT ![r] = clock - late + Hold]
  /\ UNCHANGED <<clock, shown>>

Cancel(r) ==
  /\ clock < until[r] + Slack
  /\ Move(r, "held", "cancelled")
  /\ UNCHANGED <<clock, until, shown>>

Send(r) ==
  /\ until[r] <= clock
  /\ Move(r, "held", "sending")
  /\ UNCHANGED <<clock, until, shown>>

\* Google shows the reply: once per reply, and only while it is being sent.
Show(r) ==
  /\ phase[r] = "sending" /\ shown[r] = Nothing
  /\ \E t \in Contents : shown' = [shown EXCEPT ![r] = t]
  /\ UNCHANGED <<clock, phase, until>>

Confirm(r) ==
  /\ shown[r] # Nothing
  /\ Move(r, "sending", "published")
  /\ UNCHANGED <<clock, until, shown>>

\* Google did not take the reply for want of authorisation: held again.
Return(r) ==
  /\ shown[r] = Nothing
  /\ Move(r, "sending", "held")
  /\ UNCHANGED <<clock, until, shown>>

GiveUp(r) ==
  /\ Move(r, "sending", "failed")
  /\ UNCHANGED <<clock, until, shown>>

Remove(r) ==
  /\ phase[r] = "published"
  /\ shown' = [shown EXCEPT ![r] = Nothing]
  /\ UNCHANGED <<clock, phase, until>>

Pass == clock < Horizon /\ clock' = clock + 1 /\ UNCHANGED <<phase, until, shown>>

Step ==
  \/ \E r \in Replies :
       \/ Approve(r) \/ Cancel(r) \/ Send(r) \/ Show(r) \/ Confirm(r)
       \/ Return(r) \/ GiveUp(r) \/ Remove(r)
  \/ Pass

Lifecycle == Start /\ [][Step]_lifecycle
=============================================================================
