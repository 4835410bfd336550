----------------------- MODULE PublicationRefinement -----------------------
(***************************************************************************)
(* One caller at a time and one worker, crashes and lost authorisations    *)
(* included: publication implements the lifecycle its documents draw.      *)
(***************************************************************************)
EXTENDS MCPublication

\* The documents' names: a response waiting for validation is open, a scheduled
\* one is held.
PhaseOf(status) ==
  CASE status = "pending" -> "open"
    [] status = "scheduled" -> "held"
    [] status = "publishing" -> "sending"
    [] OTHER -> status

Doc == INSTANCE ReplyLifecycle WITH
  Replies <- Responses, Contents <- Texts, Nothing <- NoReply,
  Hold <- Grace, Slack <- Latency, Horizon <- MaxTime,
  clock <- now, shown <- google,
  phase <- [r \in Responses |-> PhaseOf(resp[r].status)],
  until <- [r \in Responses |-> resp[r].undo]

\* Every step of the rows and of Google is a step of the documented lifecycle:
\* nothing is cancelled after its window, sent before it or shown twice, and the
\* outcome recorded is the outcome at Google.
LifecycleHolds == Doc!Lifecycle
=============================================================================
