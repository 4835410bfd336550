------------------------------- MODULE MCIntake -------------------------------
(* Instances of Intake for TLC. *)
EXTENDS Intake, TLC

CONSTANTS c1, c2, l1, l2, r1, r2

\* One client with two locations and a review at each.
OneManages == [c \in Clients |-> Locations]
EachItsOwn == r1 :> l1 @@ r2 :> l2

\* Two clients with a location each and no review.
TwoManage == c1 :> {l1} @@ c2 :> {l2}
Nowhere == [r \in {} |-> l1]
=============================================================================
