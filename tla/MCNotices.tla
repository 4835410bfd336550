------------------------------ MODULE MCNotices ------------------------------
(* An instance of Notices for TLC. *)
EXTENDS Notices, TLC

CONSTANTS c1

\* What a signup gives a client.
ByMail == c1 :> [channel |-> "email", email |-> TRUE, chat |-> FALSE]

OneAsk == {<<c1, "oauth_revoked", 0>>}
=============================================================================
