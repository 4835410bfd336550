------------------------------ MODULE MCAccounts ------------------------------
(* An instance of Accounts for TLC. *)
EXTENDS Accounts, TLC

CONSTANTS a1, a2, a3

\* Two signups with one address, two with one name of business.
Addresses == a1 :> "x" @@ a2 :> "x" @@ a3 :> "y"
Names == a1 :> "m" @@ a2 :> "n" @@ a3 :> "m"
=============================================================================
