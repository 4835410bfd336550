----------------------------- MODULE MCDrafting -----------------------------
(* Instances of Drafting for TLC. *)
EXTENDS Drafting, TLC

\* A good review that the blocklist matches, one of three stars in a language
\* that is not supported, one without text.
Good == [text |-> TRUE, supported |-> TRUE, flagged |-> TRUE, rating |-> 5]
Fair == [text |-> TRUE, supported |-> FALSE, flagged |-> FALSE, rating |-> 3]
Silent == [text |-> FALSE, supported |-> FALSE, flagged |-> FALSE, rating |-> 4]

AllContents == {Good, Fair, Silent}
GoodOnly == {Good}

\* Settings that answer, and settings that block and leave the silent alone.
Open == [policy |-> "reply_4_5_only", blocking |-> FALSE, override |-> "none"]
Closed == [policy |-> "ignore", blocking |-> TRUE, override |-> "supported"]

TwoSettings == {Open, Closed}
OpenOnly == {Open}

Symmetry == Permutations(GenWorkers) \cup Permutations(Reviews)
=============================================================================
