--------------------------- MODULE MCPublication ---------------------------
(* Instances of Publication for TLC. *)
EXTENDS Publication, TLC

\* Every response belongs to one client.
OneClient == [r \in Responses |-> CHOOSE c \in Clients : TRUE]

\* As many clients as responses, each with its own.
OwnClient == CHOOSE f \in [Responses -> Clients] :
               \A r, s \in Responses : r # s => f[r] # f[s]

\* Callers, workers and texts are interchangeable.
Symmetry == Permutations(Callers) \cup Permutations(Workers) \cup Permutations(Texts)
=============================================================================
