--------------------------- MODULE MCCartRecovery ---------------------------
(* Instances of CartRecovery for TLC: all sessions belong to one user.     *)
EXTENDS CartRecovery, TLC

MCUserOf == [s \in Sessions |-> CHOOSE u \in Users : TRUE]

MCSymmetry == Permutations(Sessions) \union Permutations(Runners)

=============================================================================
