---------------------------- MODULE MCRunEffects ----------------------------
(* Instances of RunEffects for TLC: the runs of one kind are interchangeable. *)
EXTENDS RunEffects, TLC

Symmetry == Permutations(Builds) \cup Permutations(Agents)
                \cup Permutations(Tasks) \cup Permutations(Intents)

=============================================================================
