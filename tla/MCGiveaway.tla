----------------------------- MODULE MCGiveaway -----------------------------
(* Model-checking instance of Giveaway: ids are interchangeable.           *)
EXTENDS Giveaway, TLC

Symmetry ==
  Permutations(Prompts) \cup Permutations(Raffles) \cup Permutations(Messages)
    \cup Permutations(Members) \cup Permutations(Handlers)

=============================================================================
