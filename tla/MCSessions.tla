----------------------------- MODULE MCSessions -----------------------------
(* Model-checking instance of Sessions: interchangeable tokens, families   *)
(* and request slots.                                                      *)
EXTENDS Sessions, TLC

Symmetry ==
  Permutations(Tokens) \cup Permutations(Families) \cup Permutations(Requests)

=============================================================================
