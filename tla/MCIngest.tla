------------------------------ MODULE MCIngest ------------------------------
(* Model-checking instance of Ingest: updates of two bots that one process   *)
(* serves, of which one id is both a bot's and the other's.                  *)
EXTENDS Ingest, TLC

CONSTANTS Shared, OtherIds

TwoBots ==
  [skin : {"cookiebot"}, id : OtherIds \cup {Shared}] \cup [skin : {"pawsy"}, id : {Shared}]

Symmetry == Permutations(Replicas) \cup Permutations(Slots) \cup Permutations(OtherIds)

=============================================================================
