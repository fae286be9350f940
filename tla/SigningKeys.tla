---------------------------- MODULE SigningKeys ----------------------------
(***************************************************************************)
(* The RSA key that access tokens are signed with, when it is not given by *)
(* configuration: cb_api/keys.py over the table signing_keys.              *)
(*                                                                         *)
(* Every API process resolves the key of its configured kid on the first   *)
(* request, one statement at a time, and caches it for life.  Several may  *)
(* start cold at once; a rolling restart may change the kid; an operator   *)
(* deletes the row of a kid no process is configured with any more.        *)
(***************************************************************************)
EXTENDS FiniteSets

CONSTANTS
  Processes,   \* cb-api processes
  Kids,        \* values of CB_WEBHUB_JWT_KID
  Pems,        \* private keys that can be generated
  NoPem        \* no key

ASSUME NoPemIsNone == NoPem \notin Pems

VARIABLES
  row,      \* row[k]: the private_pem stored under kid k, NoPem without a row
  made,     \* keys generated so far
  kid,      \* the kid each process is configured with
  pc,       \* where each process is in signing_key()
  cached,   \* _cached of each process
  signed    \* ghost: (kid, key) pairs some token in circulation is signed with

vars == <<row, made, kid, pc, cached, signed>>

-----------------------------------------------------------------------------
Pair == [kid : Kids, pem : Pems]

TypeOK ==
  /\ row \in [Kids -> Pems \cup {NoPem}]
  /\ made \subseteq Pems
  /\ kid \in [Processes -> Kids]
  /\ pc \in [Processes -> {"cold", "write", "reread", "warm"}]
  /\ cached \in [Processes -> Pems \cup {NoPem}]
  /\ signed \subseteq Pair

Init ==
  /\ row = [k \in Kids |-> NoPem]
  /\ made = {}
  /\ kid \in [Processes -> Kids]
  /\ pc = [p \in Processes |-> "cold"]
  /\ cached = [p \in Processes |-> NoPem]
  /\ signed = {}

\* published_keys, as a token is verified with it: every row of the table.
Published(k, x) == row[k] = x

(* The first read: a row settles it, otherwise a key is generated.         *)
Read(p) ==
  /\ pc[p] = "cold"
  /\ cached' = [cached EXCEPT ![p] = row[kid[p]]]
  /\ pc' = [pc EXCEPT ![p] = IF row[kid[p]] = NoPem THEN "write" ELSE "warm"]
  /\ UNCHANGED <<row, made, kid, signed>>

(* An INSERT whose conflict clause is DO UPDATE.                           *)
Stored_Overwrites(k, x) == x

(* What the row holds after INSERT ... ON CONFLICT (kid) DO NOTHING.       *)
Stored(k, x) == IF row[k] = NoPem THEN x ELSE row[k]

Write(p, x) ==
  /\ pc[p] = "write"
  /\ x \notin made
  /\ made' = made \cup {x}
  /\ row' = [row EXCEPT ![kid[p]] = Stored(kid[p], x)]
  /\ pc' = [pc EXCEPT ![p] = "reread"]
  /\ UNCHANGED <<kid, cached, signed>>

(* A process that keeps the key it generated when its INSERT lost.         *)
Reread_TrustsOwn(p) ==
  /\ pc[p] = "reread"
  /\ \E x \in made : cached' = [cached EXCEPT ![p] = x]
  /\ pc' = [pc EXCEPT ![p] = "warm"]
  /\ UNCHANGED <<row, made, kid, signed>>

(* The read back; a row that is gone again is a RuntimeError.              *)
Reread(p) ==
  /\ pc[p] = "reread"
  /\ cached' = [cached EXCEPT ![p] = row[kid[p]]]
  /\ pc' = [pc EXCEPT ![p] = IF row[kid[p]] = NoPem THEN "cold" ELSE "warm"]
  /\ UNCHANGED <<row, made, kid, signed>>

(* A statement raises: that request fails, the next one starts again.      *)
Fail(p) ==
  /\ pc[p] \in {"write", "reread"}
  /\ pc' = [pc EXCEPT ![p] = "cold"]
  /\ UNCHANGED <<row, made, kid, cached, signed>>

(* A signing_key() that returns before the read back.                      *)
Sign_Early(p) ==
  /\ pc[p] # "cold"
  /\ signed' = signed \cup {[kid |-> kid[p], pem |-> cached[p]]}
  /\ UNCHANGED <<row, made, kid, pc, cached>>

(* A token is minted with the cached key.                                  *)
Sign(p) ==
  /\ pc[p] = "warm"
  /\ signed' = signed \cup {[kid |-> kid[p], pem |-> cached[p]]}
  /\ UNCHANGED <<row, made, kid, pc, cached>>

(* The process goes down and comes back, perhaps with the next kid.        *)
Restart(p, k) ==
  /\ kid' = [kid EXCEPT ![p] = k]
  /\ pc' = [pc EXCEPT ![p] = "cold"]
  /\ cached' = [cached EXCEPT ![p] = NoPem]
  /\ UNCHANGED <<row, made, signed>>

(* The operator ends a rotation: the outgoing key's row is deleted, and    *)
(* its tokens with it.                                                     *)
Retire(k) ==
  /\ \A p \in Processes : kid[p] # k
  /\ row[k] # NoPem
  /\ row' = [row EXCEPT ![k] = NoPem]
  /\ signed' = {t \in signed : t.kid # k}
  /\ UNCHANGED <<made, kid, pc, cached>>

Next ==
  \/ \E p \in Processes : Read(p) \/ Reread(p) \/ Fail(p) \/ Sign(p)
  \/ \E p \in Processes, x \in Pems : Write(p, x)
  \/ \E p \in Processes, k \in Kids : Restart(p, k)
  \/ \E k \in Kids : Retire(k)

Spec == Init /\ [][Next]_vars

-----------------------------------------------------------------------------
(* "the loser must adopt the winner's key rather than keep the one it      *)
(* made, or it signs tokens the published JWKS cannot verify"              *)
(* (cb_api/keys.py:9-13): every token in circulation verifies against the  *)
(* published keys, whichever process signed it, across cold starts and an  *)
(* overlapping rotation.                                                   *)
TokensVerify == \A t \in signed : Published(t.kid, t.pem)

(* No two processes ever sign with different keys under one kid.           *)
OneKeyPerKid ==
  \A p, q \in Processes :
    pc[p] = "warm" /\ pc[q] = "warm" /\ kid[p] = kid[q] => cached[p] = cached[q]

(* A published key is never replaced under its kid: it stays, or the kid   *)
(* is retired as a whole.                                                  *)
KeyNeverReplaced ==
  [][\A k \in Kids : row[k] # NoPem => row'[k] \in {row[k], NoPem}]_vars

=============================================================================
