--------------------------- MODULE ServicesProofs ---------------------------
(***************************************************************************)
(* Proofs about ten components that share no state: SigningKeys, for any   *)
(* number of processes, kids and keys; Breaker, for any calls, threshold   *)
(* and cooldown; Paging, for any ids and page size; EventRecorder, for any *)
(* number of flushes and batch size; Access, for any users, groups, API    *)
(* processes and lifetimes; Members, for any members, handlers, replicas   *)
(* and window; and, as instances: LlmRouter, for any finitely many groups, *)
(* calls at once and days; BirthdayCalendar, for any persons, groups and   *)
(* dates; Statistics, for any groups, users, events and nights; Cooldowns, *)
(* for any limits, rates, windows, callers and times.                      *)
(***************************************************************************)
EXTENDS SigningKeys, Breaker, Paging, EventRecorder, Access, Members, Integers, Sequences,
        FiniteSetTheorems, WellFoundedInduction, SequenceTheorems, TLAPS

-----------------------------------------------------------------------------
(* SigningKeys.                                                            *)
(*                                                                         *)
(* The inductive invariant ties the three copies of a key together: a warm *)
(* process has cached what the table holds under its kid, and so does every*)
(* token in circulation.  A kid's row is written only while it is absent,  *)
(* when nothing can have been signed under it, and deleted only with its   *)
(* tokens, when no process is configured with it.                          *)
\* A warm process caches exactly the row of its kid, and the row is there.
WarmIsStored ==
  \A p \in Processes :
    pc[p] = "warm" => cached[p] = row[kid[p]] /\ row[kid[p]] # NoPem

IInv == TypeOK /\ TokensVerify /\ WarmIsStored

(* The invariant holds before any process has resolved its key.            *)
LEMMA InitIInv == Init => IInv
BY DEF Init, IInv, TypeOK, TokensVerify, WarmIsStored

(* No token carries a kid whose row is missing.                            *)
LEMMA NoTokenWithoutRow ==
  ASSUME IInv, NEW k \in Kids, row[k] = NoPem
  PROVE  \A t \in signed : t.kid # k
BY NoPemIsNone DEF IInv, TypeOK, TokensVerify, Published, Pair

(* Every step keeps the types.                                             *)
LEMMA StepTypeOK ==
  ASSUME IInv, [Next]_vars
  PROVE  TypeOK'
<1> USE DEF TypeOK
<1>0. TypeOK
  BY DEF IInv
<1>1. ASSUME NEW p \in Processes, Read(p)
      PROVE  TypeOK'
  BY <1>0, <1>1 DEF Read
<1>2. ASSUME NEW p \in Processes, NEW x \in Pems, Write(p, x)
      PROVE  TypeOK'
  BY <1>0, <1>2 DEF Write, Stored
<1>3. ASSUME NEW p \in Processes, Reread(p)
      PROVE  TypeOK'
  BY <1>0, <1>3 DEF Reread
<1>4. ASSUME NEW p \in Processes, Fail(p)
      PROVE  TypeOK'
  BY <1>0, <1>4 DEF Fail
<1>5. ASSUME NEW p \in Processes, Sign(p)
      PROVE  TypeOK'
  <2>1. cached[p] \in Pems
    BY <1>0, <1>5 DEF Sign, IInv, WarmIsStored
  <2> QED
    BY <1>0, <1>5, <2>1 DEF Sign, Pair
<1>6. ASSUME NEW p \in Processes, NEW k \in Kids, Restart(p, k)
      PROVE  TypeOK'
  BY <1>0, <1>6 DEF Restart
<1>7. ASSUME NEW k \in Kids, Retire(k)
      PROVE  TypeOK'
  BY <1>0, <1>7 DEF Retire
<1>8. CASE UNCHANGED vars
  BY <1>0, <1>8 DEF vars
<1> QED
  BY <1>1, <1>2, <1>3, <1>4, <1>5, <1>6, <1>7, <1>8 DEF Next

(* Every step keeps the tokens verifiable.                                 *)
LEMMA StepTokensVerify ==
  ASSUME IInv, [Next]_vars
  PROVE  TokensVerify'
<1> USE DEF TokensVerify, Published
<1>0. TypeOK /\ TokensVerify
  BY DEF IInv
<1>1. ASSUME NEW p \in Processes, NEW x \in Pems, Write(p, x)
      PROVE  TokensVerify'
  <2>1. signed' = signed /\ row' = [row EXCEPT ![kid[p]] = Stored(kid[p], x)]
    BY <1>1 DEF Write
  <2>2. kid[p] \in Kids
    BY <1>0 DEF TypeOK
  <2>3. ASSUME NEW t \in signed
        PROVE  row'[t.kid] = t.pem
    <3>1. t.kid \in Kids
      BY <1>0 DEF TypeOK, Pair
    <3>2. CASE row[kid[p]] = NoPem
      BY <1>0, <2>1, <2>2, <3>1, <3>2, NoTokenWithoutRow DEF TypeOK
    <3>3. CASE row[kid[p]] # NoPem
      BY <1>0, <2>1, <2>2, <3>1, <3>3 DEF TypeOK, Stored
    <3> QED
      BY <3>2, <3>3
  <2> QED
    BY <2>1, <2>3
<1>2. ASSUME NEW p \in Processes, Sign(p)
      PROVE  TokensVerify'
  BY <1>0, <1>2 DEF Sign, IInv, WarmIsStored
<1>3. ASSUME NEW k \in Kids, Retire(k)
      PROVE  TokensVerify'
  BY <1>0, <1>3 DEF Retire, TypeOK, Pair
<1>4. ASSUME NEW p \in Processes, Read(p) \/ Reread(p) \/ Fail(p)
      PROVE  TokensVerify'
  BY <1>0, <1>4 DEF Read, Reread, Fail
<1>5. ASSUME NEW p \in Processes, NEW k \in Kids, Restart(p, k)
      PROVE  TokensVerify'
  BY <1>0, <1>5 DEF Restart
<1>6. CASE UNCHANGED vars
  BY <1>0, <1>6 DEF vars
<1> QED
  BY <1>1, <1>2, <1>3, <1>4, <1>5, <1>6 DEF Next

(* Every step keeps each warm process on the stored key.                   *)
LEMMA StepWarmIsStored ==
  ASSUME IInv, [Next]_vars
  PROVE  WarmIsStored'
<1> USE DEF WarmIsStored
<1>0. TypeOK /\ WarmIsStored
  BY DEF IInv
<1>1. ASSUME NEW p \in Processes, Read(p)
      PROVE  WarmIsStored'
  BY <1>0, <1>1 DEF Read, TypeOK
<1>2. ASSUME NEW p \in Processes, NEW x \in Pems, Write(p, x)
      PROVE  WarmIsStored'
  <2>1. /\ row' = [row EXCEPT ![kid[p]] = Stored(kid[p], x)]
        /\ pc' = [pc EXCEPT ![p] = "reread"]
        /\ kid' = kid
        /\ cached' = cached
    BY <1>2 DEF Write
  <2>2. ASSUME NEW q \in Processes, pc'[q] = "warm"
        PROVE  cached'[q] = row'[kid'[q]] /\ row'[kid'[q]] # NoPem
    <3>1. pc[q] = "warm"
      BY <1>0, <2>1, <2>2 DEF TypeOK
    <3>2. cached[q] = row[kid[q]] /\ row[kid[q]] # NoPem /\ kid[q] \in Kids
      BY <1>0, <3>1 DEF TypeOK
    <3>3. row'[kid[q]] = row[kid[q]]
      BY <1>0, <2>1, <3>2 DEF TypeOK, Stored
    <3> QED
      BY <2>1, <3>2, <3>3
  <2> QED
    BY <2>2
<1>3. ASSUME NEW p \in Processes, Reread(p)
      PROVE  WarmIsStored'
  BY <1>0, <1>3 DEF Reread, TypeOK
<1>4. ASSUME NEW p \in Processes, Fail(p)
      PROVE  WarmIsStored'
  BY <1>0, <1>4 DEF Fail, TypeOK
<1>5. ASSUME NEW p \in Processes, Sign(p)
      PROVE  WarmIsStored'
  BY <1>0, <1>5 DEF Sign
<1>6. ASSUME NEW p \in Processes, NEW k \in Kids, Restart(p, k)
      PROVE  WarmIsStored'
  BY <1>0, <1>6 DEF Restart, TypeOK
<1>7. ASSUME NEW k \in Kids, Retire(k)
      PROVE  WarmIsStored'
  BY <1>0, <1>7 DEF Retire, TypeOK
<1>8. CASE UNCHANGED vars
  BY <1>0, <1>8 DEF vars
<1> QED
  BY <1>1, <1>2, <1>3, <1>4, <1>5, <1>6, <1>7, <1>8 DEF Next

(* Invariance of the strengthened invariant.                               *)
THEOREM KeyInvariance == Spec => []IInv
<1>1. IInv /\ [Next]_vars => IInv'
  BY StepTypeOK, StepTokensVerify, StepWarmIsStored DEF IInv
<1> QED
  BY InitIInv, <1>1, PTL DEF Spec

(* Rows, caches and tokens keep their types for any processes and kids.    *)
THEOREM KeyTypes == Spec => []TypeOK
<1>1. IInv => TypeOK
  BY DEF IInv
<1> QED
  BY KeyInvariance, <1>1, PTL

(* Every token in circulation verifies against the published keys.         *)
THEOREM EveryTokenVerifies == Spec => []TokensVerify
<1>1. IInv => TokensVerify
  BY DEF IInv
<1> QED
  BY KeyInvariance, <1>1, PTL

(* Processes configured with one kid sign with one key.                    *)
THEOREM OneKey == Spec => []OneKeyPerKid
<1>1. IInv => OneKeyPerKid
  BY DEF IInv, WarmIsStored, OneKeyPerKid
<1> QED
  BY KeyInvariance, <1>1, PTL

(* A stored key is never replaced, only retired with its kid.              *)
THEOREM KeyStays == Spec => KeyNeverReplaced
<1> DEFINE Kept == \A k \in Kids : row[k] # NoPem => row'[k] \in {row[k], NoPem}
<1>1. ASSUME TypeOK, [Next]_vars
      PROVE  [Kept]_vars
  <2>1. ASSUME NEW p \in Processes, NEW x \in Pems, Write(p, x)
        PROVE  Kept
    BY <1>1, <2>1 DEF Write, Stored, TypeOK
  <2>2. ASSUME NEW k \in Kids, Retire(k)
        PROVE  Kept
    BY <1>1, <2>2 DEF Retire, TypeOK
  <2>3. ASSUME NEW p \in Processes, Read(p) \/ Reread(p) \/ Fail(p) \/ Sign(p)
        PROVE  Kept
    BY <2>3 DEF Read, Reread, Fail, Sign
  <2>4. ASSUME NEW p \in Processes, NEW k \in Kids, Restart(p, k)
        PROVE  Kept
    BY <2>4 DEF Restart
  <2> QED
    BY <1>1, <2>1, <2>2, <2>3, <2>4 DEF Next
<1>2. IInv => TypeOK
  BY DEF IInv
<1> QED
  BY KeyInvariance, <1>1, <1>2, PTL DEF KeyNeverReplaced, Spec

-----------------------------------------------------------------------------
(* Breaker.                                                                *)

(* Type correctness, for any number of calls, threshold and cooldown.      *)
THEOREM BreakerTyped ==
  ASSUME Threshold \in Nat \ {0} PROVE BreakerSpec => []BreakerTypeOK
<1>1. BreakerInit => BreakerTypeOK  BY DEF BreakerInit, BreakerTypeOK
<1>2. BreakerTypeOK /\ [BreakerNext]_breakerVars => BreakerTypeOK'
  <2> SUFFICES ASSUME BreakerTypeOK, [BreakerNext]_breakerVars PROVE BreakerTypeOK'  OBVIOUS
  <2> USE DEF BreakerTypeOK
  <2>1. ASSUME NEW c \in Calls, Allow(c) PROVE BreakerTypeOK'
    BY <2>1 DEF Allow, Open, Admit
  <2>2. ASSUME NEW c \in Calls, Success(c) PROVE BreakerTypeOK'
    BY <2>2 DEF Success, End
  <2>3. ASSUME NEW c \in Calls, Failure(c) PROVE BreakerTypeOK'
    BY <2>3 DEF Failure, End
  <2>4. CASE Tick  BY <2>4 DEF Tick
  <2>5. CASE UNCHANGED breakerVars  BY <2>5 DEF breakerVars
  <2> QED  BY <2>1, <2>2, <2>3, <2>4, <2>5 DEF BreakerNext
<1> QED  BY <1>1, <1>2, PTL DEF BreakerSpec

(* Earned, on its own: half-open takes one failure off a count that was    *)
(* earned before, and every answer moves both counts alike.                *)
THEOREM BreakerEarned ==
  ASSUME Threshold \in Nat \ {0} PROVE BreakerSpec => []Earned
<1>1. BreakerInit => Earned  BY DEF BreakerInit, Earned
<1>2. BreakerTypeOK /\ Earned /\ [BreakerNext]_breakerVars => Earned'
  <2> SUFFICES ASSUME BreakerTypeOK, Earned, [BreakerNext]_breakerVars PROVE Earned'  OBVIOUS
  <2> USE DEF BreakerTypeOK, Earned
  <2>1. ASSUME NEW c \in Calls, Allow(c) PROVE Earned'
    BY <2>1 DEF Allow, Open
  <2>2. ASSUME NEW c \in Calls, Success(c) PROVE Earned'
    BY <2>2 DEF Success
  <2>3. ASSUME NEW c \in Calls, Failure(c) PROVE Earned'
    BY <2>3 DEF Failure
  <2>4. CASE Tick  BY <2>4 DEF Tick
  <2>5. CASE UNCHANGED breakerVars  BY <2>5 DEF breakerVars
  <2> QED  BY <2>1, <2>2, <2>3, <2>4, <2>5 DEF BreakerNext
<1> QED  BY <1>1, <1>2, BreakerTyped, PTL DEF BreakerSpec

(* NotAhead: a call's start has passed when its failure is recorded, so    *)
(* the cooldown that counts from it is never longer than configured.       *)
THEOREM BreakerNotAhead ==
  ASSUME Threshold \in Nat \ {0} PROVE BreakerSpec => []NotAhead
<1>1. BreakerInit => NotAhead  BY DEF BreakerInit, NotAhead
<1>2. BreakerTypeOK /\ NotAhead /\ [BreakerNext]_breakerVars => NotAhead'
  <2> SUFFICES ASSUME BreakerTypeOK, NotAhead, [BreakerNext]_breakerVars PROVE NotAhead'  OBVIOUS
  <2> USE DEF BreakerTypeOK, NotAhead
  <2>1. ASSUME NEW c \in Calls, Allow(c) PROVE NotAhead'
    BY <2>1 DEF Allow, Admit
  <2>2. ASSUME NEW c \in Calls, Success(c) PROVE NotAhead'
    BY <2>2 DEF Success, End
  <2>3. ASSUME NEW c \in Calls, Failure(c) PROVE NotAhead'
    BY <2>3 DEF Failure, End
  <2>4. CASE Tick  BY <2>4 DEF Tick
  <2>5. CASE UNCHANGED breakerVars  BY <2>5 DEF breakerVars
  <2> QED  BY <2>1, <2>2, <2>3, <2>4, <2>5 DEF BreakerNext
<1> QED  BY <1>1, <1>2, BreakerTyped, PTL DEF BreakerSpec

-----------------------------------------------------------------------------
(* Paging.                                                                 *)

\* The walk so far: all that stayed up to the cursor was shown, and nothing
\* after it.
Behind ==
  \A r \in Rows : IF r <= cursor THEN seen[r] <= 1 /\ (r \in stayed => seen[r] = 1)
                  ELSE ~done => seen[r] = 0
WalkInv == WalkTyped /\ Behind /\ WalkComplete

LEMMA WalkInvInit == ASSUME PagingAssumption PROVE WalkInit => WalkInv
<1> SUFFICES ASSUME WalkInit PROVE WalkInv
  OBVIOUS
<1>1. seen \in [Rows -> Nat] /\ \A r \in Rows : seen[r] = 0 /\ ~(r <= cursor)
  BY DEF WalkInit, PagingAssumption
<1>2. ~done BY DEF WalkInit
<1>3. WalkTyped BY <1>1 DEF WalkInit, WalkTyped
<1>4. Behind BY <1>1, <1>2 DEF Behind
<1>5. WalkComplete BY <1>1, <1>2 DEF WalkComplete
<1> QED BY <1>3, <1>4, <1>5 DEF WalkInv

\* Showing a page keeps the counters numbers, and none above one.
LEMMA ShowOnce ==
  ASSUME PagingAssumption, WalkInv, ~done, NEW page \in SUBSET After, Show(page)
  PROVE  /\ seen' \in [Rows -> Nat]
         /\ \A r \in Rows : seen'[r] <= 1
         /\ \A r \in page : r \in Rows /\ seen'[r] = 1
         /\ \A r \in Rows \ page : seen'[r] = seen[r]
BY DEF PagingAssumption, WalkInv, WalkTyped, Behind, WalkComplete, After, Show

\* A page that is all there was ends the walk with every row shown.
LEMMA LastPage ==
  ASSUME PagingAssumption, WalkInv, ~done, Show(After), done' = TRUE,
         UNCHANGED <<table, list, stayed, cursor>>
  PROVE  WalkInv'
<1>1. /\ seen' \in [Rows -> Nat] /\ \A r \in Rows : seen'[r] <= 1
      /\ \A r \in After : seen'[r] = 1 /\ \A s \in Rows \ After : seen'[s] = seen[s]
  BY ShowOnce
<1>2. WalkTyped' BY <1>1 DEF WalkInv, WalkTyped
<1>3. ASSUME NEW r \in Rows, r \in stayed PROVE seen'[r] = 1
  <2>1. CASE r \in After BY <2>1, <1>1
  <2>2. CASE r \notin After
    <3>1. r <= cursor BY <2>2, <1>3 DEF After, WalkInv, WalkTyped, PagingAssumption
    <3>2. seen[r] = 1 BY <3>1, <1>3 DEF WalkInv, Behind
    <3> QED BY <3>2, <2>2, ShowOnce
  <2> QED BY <2>1, <2>2
<1>4. Behind' /\ WalkComplete' BY <1>1, <1>3 DEF WalkInv, Behind, WalkComplete, WalkTyped
<1> QED BY <1>2, <1>4 DEF WalkInv

\* A page that ends at its cursor leaves nothing behind it that stayed.
LEMMA FullPage ==
  ASSUME PagingAssumption, WalkInv, ~done, NEW page \in SUBSET After, Show(page),
         NEW last \in page, \A s \in page : s <= last,
         \A s \in After \ page : last < s,
         cursor' = last, UNCHANGED <<table, list, stayed, done>>
  PROVE  WalkInv'
<1>1. /\ seen' \in [Rows -> Nat] /\ \A r \in Rows : seen'[r] <= 1
      /\ \A r \in page : r \in Rows /\ seen'[r] = 1
      /\ \A r \in Rows \ page : seen'[r] = seen[r]
  BY ShowOnce
<1>2. last > cursor /\ cursor \in Int /\ last \in Nat
  BY DEF After, WalkInv, WalkTyped, PagingAssumption
<1>3. WalkTyped' BY <1>1 DEF WalkInv, WalkTyped
<1>4. ASSUME NEW r \in Rows, r <= last, r \in stayed PROVE seen'[r] = 1
  <2>1. CASE r \in page BY <2>1, <1>1
  <2>2. CASE r \notin page
    <3>1. r \notin After BY <2>2, <1>4, <1>2 DEF PagingAssumption
    <3>2. r <= cursor BY <3>1, <1>4, <1>2 DEF After, WalkInv, WalkTyped, PagingAssumption
    <3>3. seen[r] = 1 BY <3>2, <1>4 DEF WalkInv, Behind
    <3> QED BY <3>3, <2>2, <1>1
  <2> QED BY <2>1, <2>2
<1>5. ASSUME NEW r \in Rows, ~(r <= last) PROVE seen'[r] = 0
  <2>1. r \notin page BY <1>5
  <2>2. ~(r <= cursor) BY <1>5, <1>2 DEF PagingAssumption
  <2> QED BY <2>1, <2>2, <1>1 DEF WalkInv, Behind
<1>6. Behind' BY <1>1, <1>4, <1>5 DEF Behind
<1>7. WalkComplete' BY <1>1 DEF WalkComplete
<1> QED BY <1>3, <1>6, <1>7 DEF WalkInv

LEMMA WalkInvNext == ASSUME PagingAssumption PROVE WalkInv /\ [WalkNext]_walkVars => WalkInv'
<1> SUFFICES ASSUME WalkInv, [WalkNext]_walkVars PROVE WalkInv'
  OBVIOUS
<1>1. CASE NextPage
  <2>1. ASSUME NEW page \in SUBSET After, NEW extra \in SUBSET (After \ page),
               PageOfTrail(page, extra)
        PROVE  WalkInv'
    <3>1. CASE extra = {}
      <4>1. page = After
        BY <2>1, <3>1 DEF PageOfTrail, IsPage, PagingAssumption
      <4> QED BY <1>1, <2>1, <3>1, <4>1, LastPage DEF NextPage, PageOfTrail
    <3>2. CASE extra # {}
      <4>1. PICK r \in page : IsLast(r, page) /\ cursor' = r /\ UNCHANGED done
        BY <2>1, <3>2 DEF PageOfTrail
      <4>2. \A s \in page : s <= r BY <4>1 DEF IsLast
      <4>3. \A s \in After \ page : r < s
        BY <2>1, <4>1 DEF PageOfTrail, IsPage
      <4> QED BY <1>1, <2>1, <4>1, <4>2, <4>3, FullPage DEF NextPage, PageOfTrail
    <3> QED BY <3>1, <3>2
  <2>2. ASSUME NEW page \in SUBSET After, PageOfDirectory(page) PROVE WalkInv'
    <3>1. CASE Cardinality(page) = Limit
      <4>1. PICK r \in page : IsLast(r, page) /\ cursor' = r /\ UNCHANGED done
        BY <2>2, <3>1 DEF PageOfDirectory
      <4>2. \A s \in page : s <= r BY <4>1 DEF IsLast
      <4>3. \A s \in After \ page : r < s
        BY <2>2, <4>1 DEF PageOfDirectory, IsPage
      <4> QED BY <1>1, <2>2, <4>1, <4>2, <4>3, FullPage DEF NextPage, PageOfDirectory
    <3>2. CASE Cardinality(page) # Limit
      <4>1. page = After BY <2>2, <3>2 DEF PageOfDirectory, IsPage
      <4> QED BY <1>1, <2>2, <3>2, <4>1, LastPage DEF NextPage, PageOfDirectory
    <3> QED BY <3>1, <3>2
  <2> QED BY <1>1, <2>1, <2>2 DEF NextPage
<1>2. CASE \E r \in Rows : Insert(r) \/ Remove(r)
  BY <1>2 DEF Insert, Remove, WalkInv, WalkTyped, Behind, WalkComplete
<1>3. CASE UNCHANGED walkVars
  BY <1>3 DEF walkVars, WalkInv, WalkTyped, Behind, WalkComplete
<1> QED BY <1>1, <1>2, <1>3 DEF WalkNext

\* A client that follows the cursors sees every row that was there all along
\* exactly once and none twice, for every page size, every set of ids and
\* every interleaving with writers and removals.
THEOREM WalkSound == ASSUME PagingAssumption PROVE WalkSpec => []WalkComplete
<1>1. WalkInv => WalkComplete BY DEF WalkInv
<1> QED BY WalkInvInit, WalkInvNext, <1>1, PTL DEF WalkSpec

-----------------------------------------------------------------------------
(* EventRecorder.                                                          *)

\* Nothing is taken while nobody writes, and stop() flushes only after it began.
Turns ==
  /\ (\A f \in Flushers : stage[f] # "write") => batch = 0
  /\ ~stopping => stage[Last] = "off"

RecorderInv == RecorderTyped /\ Turns /\ EventsAddUp

LEMMA RecorderInvInit == ASSUME RecorderAssumption PROVE RecorderInit => RecorderInv
<1> SUFFICES ASSUME RecorderInit PROVE RecorderInv
  OBVIOUS
<1>1. RecorderTyped BY DEF RecorderInit, RecorderTyped
<1>2. Turns BY DEF RecorderInit, Turns, Flushers
<1>3. EventsAddUp BY DEF RecorderInit, EventsAddUp
<1> QED BY <1>1, <1>2, <1>3 DEF RecorderInv

LEMMA RecorderInvNext ==
  ASSUME RecorderAssumption PROVE RecorderInv /\ [RecorderNext]_recorderVars => RecorderInv'
<1> SUFFICES ASSUME RecorderInv, [RecorderNext]_recorderVars PROVE RecorderInv'
  OBVIOUS
<1> USE DEF RecorderInv
<1>1. CASE Record
  <2>1. stage' \in [Flushers -> {"off", "lock", "write"}]
        /\ \A f \in Flushers : (stage'[f] = "write" <=> stage[f] = "write")
        /\ stage'[Last] = stage[Last]
    BY <1>1 DEF Record, StartFlush, RecorderTyped, Flushers, RecorderAssumption
  <2> QED BY <1>1, <2>1 DEF Record, RecorderTyped, Turns, EventsAddUp
<1>2. CASE Wake
  <2>1. stage' \in [Flushers -> {"off", "lock", "write"}]
        /\ \A f \in Flushers : (stage'[f] = "write" <=> stage[f] = "write")
        /\ stage'[Last] = stage[Last]
    BY <1>2 DEF Wake, StartFlush, RecorderTyped, Flushers, RecorderAssumption
  <2> QED BY <1>2, <2>1 DEF Wake, RecorderTyped, Turns, EventsAddUp
<1>3. CASE Stop
  <2>1. /\ stage' \in [Flushers -> {"off", "lock", "write"}]
        /\ stage'[Last] = "lock" /\ stage'[Timer] = "off"
        /\ \A f \in Flushers \ {Timer, Last} : stage'[f] = stage[f]
        /\ Timer \in Flushers /\ Last \in Flushers /\ stage[Last] = "off"
    BY <1>3 DEF Stop, RecorderTyped, Turns, Flushers, RecorderAssumption
  <2>2. CASE stage[Timer] = "write"
    BY <1>3, <2>1, <2>2 DEF Stop, RecorderTyped, Turns, EventsAddUp
  <2>3. CASE stage[Timer] # "write"
    <3>1. (\A f \in Flushers : stage'[f] # "write") => \A f \in Flushers : stage[f] # "write"
      BY <2>1, <2>3
    <3> QED BY <1>3, <2>1, <2>3, <3>1 DEF Stop, RecorderTyped, Turns, EventsAddUp
  <2> QED BY <2>2, <2>3
<1>4. CASE Kill
  <2>1. stage' \in [Flushers -> {"off", "lock", "write"}] BY <1>4 DEF Kill
  <2>2. cut' \in Nat BY <1>4 DEF Kill, RecorderTyped
  <2>3. stopping' \in BOOLEAN BY <1>4 DEF Kill
  <2>4. buffer' = 0 /\ batch' = 0 /\ UNCHANGED <<recorded, written, dropped>> BY <1>4 DEF Kill
  <2>5. RecorderTyped' BY <2>1, <2>2, <2>3, <2>4 DEF RecorderTyped
  <2>6. Turns' BY <1>4 DEF Kill, Turns, Flushers
  <2>7. EventsAddUp' BY <1>4 DEF Kill, EventsAddUp, RecorderTyped
  <2> QED BY <2>5, <2>6, <2>7
<1>5. ASSUME NEW f \in Flushers, Acquire(f) PROVE RecorderInv'
  BY <1>5 DEF Acquire, Taken, RecorderTyped, Turns, EventsAddUp, Flushers
<1>6. ASSUME NEW f \in Flushers, Ends(f) PROVE RecorderInv'
  BY <1>6 DEF Ends, RecorderTyped, Turns, EventsAddUp, Flushers
<1>7. CASE UNCHANGED recorderVars
  BY <1>7 DEF recorderVars, RecorderTyped, Turns, EventsAddUp
<1> QED BY <1>1, <1>2, <1>3, <1>4, <1>5, <1>6, <1>7 DEF RecorderNext

\* Whatever flushes overlap, and wherever the process is stopped or killed, the
\* numbers of events add up, for every batch size and number of flushes.
THEOREM NothingVanishes == ASSUME RecorderAssumption PROVE RecorderSpec => []EventsAddUp
<1>1. RecorderInv => EventsAddUp BY DEF RecorderInv
<1> QED BY RecorderInvInit, RecorderInvNext, <1>1, PTL DEF RecorderSpec

-----------------------------------------------------------------------------
(* Access.                                                                 *)
(*                                                                         *)
(* What an API process has cached of the tenant is at most what was true of*)
(* it at some time since the process started; an admin scope is granted on  *)
(* the word of such a cache, and only by it.                                *)
\* The owners a process knows owned the tenant since it started, and own it
\* still unless they were removed.
OwnersAreKnown ==
  \A r \in Apis :
    /\ owners \subseteq ownedSince[r]
    /\ registry[r] # Nothing =>
         registry[r] \subseteq ownedSince[r] /\ registry[r] \subseteq owners \cup former

\* A token or session says who it is for and what it may do: the fleet's scope is
\* there for CB_OWNER_ID and nobody who never owned the tenant.
Sound(t) ==
  /\ t \in Token
  /\ t.scope # Nothing /\ "admin:read" \in t.scope => t.user \in owners \cup former \cup {OwnerId}
  /\ t.user = OwnerId /\ t.scope # Nothing => "admin:read" \in t.scope

AccessInv ==
  /\ AccessTyped
  /\ OwnersAreKnown
  /\ \A t \in sessions : Sound(t)
  /\ \A t \in access : Sound(t) /\ (t.scope # Nothing => Verifies(t))

\* A token issued over sound claims joins tokens that were sound already.
LEMMA IssueSound ==
  ASSUME NEW u \in Users, NEW scope \in Claims, NEW ttl \in Nat, AccessInv,
         Issue(u, scope, ttl), UNCHANGED <<clock, owners, former>>,
         scope # Nothing => ttl > 0,
         Sound([user |-> u, scope |-> scope, until |-> clock + ttl])
  PROVE  /\ access' \subseteq Token
         /\ \A t \in access' : Sound(t)' /\ (t.scope # Nothing => Verifies(t)')
<1> DEFINE new == [user |-> u, scope |-> scope, until |-> clock + ttl]
<1>1. clock \in Nat BY AccessAssumption DEF AccessInv, AccessTyped
<1>2. ASSUME NEW t \in access' PROVE t \in Token /\ Sound(t)' /\ (t.scope # Nothing => Verifies(t)')
  <2>1. t \in access \/ t = new BY <1>2 DEF Issue
  <2>2. CASE t \in access BY <2>2 DEF AccessInv, Sound, Verifies
  <2>3. CASE t = new
    <3>1. new.user = u /\ new.scope = scope /\ new.until = clock + ttl OBVIOUS
    <3>2. new \in Token BY <1>1 DEF Token
    <3>3. Sound(new)' BY <3>1, <3>2 DEF Sound
    <3>4. scope # Nothing => clock < clock + ttl BY <1>1
    <3> QED BY <2>3, <3>1, <3>2, <3>3, <3>4 DEF Verifies
  <2> QED BY <2>1, <2>2, <2>3
<1> QED BY <1>2

\* What a grant may learn of the tenant is known of it already.
LEMMA ResolvedIsKnown ==
  ASSUME AccessInv, NEW r \in Apis, NEW tenant \in Resolved(r)
  PROVE  /\ tenant \in SUBSET Users
         /\ tenant \subseteq ownedSince[r] /\ tenant \subseteq owners \cup former
<1>1. CASE registry[r] # Nothing
  BY <1>1 DEF Resolved, AccessInv, AccessTyped, OwnersAreKnown
<1>2. CASE registry[r] = Nothing
  BY <1>2 DEF Resolved, AccessInv, AccessTyped, OwnersAreKnown
<1> QED BY <1>1, <1>2

\* Caching it keeps the caches true.
LEMMA CacheSound ==
  ASSUME AccessInv, NEW r \in Apis, NEW tenant \in Resolved(r),
         Cache(r, tenant) \/ UNCHANGED registry, UNCHANGED <<owners, ownedSince, former>>
  PROVE  registry' \in [Apis -> (SUBSET Users) \cup {Nothing}] /\ OwnersAreKnown'
<1>1. /\ tenant \in SUBSET Users
      /\ tenant \subseteq ownedSince[r] /\ tenant \subseteq owners \cup former
  BY ResolvedIsKnown
<1>2. registry \in [Apis -> (SUBSET Users) \cup {Nothing}] BY DEF AccessInv, AccessTyped
<1>3. CASE UNCHANGED registry BY <1>2, <1>3 DEF AccessInv, OwnersAreKnown
<1>4. CASE Cache(r, tenant)
  <2>1. registry' = [registry EXCEPT ![r] = tenant] BY <1>4 DEF Cache
  <2>2. \A q \in Apis : registry'[q] = IF q = r THEN tenant ELSE registry[q] BY <1>2, <2>1
  <2>3. registry' \in [Apis -> (SUBSET Users) \cup {Nothing}] BY <1>1, <1>2, <2>1
  <2> QED BY <1>1, <2>2, <2>3 DEF AccessInv, OwnersAreKnown
<1> QED BY <1>3, <1>4

\* The admin scopes go to CB_OWNER_ID and to those the lookup named.
LEMMA ScopesForSound ==
  ASSUME NEW u \in Users, NEW tenant \in SUBSET Users
  PROVE  /\ ScopesFor(u, tenant) \in SUBSET AllScopes
         /\ "admin:read" \in ScopesFor(u, tenant) <=> u = OwnerId \/ u \in tenant
BY AccessAssumption DEF ScopesFor, IsBotAdmin

LEMMA AccessInvInit == AccessInit => AccessInv
BY AccessAssumption DEF AccessInit, AccessInv, AccessTyped, OwnersAreKnown

LEMMA AccessInvNext == AccessInv /\ [AccessNext]_accessVars => AccessInv'
<1> SUFFICES ASSUME AccessInv, [AccessNext]_accessVars PROVE AccessInv'
  OBVIOUS
<1> USE AccessAssumption
<1>c. clock \in Nat BY DEF AccessInv, AccessTyped
<1>1. ASSUME NEW u \in Users, Vouch(u) PROVE AccessInv'
  <2>1. proof' \in [Users -> 0..MaxClock \cup {Nothing}] BY <1>1 DEF Vouch, AccessInv, AccessTyped
  <2>2. AccessTyped' BY <1>1, <2>1 DEF Vouch, AccessInv, AccessTyped
  <2> QED BY <1>1, <2>2 DEF Vouch, AccessInv, OwnersAreKnown, Sound, Verifies
<1>2. ASSUME NEW u \in Users, Login(u) PROVE AccessInv'
  <2>1. Issue(u, Nothing, LoginTTL) /\ UNCHANGED <<clock, owners, former>> BY <1>2 DEF Login
  <2>2. Sound([user |-> u, scope |-> Nothing, until |-> clock + LoginTTL])
    BY <1>c DEF Sound, Token, Claims
  <2>3. /\ access' \subseteq Token
        /\ \A t \in access' : Sound(t)' /\ (t.scope # Nothing => Verifies(t)')
    BY <2>1, <2>2, IssueSound DEF Claims
  <2> QED BY <1>2, <2>3 DEF Login, AccessInv, AccessTyped, OwnersAreKnown, Sound
<1>3. ASSUME NEW u \in Users, NEW r \in Apis, NEW window \in {DataAge, LoginAge}, Grant(u, r, window)
      PROVE  AccessInv'
  <2>1. PICK tenant \in Resolved(r) :
          /\ Cache(r, tenant) \/ UNCHANGED registry
          /\ Issue(u, ScopesFor(u, tenant), AccessTTL)
          /\ sessions' = sessions \cup {Opened(u, ScopesFor(u, tenant))}
    BY <1>3 DEF Grant
  <2> DEFINE scope == ScopesFor(u, tenant)
  <2>2. UNCHANGED <<clock, admins, owners, proof, changes, ownedSince, former>> BY <1>3 DEF Grant
  <2>3. tenant \in SUBSET Users /\ tenant \subseteq owners \cup former BY ResolvedIsKnown
  <2>4. /\ scope \in SUBSET AllScopes
        /\ "admin:read" \in scope <=> u = OwnerId \/ u \in tenant
    BY <2>3, ScopesForSound
  <2>5. ASSUME NEW n \in Nat PROVE Sound([user |-> u, scope |-> scope, until |-> n])
    BY <2>3, <2>4 DEF Sound, Token, Claims
  <2>6. /\ access' \subseteq Token
        /\ \A t \in access' : Sound(t)' /\ (t.scope # Nothing => Verifies(t)')
    <3>1. scope \in Claims /\ clock + AccessTTL \in Nat BY <1>c, <2>4 DEF Claims
    <3>2. Sound([user |-> u, scope |-> scope, until |-> clock + AccessTTL]) BY <2>5, <3>1
    <3> HIDE DEF scope
    <3> QED BY <2>1, <2>2, <3>1, <3>2, IssueSound DEF scope
  <2>7. \A t \in sessions' : Sound(t)'
    <3>1. Sound(Opened(u, scope)) BY <1>c, <2>5 DEF Opened
    <3> QED BY <2>1, <2>2, <3>1 DEF AccessInv, Sound
  <2>8. registry' \in [Apis -> (SUBSET Users) \cup {Nothing}] /\ OwnersAreKnown'
    BY <2>1, <2>2, CacheSound
  <2>9. sessions' \subseteq Token BY <2>7 DEF Sound
  <2> QED BY <2>2, <2>6, <2>7, <2>8, <2>9 DEF AccessInv, AccessTyped
<1>4. ASSUME NEW s \in sessions, Refresh(s) PROVE AccessInv'
  <2>1. UNCHANGED <<clock, admins, owners, registry, proof, changes, ownedSince, former>>
    BY <1>4 DEF Refresh
  <2>2. Sound(s) /\ s.user \in Users /\ s.scope \in Claims BY DEF AccessInv, Sound, Token
  <2>3. ASSUME NEW n \in Nat PROVE Sound([user |-> s.user, scope |-> s.scope, until |-> n])
    BY <2>2 DEF Sound, Token
  <2>4. /\ access' \subseteq Token
        /\ \A t \in access' : Sound(t)' /\ (t.scope # Nothing => Verifies(t)')
    <3>1. Issue(s.user, s.scope, AccessTTL) /\ clock + AccessTTL \in Nat BY <1>4, <1>c DEF Refresh
    <3>2. Sound([user |-> s.user, scope |-> s.scope, until |-> clock + AccessTTL]) BY <2>3, <3>1
    <3> QED BY <2>1, <2>2, <3>1, <3>2, IssueSound
  <2>5. \A t \in sessions' : Sound(t)'
    <3>1. Sound(Opened(s.user, s.scope)) BY <1>c, <2>3 DEF Opened
    <3> QED BY <1>4, <2>1, <3>1 DEF Refresh, AccessInv, Sound
  <2>6. sessions' \subseteq Token BY <2>5 DEF Sound
  <2> QED BY <2>1, <2>4, <2>5, <2>6 DEF AccessInv, AccessTyped, OwnersAreKnown
<1>5. ASSUME NEW s \in sessions, Revoke(s) PROVE AccessInv'
  BY <1>5 DEF Revoke, AccessInv, AccessTyped, OwnersAreKnown, Sound, Verifies
<1>6. ASSUME NEW r \in Apis, Ask(r) PROVE AccessInv'
  <2>1. PICK tenant \in Resolved(r) : Cache(r, tenant) BY <1>6 DEF Ask
  <2>2. registry' \in [Apis -> (SUBSET Users) \cup {Nothing}] /\ OwnersAreKnown'
    BY <1>6, <2>1, CacheSound DEF Ask
  <2> QED BY <1>6, <2>2 DEF Ask, AccessInv, AccessTyped, Sound, Verifies
<1>7. ASSUME NEW r \in Apis, RestartApi(r) PROVE AccessInv'
  <2>1. /\ registry \in [Apis -> (SUBSET Users) \cup {Nothing}]
        /\ ownedSince \in [Apis -> SUBSET Users] /\ owners \in SUBSET Users
    BY DEF AccessInv, AccessTyped
  <2>2. \A q \in Apis : /\ registry'[q] = IF q = r THEN Nothing ELSE registry[q]
                        /\ ownedSince'[q] = IF q = r THEN owners ELSE ownedSince[q]
    BY <1>7, <2>1 DEF RestartApi
  <2>3. /\ registry' \in [Apis -> (SUBSET Users) \cup {Nothing}]
        /\ ownedSince' \in [Apis -> SUBSET Users]
    BY <1>7, <2>1 DEF RestartApi
  <2>4. OwnersAreKnown' BY <1>7, <2>2 DEF RestartApi, AccessInv, OwnersAreKnown
  <2>5. changes' \in 0..MaxChanges BY <1>7 DEF RestartApi, Change, AccessInv, AccessTyped
  <2> QED BY <1>7, <2>3, <2>4, <2>5 DEF RestartApi, AccessInv, AccessTyped, Sound, Verifies
<1>8. ASSUME NEW them \in SUBSET Users, SetOwners(them) PROVE AccessInv'
  <2>1. owners \cup former \subseteq owners' \cup former' BY <1>8 DEF SetOwners
  <2>2. ownedSince \in [Apis -> SUBSET Users] BY DEF AccessInv, AccessTyped
  <2>3. \A q \in Apis : ownedSince'[q] = ownedSince[q] \cup them BY <1>8 DEF SetOwners
  <2>4. ownedSince' \in [Apis -> SUBSET Users] BY <1>8, <2>2 DEF SetOwners
  <2>5. OwnersAreKnown' BY <1>8, <2>1, <2>3 DEF SetOwners, AccessInv, OwnersAreKnown
  <2>6. changes' \in 0..MaxChanges BY <1>8 DEF SetOwners, Change, AccessInv, AccessTyped
  <2>7. AccessTyped' BY <1>8, <2>4, <2>6 DEF SetOwners, AccessInv, AccessTyped
  <2>8. \A t : Sound(t) => Sound(t)' BY <2>1 DEF Sound
  <2> QED BY <1>8, <2>5, <2>7, <2>8 DEF SetOwners, AccessInv, Verifies
<1>9. ASSUME NEW g \in Groups, NEW them \in SUBSET Users, SetAdmins(g, them) PROVE AccessInv'
  <2>1. admins' \subseteq Groups \X Users BY <1>9 DEF SetAdmins, AccessInv, AccessTyped
  <2>2. changes' \in 0..MaxChanges BY <1>9 DEF SetAdmins, Change, AccessInv, AccessTyped
  <2> QED BY <1>9, <2>1, <2>2 DEF SetAdmins, AccessInv, AccessTyped, OwnersAreKnown, Sound, Verifies
<1>10. CASE Elapse
  <2>1. clock' \in 0..MaxClock BY <1>10 DEF Elapse, AccessInv, AccessTyped
  <2>2. access' \subseteq access /\ sessions' \subseteq sessions BY <1>10 DEF Elapse
  <2>3. \A t \in access' : Verifies(t)' BY <1>10 DEF Elapse, Verifies
  <2>4. AccessTyped' BY <1>10, <2>1, <2>2 DEF Elapse, AccessInv, AccessTyped
  <2> QED BY <1>10, <2>2, <2>3, <2>4 DEF Elapse, AccessInv, OwnersAreKnown, Sound
<1>11. CASE UNCHANGED accessVars
  BY <1>11 DEF accessVars, AccessInv, AccessTyped, OwnersAreKnown, Sound, Verifies
<1> QED BY <1>1, <1>2, <1>3, <1>4, <1>5, <1>6, <1>7, <1>8, <1>9, <1>10, <1>11 DEF AccessNext

\* Whoever runs nothing gets one answer for every group and route: the state of
\* the groups does not enter it.
LEMMA StrangersAlike == AccessInv => StrangersLearnNothing
<1> SUFFICES ASSUME AccessInv, NEW t \in access, NEW tenant \in Tenants, t.user \notin tenant
             PROVE  Cardinality({GroupAnswer(t, g, need, tenant) :
                       g \in {h \in Groups \cup {Unknown} : <<h, t.user>> \notin admins},
                       need \in GroupRoutes}) = 1
  BY DEF StrangersLearnNothing
<1> DEFINE Others == {h \in Groups \cup {Unknown} : <<h, t.user>> \notin admins}
           Answer == IF Verifies(t) THEN 404 ELSE 401
           Answers == {GroupAnswer(t, g, need, tenant) : g \in Others, need \in GroupRoutes}
<1>1. \A g \in Others, need \in GroupRoutes : GroupAnswer(t, g, need, tenant) = Answer
  BY DEF GroupAnswer, Administers
<1>2. Unknown \in Others BY AccessAssumption DEF AccessInv, AccessTyped
<1>3. {} \in GroupRoutes BY DEF GroupRoutes
<1>4. Answers = {Answer}
  <2> HIDE DEF Others, Answer
  <2> QED BY <1>1, <1>2, <1>3
<1>5. Cardinality({Answer}) = 1
  <2> HIDE DEF Answer
  <2> QED BY FS_Singleton
<1>6. Cardinality(Answers) = Cardinality({Answer})
  <2> HIDE DEF Answers, Answer
  <2> QED BY <1>4
<1> QED BY <1>5, <1>6

\* Nobody learns or does over HTTP what is not theirs, for every number of users,
\* groups and API processes and whatever the lifetimes of tokens are: AccessHolds
\* (security.py, oauth.py).
THEOREM NobodyOverreaches == AccessSpec => []AccessHolds
<1>1. AccessInv => AccessHolds
  <2> SUFFICES ASSUME AccessInv PROVE AccessHolds OBVIOUS
  <2> USE AccessAssumption
  <2>1. FleetServesOwners
    BY DEF FleetServesOwners, FleetAnswer, IsBotAdmin, AccessInv, OwnersAreKnown
  <2>2. ScopeIsEarned BY DEF ScopeIsEarned, AccessInv, Sound
  <2>3. LegacyOnlyReads
    <3> SUFFICES ASSUME NEW t \in access, NEW tenant \in Tenants, t.scope = Nothing
                 PROVE  /\ \A g \in Groups, need \in {{"groups:write"}, {"audit:read"}} :
                             GroupAnswer(t, g, need, tenant) # 200
                        /\ \A need \in FleetRoutes : FleetAnswer(t, need, tenant) # 200
      BY DEF LegacyOnlyReads
    <3>1. ScopesOf(t) = {"groups:read"} BY DEF ScopesOf, LegacyScopes
    <3>2. \A need \in {{"groups:write"}, {"audit:read"}} \cup FleetRoutes : ~(need \subseteq ScopesOf(t))
      BY <3>1 DEF FleetRoutes
    <3>3. ASSUME NEW g \in Groups, NEW need \in {{"groups:write"}, {"audit:read"}}
          PROVE  GroupAnswer(t, g, need, tenant) # 200
      <4>1. ~(need \subseteq ScopesOf(t)) BY <3>2
      <4> QED BY <4>1 DEF GroupAnswer
    <3>4. ASSUME NEW need \in FleetRoutes PROVE FleetAnswer(t, need, tenant) # 200
      <4>1. ~(need \subseteq ScopesOf(t)) BY <3>2
      <4> QED BY <4>1 DEF FleetAnswer
    <3> QED BY <3>3, <3>4
  <2>4. OwnerGetsIn
    BY DEF OwnerGetsIn, FleetAnswer, IsBotAdmin, ScopesOf, AccessInv, Sound
  <2> QED BY <2>1, <2>2, <2>3, <2>4, StrangersAlike DEF AccessHolds
<1> QED BY AccessInvInit, AccessInvNext, <1>1, PTL DEF AccessSpec

-----------------------------------------------------------------------------
(* Members.                                                                *)
(*                                                                         *)
(* A date in the register was witnessed: only the join handler writes one, *)
(* and a member's upserts carry it along.                                  *)
\* A handler is where its update may take it.
TasksFit ==
  \A h \in Handlers :
    /\ task[h].at \in {"mark", "marking"} => task[h].update.kind = "left"
    /\ task[h].at \in {"join", "media"} => task[h].update.kind = task[h].at

\* A known date of arrival is one at which an arrival was handled.
DatesWitnessed ==
  \A u \in People :
    member[u] # Absent /\ member[u].joined # Absent =>
      member[u].joined \in witnessed[u] /\ member[u].joined <= hour

MembersInv == MembersTyped /\ TasksFit /\ DatesWitnessed /\ OnlyNewcomersRestricted

\* Whom an update is about, by what it says.
LEMMA UpdatesName ==
  ASSUME NEW update \in Updates
  PROVE  /\ update.from \in Senders
         /\ update.kind \in {"join", "left"} => update.who \in People
         /\ update.kind \in {"text", "media"} => update.from \in People
         /\ update.kind \in {"join", "left", "text", "media"}
BY DEF Updates, Senders

\* What a handler that is not idle has at hand.
LEMMA AtHand ==
  ASSUME MembersInv, NEW h \in Handlers, task[h].at # "idle"
  PROVE  /\ task[h] \in [at : Stages, update : Updates]
         /\ From(h) \in Senders
         /\ task[h].at \in {"mark", "marking", "join"} => Update(h).who \in People
         /\ task[h].at = "media" => From(h) \in People
<1>1. task[h] \in {Idle} \cup [at : Stages, update : Updates] BY DEF MembersInv, MembersTyped
<1>2. task[h] # Idle BY DEF Idle
<1>3. task[h].update \in Updates BY <1>1, <1>2
<1> QED BY <1>1, <1>2, <1>3, UpdatesName DEF MembersInv, TasksFit, From, Update

\* A handler goes on to a stage of its update, or is done.
LEMMA GotoFits ==
  ASSUME MembersInv, NEW h \in Handlers, task[h].at # "idle", NEW next \in Stages,
         Goto(h, next),
         next \in {"mark", "marking"} => Update(h).kind = "left",
         next \in {"join", "media"} => Update(h).kind = next
  PROVE  task' \in [Handlers -> {Idle} \cup [at : Stages, update : Updates]] /\ TasksFit'
<1> DEFINE to == [task[h] EXCEPT !.at = next]
<1>1. task \in [Handlers -> {Idle} \cup [at : Stages, update : Updates]]
  BY DEF MembersInv, MembersTyped
<1>2. task[h] \in [at : Stages, update : Updates] BY AtHand
<1>3. to \in [at : Stages, update : Updates] /\ to.at = next /\ to.update = task[h].update
  BY <1>2
<1>4. task' = [task EXCEPT ![h] = to] BY DEF Goto
<1> HIDE DEF to
<1>5. \A g \in Handlers : task'[g] = IF g = h THEN to ELSE task[g] BY <1>1, <1>4
<1>6. task' \in [Handlers -> {Idle} \cup [at : Stages, update : Updates]] BY <1>1, <1>3, <1>4
<1> QED BY <1>3, <1>5, <1>6 DEF MembersInv, TasksFit, Update

LEMMA DoneFits ==
  ASSUME MembersInv, NEW h \in Handlers, Done(h)
  PROVE  task' \in [Handlers -> {Idle} \cup [at : Stages, update : Updates]] /\ TasksFit'
<1>1. task \in [Handlers -> {Idle} \cup [at : Stages, update : Updates]]
  BY DEF MembersInv, MembersTyped
<1>2. \A g \in Handlers : task'[g] = IF g = h THEN Idle ELSE task[g] BY <1>1 DEF Done
<1>3. task' \in [Handlers -> {Idle} \cup [at : Stages, update : Updates]] BY <1>1 DEF Done
<1> QED BY <1>2, <1>3 DEF MembersInv, TasksFit, Idle

LEMMA AfterRecordFits ==
  ASSUME MembersInv, NEW h \in Handlers, task[h].at # "idle", AfterRecord(h)
  PROVE  task' \in [Handlers -> {Idle} \cup [at : Stages, update : Updates]] /\ TasksFit'
<1>1. CASE Update(h).kind = "join" BY <1>1, GotoFits DEF AfterRecord, Stages
<1>2. CASE Update(h).kind = "media" BY <1>2, GotoFits DEF AfterRecord, Stages
<1>3. CASE Update(h).kind \notin {"join", "media"} BY <1>3, DoneFits DEF AfterRecord
<1> QED BY <1>1, <1>2, <1>3

\* A write of a row keeps the date it holds, or holds none.
KeepsDate(old, new) ==
  /\ new \in Row \cup {Absent}
  /\ new # Absent /\ new.joined # Absent => old # Absent /\ new.joined = old.joined
  /\ old # Absent /\ old.joined # Absent => new.joined = old.joined

LEMMA KeptDates ==
  ASSUME MembersInv, NEW u \in Senders, NEW new, KeepsDate(member[u], new),
         member' = [member EXCEPT ![u] = new], UNCHANGED <<witnessed, hour>>
  PROVE  member' \in [Senders -> Row \cup {Absent}] /\ DatesWitnessed' /\ ClockStands
<1>1. member \in [Senders -> Row \cup {Absent}] BY DEF MembersInv, MembersTyped
<1>2. \A v \in Senders : member'[v] = IF v = u THEN new ELSE member[v] BY <1>1
<1>3. member' \in [Senders -> Row \cup {Absent}] BY <1>1 DEF KeepsDate
<1>4. People \subseteq Senders BY DEF Senders
<1> QED BY <1>2, <1>3, <1>4 DEF MembersInv, DatesWitnessed, ClockStands, KeepsDate

LEMMA StampKeeps ==
  ASSUME MembersInv, NEW u \in People, StampLeft(u), UNCHANGED <<witnessed, hour>>
  PROVE  member' \in [Senders -> Row \cup {Absent}] /\ DatesWitnessed' /\ ClockStands
<1>1. member \in [Senders -> Row \cup {Absent}] /\ u \in Senders
  BY DEF MembersInv, MembersTyped, Senders
<1>2. CASE member[u] = Absent
  BY <1>1, <1>2 DEF StampLeft, MembersInv, DatesWitnessed, ClockStands
<1>3. CASE member[u] # Absent
  <2> DEFINE new == [member[u] EXCEPT !.left = TRUE]
  <2>1. member[u] \in Row BY <1>1, <1>3
  <2>2. new \in Row /\ new.joined = member[u].joined BY <2>1 DEF Row
  <2>3. member' = [member EXCEPT ![u] = new] BY <1>3 DEF StampLeft
  <2> HIDE DEF new
  <2>4. KeepsDate(member[u], new) BY <1>3, <2>2 DEF KeepsDate
  <2> QED BY <1>1, <2>3, <2>4, KeptDates
<1> QED BY <1>2, <1>3

LEMMA UpsertKeeps ==
  ASSUME MembersInv, NEW u \in Senders,
         member' = [member EXCEPT ![u] = Membership(@)], UNCHANGED <<witnessed, hour>>
  PROVE  member' \in [Senders -> Row \cup {Absent}] /\ DatesWitnessed' /\ ClockStands
<1>1. member[u] \in Row \cup {Absent} BY DEF MembersInv, MembersTyped
<1>2. Membership(member[u]) \in Row BY <1>1 DEF Membership, Row
<1>3. KeepsDate(member[u], Membership(member[u]))
  BY <1>1, <1>2 DEF KeepsDate, Membership
<1> QED BY <1>3, KeptDates

\* Media that is deleted is its sender's, who is known by the date of an arrival.
LEMMA EnforceSound ==
  ASSUME MembersInv, NEW h \in Handlers, Enforce(h)
  PROVE  deleted' \subseteq People \X (0..MaxHours) /\ OnlyNewcomersRestricted'
<1>1. From(h) \in People BY AtHand DEF Enforce, At
<1>2. UNCHANGED witnessed /\ hour \in 0..MaxHours
  BY DEF Enforce, MembersInv, MembersTyped
<1>3. CASE Restricted(From(h))
  <2> DEFINE d == <<From(h), hour>>
             t == member[From(h)].joined
  <2>1. deleted' = deleted \cup {d} BY <1>3 DEF Enforce
  <2>2. t \in witnessed[From(h)] /\ t <= hour /\ hour - t < Window
    BY <1>1, <1>3 DEF Restricted, MembersInv, DatesWitnessed
  <2>3. \E s \in witnessed[d[1]] : s <= d[2] /\ d[2] - s < Window BY <2>2
  <2>4. d \in People \X (0..MaxHours) BY <1>1, <1>2
  <2> HIDE DEF d
  <2> QED BY <1>2, <2>1, <2>3, <2>4 DEF MembersInv, MembersTyped, OnlyNewcomersRestricted
<1>4. CASE ~Restricted(From(h))
  BY <1>2, <1>4 DEF Enforce, MembersInv, MembersTyped, OnlyNewcomersRestricted
<1> QED BY <1>3, <1>4

\* A join is dated once, by the moment its handler writes.
LEMMA RecordJoinSound ==
  ASSUME MembersInv, NEW h \in Handlers, RecordJoin(h)
  PROVE  /\ member' \in [Senders -> Row \cup {Absent}] /\ DatesWitnessed' /\ ClockStands
         /\ witnessed' \in [People -> SUBSET (0..MaxHours)] /\ OnlyNewcomersRestricted'
<1> DEFINE u == Update(h).who
<1>1. u \in People BY AtHand DEF RecordJoin, At
<1>2. /\ member \in [Senders -> Row \cup {Absent}] /\ hour \in 0..MaxHours
      /\ witnessed \in [People -> SUBSET (0..MaxHours)] /\ People \subseteq Senders
  BY DEF MembersInv, MembersTyped, Senders
<1>3. witnessed' = [witnessed EXCEPT ![u] = @ \cup {hour}] /\ UNCHANGED <<hour, deleted>>
  BY DEF RecordJoin
<1>4. member' = [member EXCEPT ![u] = Arrival(@)] \/ UNCHANGED member BY DEF RecordJoin
<1> HIDE DEF u
<1>5. \A v \in People : witnessed'[v] = witnessed[v] \cup (IF v = u THEN {hour} ELSE {})
  BY <1>2, <1>3
<1>6. witnessed' \in [People -> SUBSET (0..MaxHours)] BY <1>2, <1>3
<1>7. OnlyNewcomersRestricted'
  <2>1. \A d \in deleted : d[1] \in People BY DEF MembersInv, MembersTyped
  <2> QED BY <1>3, <1>5, <2>1 DEF MembersInv, OnlyNewcomersRestricted
<1>8. CASE UNCHANGED member
  BY <1>2, <1>3, <1>5, <1>6, <1>7, <1>8 DEF MembersInv, DatesWitnessed, ClockStands
<1>9. CASE member' = [member EXCEPT ![u] = Arrival(@)]
  <2> DEFINE old == member[u]
             new == Arrival(old)
  <2>1. old \in Row \cup {Absent} BY <1>1, <1>2
  <2>2. /\ new \in Row
        /\ new.joined = IF old = Absent \/ old.joined = Absent THEN hour ELSE old.joined
    <3>1. CASE old = Absent BY <1>2, <3>1 DEF Arrival, Row
    <3>2. CASE old # Absent /\ old.joined = Absent
      <4>1. new = [old EXCEPT !.joined = hour] /\ old \in Row BY <2>1, <3>2 DEF Arrival
      <4> QED BY <1>2, <3>2, <4>1 DEF Row
    <3>3. CASE old # Absent /\ old.joined # Absent BY <2>1, <3>3 DEF Arrival
    <3> QED BY <3>1, <3>2, <3>3
  <2>3. member' = [member EXCEPT ![u] = new] BY <1>9
  <2> HIDE DEF new
  <2>4. \A v \in Senders : member'[v] = IF v = u THEN new ELSE member[v] BY <1>2, <2>3
  <2>5. member' \in [Senders -> Row \cup {Absent}] BY <1>2, <2>2, <2>3
  <2>6. ClockStands BY <1>2, <2>2, <2>4 DEF ClockStands
  <2>7. DatesWitnessed'
    <3> SUFFICES ASSUME NEW v \in People, member'[v] # Absent, member'[v].joined # Absent
                 PROVE  member'[v].joined \in witnessed'[v] /\ member'[v].joined <= hour'
      BY DEF DatesWitnessed
    <3>1. CASE v # u
      BY <1>2, <1>3, <1>5, <2>4, <3>1 DEF MembersInv, DatesWitnessed
    <3>2. CASE v = u /\ (old = Absent \/ old.joined = Absent)
      BY <1>2, <1>3, <1>5, <2>2, <2>4, <3>2
    <3>3. CASE v = u /\ old # Absent /\ old.joined # Absent
      BY <1>2, <1>3, <1>5, <2>2, <2>4, <3>3 DEF MembersInv, DatesWitnessed
    <3> QED BY <3>1, <3>2, <3>3
  <2> QED BY <1>6, <1>7, <2>5, <2>6, <2>7
<1> QED BY <1>4, <1>8, <1>9

LEMMA MembersInvInit == MembersInit => MembersInv
<1> SUFFICES ASSUME MembersInit PROVE MembersInv OBVIOUS
<1>1. MembersTyped
  <2>1. task \in [Handlers -> {Idle} \cup [at : Stages, update : Updates]] BY DEF MembersInit
  <2>2. fan \in [todo : SUBSET Senders, gone : People \cup {Absent}] BY DEF MembersInit
  <2>3. /\ member \in [Senders -> Row \cup {Absent}] /\ memo \in [Gateways -> SUBSET Senders]
        /\ witnessed \in [People -> SUBSET (0..MaxHours)]
    BY DEF MembersInit
  <2>4. present \subseteq People /\ inbox \subseteq Updates /\ deleted = {} /\ failed = FALSE
    BY DEF MembersInit
  <2>5. hour \in 0..MaxHours /\ sent \in 0..MaxUpdates BY MembersAssumption DEF MembersInit
  <2> QED BY <2>1, <2>2, <2>3, <2>4, <2>5 DEF MembersTyped
<1>2. TasksFit BY DEF MembersInit, TasksFit, Idle
<1>3. DatesWitnessed BY DEF MembersInit, DatesWitnessed, Senders
<1>4. OnlyNewcomersRestricted BY DEF MembersInit, OnlyNewcomersRestricted
<1> QED BY <1>1, <1>2, <1>3, <1>4 DEF MembersInv

\* What is said of the register holds in the next state if nothing it is about
\* changes.
LEMMA RegisterStands ==
  ASSUME MembersInv, UNCHANGED <<member, witnessed, deleted>>, hour' \in Nat, hour' >= hour
  PROVE  DatesWitnessed' /\ OnlyNewcomersRestricted' /\ ClockStands
<1>1. /\ hour \in Nat /\ member \in [Senders -> Row \cup {Absent}]
      /\ People \subseteq Senders
  BY MembersAssumption DEF MembersInv, MembersTyped, Senders
<1>2. OnlyNewcomersRestricted' BY DEF MembersInv, OnlyNewcomersRestricted
<1>3. ClockStands BY DEF ClockStands
<1>4. DatesWitnessed'
  <2> SUFFICES ASSUME NEW u \in People, member[u] # Absent, member[u].joined # Absent
               PROVE  member[u].joined \in witnessed[u] /\ member[u].joined <= hour'
    BY DEF DatesWitnessed
  <2>1. member[u].joined \in 0..MaxHours BY <1>1 DEF Row
  <2>2. member[u].joined \in witnessed[u] /\ member[u].joined <= hour
    BY DEF MembersInv, DatesWitnessed
  <2> QED BY <1>1, <2>1, <2>2
<1> QED BY <1>2, <1>3, <1>4

\* Every step keeps the invariant, and no date is changed by it.
LEMMA MembersInvNext == MembersInv /\ [MembersNext]_membersVars => MembersInv' /\ ClockStands
<1> SUFFICES ASSUME MembersInv, [MembersNext]_membersVars PROVE MembersInv' /\ ClockStands
  OBVIOUS
<1> USE MembersAssumption
<1>h. hour \in Nat BY DEF MembersInv, MembersTyped
<1>t. task \in [Handlers -> {Idle} \cup [at : Stages, update : Updates]]
  BY DEF MembersInv, MembersTyped
<1>1. ASSUME NEW update \in Updates, NEW members \in SUBSET People, Happens(update, members)
      PROVE  MembersInv' /\ ClockStands
  <2>1. DatesWitnessed' /\ OnlyNewcomersRestricted' /\ ClockStands
    BY <1>1, <1>h, RegisterStands DEF Happens
  <2>2. MembersTyped' BY <1>1 DEF Happens, MembersInv, MembersTyped
  <2> QED BY <1>1, <2>1, <2>2 DEF Happens, MembersInv, TasksFit
<1>2. ASSUME NEW u \in People, NEW by \in Senders, Join(u, by) \/ Leave(u, by)
      PROVE  MembersInv' /\ ClockStands
  <2>1. [kind |-> "join", who |-> u, from |-> by] \in Updates
        /\ [kind |-> "left", who |-> u, from |-> by] \in Updates BY DEF Updates
  <2>2. present \cup {u} \in SUBSET People /\ present \ {u} \in SUBSET People
    BY DEF MembersInv, MembersTyped
  <2> QED BY <1>1, <1>2, <2>1, <2>2 DEF Join, Leave
<1>3. ASSUME NEW u \in People, NEW kind \in {"text", "media"}, Talk(u, kind)
      PROVE  MembersInv' /\ ClockStands
  <2>1. [kind |-> kind, from |-> u] \in Updates BY DEF Updates
  <2>2. present \in SUBSET People BY DEF MembersInv, MembersTyped
  <2> QED BY <1>1, <1>3, <2>1, <2>2 DEF Talk
<1>4. CASE HourPasses
  <2>1. hour' \in 0..MaxHours /\ hour' \in Nat /\ hour' >= hour
    BY <1>4, <1>h DEF HourPasses, MembersInv, MembersTyped
  <2>2. DatesWitnessed' /\ OnlyNewcomersRestricted' /\ ClockStands
    BY <1>4, <2>1, RegisterStands DEF HourPasses
  <2>3. MembersTyped' BY <1>4, <2>1 DEF HourPasses, MembersInv, MembersTyped
  <2> QED BY <1>4, <2>2, <2>3 DEF HourPasses, MembersInv, TasksFit
<1>5. ASSUME NEW h \in Handlers, NEW update \in inbox, Take(h, update)
      PROVE  MembersInv' /\ ClockStands
  <2> DEFINE new == [at |-> IF update.kind = "left" THEN "mark" ELSE "record", update |-> update]
  <2>1. update \in Updates /\ inbox' \subseteq Updates
    BY <1>5 DEF Take, MembersInv, MembersTyped
  <2>2. new \in [at : Stages, update : Updates] BY <2>1 DEF Stages
  <2>3. task' \in [Handlers -> {Idle} \cup [at : Stages, update : Updates]]
    BY <1>5, <1>t, <2>2 DEF Take
  <2>4. \A g \in Handlers : task'[g] = IF g = h THEN new ELSE task[g] BY <1>5, <1>t DEF Take
  <2>5. TasksFit' BY <2>4 DEF MembersInv, TasksFit
  <2>6. DatesWitnessed' /\ OnlyNewcomersRestricted' /\ ClockStands
    BY <1>5, <1>h, RegisterStands DEF Take
  <2>7. MembersTyped' BY <1>5, <2>1, <2>3 DEF Take, MembersInv, MembersTyped
  <2> QED BY <2>5, <2>6, <2>7 DEF MembersInv
<1>6. ASSUME NEW h \in Handlers, Forget(h) PROVE MembersInv' /\ ClockStands
  <2>1. task[h].at = "mark" /\ Update(h).kind = "left"
    BY <1>6 DEF Forget, At, MembersInv, TasksFit, Update
  <2>2. task' \in [Handlers -> {Idle} \cup [at : Stages, update : Updates]] /\ TasksFit'
    BY <1>6, <2>1, GotoFits DEF Forget, Stages
  <2>3. memo' \in [Gateways -> SUBSET Senders] BY <1>6 DEF Forget, MembersInv, MembersTyped
  <2>4. DatesWitnessed' /\ OnlyNewcomersRestricted' /\ ClockStands
    BY <1>6, <1>h, RegisterStands DEF Forget
  <2>5. MembersTyped' BY <1>6, <2>2, <2>3 DEF Forget, MembersInv, MembersTyped
  <2> QED BY <2>2, <2>4, <2>5 DEF MembersInv
<1>7. ASSUME NEW h \in Handlers, MarkLeft(h) PROVE MembersInv' /\ ClockStands
  <2>1. task[h].at = "marking" BY <1>7 DEF MarkLeft, At
  <2>2. Update(h).who \in People BY <2>1, AtHand
  <2>3. task' \in [Handlers -> {Idle} \cup [at : Stages, update : Updates]] /\ TasksFit'
    BY <1>7, <2>1, GotoFits DEF MarkLeft, Stages
  <2>4. member' \in [Senders -> Row \cup {Absent}] /\ DatesWitnessed' /\ ClockStands
    <3>1. CASE StampLeft(Update(h).who) BY <1>7, <2>2, <3>1, StampKeeps DEF MarkLeft
    <3>2. CASE UNCHANGED member
      BY <1>7, <1>h, <3>2, RegisterStands DEF MarkLeft, MembersInv, MembersTyped
    <3> QED BY <1>7, <3>1, <3>2 DEF MarkLeft
  <2>5. failed' \in BOOLEAN BY <1>7 DEF MarkLeft, MembersInv, MembersTyped
  <2>6. MembersTyped' BY <1>7, <2>3, <2>4, <2>5 DEF MarkLeft, MembersInv, MembersTyped
  <2>7. OnlyNewcomersRestricted' BY <1>7 DEF MarkLeft, MembersInv, OnlyNewcomersRestricted
  <2> QED BY <2>3, <2>4, <2>6, <2>7 DEF MembersInv
<1>8. ASSUME NEW h \in Handlers, RecordSender(h) PROVE MembersInv' /\ ClockStands
  <2>1. task[h].at = "record" BY <1>8 DEF RecordSender, At
  <2>2. task' \in [Handlers -> {Idle} \cup [at : Stages, update : Updates]] /\ TasksFit'
    BY <1>8, <2>1, AfterRecordFits, GotoFits DEF RecordSender, Stages
  <2>3. DatesWitnessed' /\ OnlyNewcomersRestricted' /\ ClockStands
    BY <1>8, <1>h, RegisterStands DEF RecordSender
  <2>4. MembersTyped' BY <1>8, <2>2 DEF RecordSender, MembersInv, MembersTyped
  <2> QED BY <2>2, <2>3, <2>4 DEF MembersInv
<1>9. ASSUME NEW h \in Handlers, Upsert(h) PROVE MembersInv' /\ ClockStands
  <2>1. task[h].at = "upsert" BY <1>9 DEF Upsert, At
  <2>2. From(h) \in Senders BY <2>1, AtHand
  <2>3. task' \in [Handlers -> {Idle} \cup [at : Stages, update : Updates]] /\ TasksFit'
    BY <1>9, <2>1, AfterRecordFits, GotoFits DEF Upsert, Stages
  <2>4. member' \in [Senders -> Row \cup {Absent}] /\ DatesWitnessed' /\ ClockStands
    <3>1. CASE member' = [member EXCEPT ![From(h)] = Membership(@)]
      BY <1>9, <2>2, <3>1, UpsertKeeps DEF Upsert
    <3>2. CASE UNCHANGED member
      BY <1>9, <1>h, <3>2, RegisterStands DEF Upsert, MembersInv, MembersTyped
    <3> QED BY <1>9, <3>1, <3>2 DEF Upsert
  <2>5. failed' \in BOOLEAN BY <1>9 DEF Upsert, MembersInv, MembersTyped
  <2>6. MembersTyped' BY <1>9, <2>3, <2>4, <2>5 DEF Upsert, MembersInv, MembersTyped
  <2>7. OnlyNewcomersRestricted' BY <1>9 DEF Upsert, MembersInv, OnlyNewcomersRestricted
  <2> QED BY <2>3, <2>4, <2>6, <2>7 DEF MembersInv
<1>10. ASSUME NEW h \in Handlers, Remember(h) PROVE MembersInv' /\ ClockStands
  <2>1. task[h].at = "remember" BY <1>10 DEF Remember, At
  <2>2. From(h) \in Senders BY <2>1, AtHand
  <2>3. task' \in [Handlers -> {Idle} \cup [at : Stages, update : Updates]] /\ TasksFit'
    BY <1>10, <2>1, AfterRecordFits DEF Remember
  <2>4. memo' \in [Gateways -> SUBSET Senders]
    BY <1>10, <2>2 DEF Remember, MembersInv, MembersTyped
  <2>5. DatesWitnessed' /\ OnlyNewcomersRestricted' /\ ClockStands
    BY <1>10, <1>h, RegisterStands DEF Remember
  <2>6. MembersTyped' BY <1>10, <2>3, <2>4 DEF Remember, MembersInv, MembersTyped
  <2> QED BY <2>3, <2>5, <2>6 DEF MembersInv
<1>11. ASSUME NEW h \in Handlers, RecordJoin(h) PROVE MembersInv' /\ ClockStands
  <2>1. /\ member' \in [Senders -> Row \cup {Absent}] /\ DatesWitnessed' /\ ClockStands
        /\ witnessed' \in [People -> SUBSET (0..MaxHours)] /\ OnlyNewcomersRestricted'
    BY <1>11, RecordJoinSound
  <2>2. task' \in [Handlers -> {Idle} \cup [at : Stages, update : Updates]] /\ TasksFit'
    BY <1>11, DoneFits DEF RecordJoin
  <2>3. failed' \in BOOLEAN BY <1>11 DEF RecordJoin, MembersInv, MembersTyped
  <2>4. MembersTyped' BY <1>11, <2>1, <2>2, <2>3 DEF RecordJoin, MembersInv, MembersTyped
  <2> QED BY <2>1, <2>2, <2>4 DEF MembersInv
<1>12. ASSUME NEW h \in Handlers, Enforce(h) PROVE MembersInv' /\ ClockStands
  <2>1. deleted' \subseteq People \X (0..MaxHours) /\ OnlyNewcomersRestricted'
    BY <1>12, EnforceSound
  <2>2. task' \in [Handlers -> {Idle} \cup [at : Stages, update : Updates]] /\ TasksFit'
    BY <1>12, DoneFits DEF Enforce
  <2>3. DatesWitnessed' /\ ClockStands
    BY <1>12 DEF Enforce, MembersInv, DatesWitnessed, ClockStands
  <2>4. MembersTyped' BY <1>12, <2>1, <2>2 DEF Enforce, MembersInv, MembersTyped
  <2> QED BY <2>1, <2>2, <2>3, <2>4 DEF MembersInv
<1>13. ASSUME FanOut \/ \E u \in People : FanAsk(u) PROVE MembersInv' /\ ClockStands
  <2>1. fan' \in [todo : SUBSET Senders, gone : People \cup {Absent}]
    <3>1. fan \in [todo : SUBSET Senders, gone : People \cup {Absent}] /\ People \subseteq Senders
      BY DEF MembersInv, MembersTyped, Senders
    <3>2. CASE FanOut BY <3>1, <3>2 DEF FanOut
    <3>3. ASSUME NEW u \in People, FanAsk(u)
          PROVE  fan' \in [todo : SUBSET Senders, gone : People \cup {Absent}]
      BY <3>1, <3>3 DEF FanAsk
    <3> QED BY <1>13, <3>2, <3>3
  <2>2. UNCHANGED <<hour, present, inbox, sent, member, memo, task, witnessed, deleted, failed>>
    BY <1>13 DEF FanOut, FanAsk
  <2>3. DatesWitnessed' /\ OnlyNewcomersRestricted' /\ ClockStands
    BY <1>h, <2>2, RegisterStands
  <2>4. MembersTyped' BY <2>1, <2>2 DEF MembersInv, MembersTyped
  <2> QED BY <2>2, <2>3, <2>4 DEF MembersInv, TasksFit
<1>14. CASE FanMark
  <2>1. fan \in [todo : SUBSET Senders, gone : People \cup {Absent}] /\ fan.gone \in People
    BY <1>14 DEF FanMark, MembersInv, MembersTyped
  <2>2. fan' \in [todo : SUBSET Senders, gone : People \cup {Absent}] BY <1>14, <2>1 DEF FanMark
  <2>3. member' \in [Senders -> Row \cup {Absent}] /\ DatesWitnessed' /\ ClockStands
    BY <1>14, <2>1, StampKeeps DEF FanMark
  <2>4. MembersTyped' BY <1>14, <2>2, <2>3 DEF FanMark, MembersInv, MembersTyped
  <2> QED BY <1>14, <2>3, <2>4 DEF FanMark, MembersInv, TasksFit, OnlyNewcomersRestricted
<1>15. ASSUME NEW r \in Gateways, RestartGateway(r) PROVE MembersInv' /\ ClockStands
  <2>1. memo' \in [Gateways -> SUBSET Senders] /\ failed' \in BOOLEAN
    BY <1>15 DEF RestartGateway, MembersInv, MembersTyped
  <2>2. task' \in [Handlers -> {Idle} \cup [at : Stages, update : Updates]]
    BY <1>15, <1>t DEF RestartGateway
  <2>3. \A h \in Handlers : task'[h] \in {Idle, task[h]} BY <1>15 DEF RestartGateway
  <2>4. TasksFit' BY <2>3 DEF MembersInv, TasksFit, Idle
  <2>5. DatesWitnessed' /\ OnlyNewcomersRestricted' /\ ClockStands
    BY <1>15, <1>h, RegisterStands DEF RestartGateway
  <2>6. MembersTyped' BY <1>15, <2>1, <2>2 DEF RestartGateway, MembersInv, MembersTyped
  <2> QED BY <2>4, <2>5, <2>6 DEF MembersInv
<1>16. CASE UNCHANGED membersVars
  BY <1>16, <1>h, RegisterStands DEF membersVars, MembersInv, MembersTyped, TasksFit
<1> QED
  <2>1. inbox \subseteq Updates BY DEF MembersInv, MembersTyped
  <2> QED BY <1>2, <1>3, <1>4, <1>5, <1>6, <1>7, <1>8, <1>9, <1>10, <1>11, <1>12, <1>13, <1>14,
             <1>15, <1>16 DEF MembersNext

\* Only media of somebody whose arrival was handled less than the window ago is
\* deleted, for every number of members, handlers and replicas and every window
\* (mediarestrict.py).
THEOREM OnlyNewcomersSuffer == MembersSpec => []OnlyNewcomersRestricted
<1>1. MembersInv => OnlyNewcomersRestricted BY DEF MembersInv
<1> QED BY MembersInvInit, MembersInvNext, <1>1, PTL DEF MembersSpec

\* No step of any handler, job or restart changes a known date of arrival
\* (members.py).
THEOREM DatesStand == MembersSpec => ClockKept
<1>1. MembersInv /\ [MembersNext]_membersVars => [ClockStands]_membersVars BY MembersInvNext
<1> QED BY MembersInvInit, MembersInvNext, <1>1, PTL DEF MembersSpec, ClockKept

-----------------------------------------------------------------------------
(* Sums.                                                                   *)
(*                                                                         *)
(* A fold over a set is a function defined by recursion on its subsets.    *)
(* That there is one is shown here for sums, by the sizes of the subsets,  *)
(* and that the order in which the elements are chosen does not matter.    *)
Adds(F, v, A) ==
  F = [s \in SUBSET A |-> IF s = {} THEN 0
                          ELSE v[CHOOSE x \in s : TRUE] + F[s \ {CHOOSE x \in s : TRUE}]]
Total(v, S) == (CHOOSE F : Adds(F, v, S))[S]

\* A set of naturals has a least element.
LEMMA LeastOf ==
  ASSUME NEW T, T \subseteq Nat, T # {}
  PROVE  \E x \in T : \A y \in T : x <= y
<1> DEFINE R == OpToRel(<, Nat)
<1>1. \E x \in T : \A y \in T : <<y, x>> \notin R BY NatLessThanWellFounded, WFMin
<1>2. \A x, y \in Nat : y < x => <<y, x>> \in R BY DEF OpToRel
<1> HIDE DEF R
<1>3. PICK x \in T : \A y \in T : ~(y < x) BY <1>1, <1>2
<1> QED BY <1>3

\* Whatever is of every size if it is of the next one is of the size at hand.
LEMMA EverySize ==
  ASSUME NEW Q, 0 \in Q, \A n \in Nat : n \in Q => n + 1 \in Q
  PROVE  Nat \subseteq Q
<1> SUFFICES ASSUME Nat \ Q # {} PROVE FALSE OBVIOUS
<1>1. PICK n \in Nat \ Q : \A m \in Nat \ Q : n <= m BY LeastOf
<1>2. n # 0 /\ n - 1 \in Nat BY <1>1
<1>3. n - 1 \in Q BY <1>1, <1>2
<1> QED BY <1>1, <1>2, <1>3

LEMMA OneLess ==
  ASSUME NEW s, IsFiniteSet(s), NEW x \in s
  PROVE  /\ IsFiniteSet(s \ {x}) /\ Cardinality(s \ {x}) \in Nat
         /\ Cardinality(s) = Cardinality(s \ {x}) + 1
<1>1. IsFiniteSet(s \ {x}) /\ Cardinality(s \ {x}) = Cardinality(s) - 1 BY FS_RemoveElement
<1>2. Cardinality(s) \in Nat /\ Cardinality(s \ {x}) \in Nat BY <1>1, FS_CardinalityType
<1> QED BY <1>1, <1>2

\* What is so of a set if it is so of all its proper subsets is so of every finite set;
LEMMA BySize ==
  ASSUME NEW S, IsFiniteSet(S), NEW Q,
         \A s \in SUBSET S : (\A r \in SUBSET s : r # s => r \in Q) => s \in Q
  PROVE  \A s \in SUBSET S : s \in Q
<1> DEFINE B == {s \in SUBSET S : s \notin Q}
           T == {Cardinality(s) : s \in B}
<1> SUFFICES ASSUME B # {} PROVE FALSE OBVIOUS
<1>1. \A s \in SUBSET S : IsFiniteSet(s) /\ Cardinality(s) \in Nat
  BY FS_Subset, FS_CardinalityType
<1>2. T \subseteq Nat /\ T # {} BY <1>1
<1> HIDE DEF T
<1>3. PICK n \in T : \A m \in T : n <= m BY <1>2, LeastOf
<1>4. PICK s \in B : Cardinality(s) = n BY DEF T
<1>5. ASSUME NEW r \in SUBSET s, r # s PROVE r \in Q
  <2>1. r \in SUBSET S /\ s \in SUBSET S BY <1>4
  <2>2. Cardinality(r) <= Cardinality(s) /\ Cardinality(r) # Cardinality(s)
    BY <1>1, <1>5, <2>1, FS_Subset
  <2>3. ~ (n <= Cardinality(r)) BY <1>1, <1>4, <2>1, <2>2
  <2>4. r \notin B BY <1>3, <2>3 DEF T
  <2> QED BY <2>1, <2>4
<1> QED BY <1>4, <1>5

\* ... and what goes from a set to one more element, beginning with none.
LEMMA BySteps ==
  ASSUME NEW S, IsFiniteSet(S), NEW Q, {} \in Q,
         \A s \in SUBSET S : \A x \in s : s \ {x} \in Q => s \in Q
  PROVE  \A s \in SUBSET S : s \in Q
<1>1. ASSUME NEW s \in SUBSET S, \A r \in SUBSET s : r # s => r \in Q PROVE s \in Q
  <2>1. CASE s # {}
    <3>1. PICK x : x \in s BY <2>1
    <3>2. s \ {x} \in SUBSET s /\ s \ {x} # s BY <3>1
    <3> QED BY <1>1, <3>1, <3>2
  <2> QED BY <2>1
<1> QED BY <1>1, BySize

LEMMA SumExists ==
  ASSUME NEW A, IsFiniteSet(A), NEW v
  PROVE  \E F : Adds(F, v, A)
<1> DEFINE Small(n) == {s \in SUBSET A : Cardinality(s) <= n}
           Step(F, s) == IF s = {} THEN 0
                         ELSE v[CHOOSE x \in s : TRUE] + F[s \ {CHOOSE x \in s : TRUE}]
           Q == {n \in Nat : \E F : F = [s \in Small(n) |-> Step(F, s)]}
<1>1. \A s \in SUBSET A : IsFiniteSet(s) /\ Cardinality(s) \in Nat
  BY FS_Subset, FS_CardinalityType
<1>2. 0 \in Q
  <2>1. Small(0) = {{}} BY <1>1, FS_EmptySet
  <2>2. PICK F : F = [s \in Small(0) |-> 0] OBVIOUS
  <2>3. F = [s \in Small(0) |-> Step(F, s)] BY <2>1, <2>2
  <2> QED BY <2>3
<1>3. ASSUME NEW n \in Nat, n \in Q PROVE n + 1 \in Q
  <2>1. PICK F : F = [s \in Small(n) |-> Step(F, s)] BY <1>3
  <2>2. PICK G : G = [s \in Small(n + 1) |-> Step(F, s)] OBVIOUS
  <2>3. ASSUME NEW s \in Small(n + 1), s # {} 
        PROVE  F[s \ {CHOOSE x \in s : TRUE}] = G[s \ {CHOOSE x \in s : TRUE}]
    <3>1. PICK x : x = CHOOSE y \in s : TRUE OBVIOUS
    <3>2. x \in s BY <2>3, <3>1
    <3>3. s \ {x} \in Small(n) BY <1>1, <2>3, <3>2, OneLess
    <3>4. s \ {x} \in Small(n + 1) BY <1>1, <3>3
    <3> HIDE DEF Small, Step
    <3>5. F[s \ {x}] = Step(F, s \ {x}) BY <2>1, <3>3
    <3>6. G[s \ {x}] = Step(F, s \ {x}) BY <2>2, <3>4
    <3> QED BY <3>1, <3>5, <3>6
  <2>4. \A s \in Small(n + 1) : Step(F, s) = Step(G, s) BY <2>3
  <2> HIDE DEF Small, Step
  <2>5. G = [s \in Small(n + 1) |-> Step(G, s)] BY <2>2, <2>4
  <2> QED BY <2>5
<1> HIDE DEF Q
<1>4. Nat \subseteq Q BY <1>2, <1>3, EverySize
<1>5. PICK n : n = Cardinality(A) /\ n \in Nat BY FS_CardinalityType
<1>6. \A s \in SUBSET A : Cardinality(s) <= n BY <1>5, FS_Subset
<1>7. Small(n) = SUBSET A BY <1>6
<1>8. PICK F : F = [s \in Small(n) |-> Step(F, s)] BY <1>4, <1>5 DEF Q
<1>9. F = [s \in SUBSET A |-> Step(F, s)] BY <1>7, <1>8
<1> QED BY <1>9 DEF Adds

\* What a sum is, with any of its elements first.
LEMMA AnyFirst ==
  ASSUME NEW A, IsFiniteSet(A), NEW v, \A x \in A : v[x] \in Nat, NEW F, Adds(F, v, A)
  PROVE  /\ F[{}] = 0
         /\ \A s \in SUBSET A : F[s] \in Nat
         /\ \A s \in SUBSET A : \A x \in s : F[s] = v[x] + F[s \ {x}]
<1>2. F[{}] = 0 BY DEF Adds
<1>3. ASSUME NEW s \in SUBSET A, s # {}
      PROVE  \E c \in s : F[s] = v[c] + F[s \ {c}]
  <2>1. PICK c : c = CHOOSE x \in s : TRUE OBVIOUS
  <2>2. c \in s BY <1>3, <2>1
  <2>3. F[s] = v[c] + F[s \ {c}] BY <1>3, <2>1 DEF Adds
  <2> QED BY <2>2, <2>3
<1> DEFINE Q == {s \in SUBSET A : F[s] \in Nat /\ \A x \in s : F[s] = v[x] + F[s \ {x}]}
<1>4. ASSUME NEW s \in SUBSET A, \A r \in SUBSET s : r # s => r \in Q
      PROVE  s \in Q
  <2>1. CASE s = {} BY <1>2, <2>1
  <2>2. CASE s # {}
    <3>1. PICK c \in s : F[s] = v[c] + F[s \ {c}] BY <1>3, <2>2
    <3>2. ASSUME NEW x \in s
          PROVE  s \ {x} \in Q /\ v[x] \in Nat /\ F[s \ {x}] \in Nat
      <4>1. s \ {x} \in SUBSET s /\ s \ {x} # s BY <3>2
      <4> QED BY <1>4, <3>2, <4>1
    <3>3. F[s] \in Nat
      <4>1. v[c] \in Nat /\ F[s \ {c}] \in Nat BY <3>2
      <4> QED BY <3>1, <4>1
    <3>4. ASSUME NEW x \in s, x # c PROVE F[s] = v[x] + F[s \ {x}]
      <4>1. PICK rest : rest = (s \ {c}) \ {x} OBVIOUS
      <4>2. (s \ {x}) \ {c} = rest BY <4>1
      <4>3. F[s \ {c}] = v[x] + F[rest] BY <3>2, <3>4, <4>1
      <4>4. F[s \ {x}] = v[c] + F[rest] BY <3>2, <3>4, <4>2
      <4>5. rest \in SUBSET s /\ rest # s BY <3>4, <4>1
      <4>6. F[rest] \in Nat BY <1>4, <4>5
      <4>7. v[c] \in Nat /\ v[x] \in Nat BY <3>2, <3>4
      <4> QED BY <3>1, <4>3, <4>4, <4>6, <4>7
    <3> QED BY <3>1, <3>3, <3>4
  <2> QED BY <2>1, <2>2
<1> HIDE DEF Q
<1>5. \A s \in SUBSET A : s \in Q BY <1>4, BySize
<1> QED BY <1>2, <1>5 DEF Q

\* The sum of v over S does not depend on what else v is summed over.
LEMMA Totals ==
  ASSUME NEW v, NEW S, IsFiniteSet(S), \A x \in S : v[x] \in Nat
  PROVE  /\ Total(v, {}) = 0 /\ Total(v, S) \in Nat
         /\ \A x \in S : Total(v, S) = v[x] + Total(v, S \ {x})
<1>1. ASSUME NEW A, IsFiniteSet(A)
      PROVE  \E F : Adds(F, v, A) /\ F[A] = Total(v, A)
  <2>1. PICK F : F = CHOOSE G : Adds(G, v, A) OBVIOUS
  <2> QED BY <1>1, <2>1, SumExists DEF Total
<1>2. IsFiniteSet({}) BY FS_EmptySet
<1>3. Total(v, {}) = 0
  <2>1. PICK F : Adds(F, v, {}) /\ F[{}] = Total(v, {}) BY <1>1, <1>2
  <2> QED BY <1>2, <2>1, AnyFirst
<1>4. PICK F : Adds(F, v, S) /\ F[S] = Total(v, S) BY <1>1
<1>5. /\ F[{}] = 0 /\ \A s \in SUBSET S : F[s] \in Nat
      /\ \A s \in SUBSET S : \A x \in s : F[s] = v[x] + F[s \ {x}]
  BY <1>4, AnyFirst
<1>6. ASSUME NEW T \in SUBSET S PROVE F[T] = Total(v, T)
  <2>1. IsFiniteSet(T) BY FS_Subset
  <2>2. PICK G : Adds(G, v, T) /\ G[T] = Total(v, T) BY <1>1, <2>1
  <2>3. /\ G[{}] = 0 /\ \A s \in SUBSET T : G[s] \in Nat
        /\ \A s \in SUBSET T : \A x \in s : G[s] = v[x] + G[s \ {x}]
    BY <2>1, <2>2, AnyFirst
  <2> DEFINE Q == {s \in SUBSET T : F[s] = G[s]}
  <2>4. {} \in Q BY <1>5, <2>3
  <2>5. ASSUME NEW s \in SUBSET T, NEW x \in s, s \ {x} \in Q PROVE s \in Q
    <3>1. F[s] = v[x] + F[s \ {x}] BY <1>5
    <3>2. G[s] = v[x] + G[s \ {x}] BY <2>3
    <3> QED BY <2>5, <3>1, <3>2
  <2> HIDE DEF Q
  <2>6. \A s \in SUBSET T : s \in Q BY <2>1, <2>4, <2>5, BySteps
  <2> QED BY <2>2, <2>6 DEF Q
<1>7. \A x \in S : Total(v, S) = v[x] + Total(v, S \ {x})
  BY <1>4, <1>5, <1>6
<1> QED BY <1>3, <1>4, <1>5, <1>7

LEMMA OneMore ==
  ASSUME NEW v, NEW S, IsFiniteSet(S), \A x \in S : v[x] \in Nat, NEW s \in SUBSET S, NEW x \in s
  PROVE  /\ Total(v, s) = v[x] + Total(v, s \ {x})
         /\ v[x] \in Nat /\ Total(v, s) \in Nat /\ Total(v, s \ {x}) \in Nat
<1>1. IsFiniteSet(s) /\ IsFiniteSet(s \ {x}) BY FS_Subset
<1>2. (\A y \in s : v[y] \in Nat) /\ (\A y \in s \ {x} : v[y] \in Nat) OBVIOUS
<1> QED BY <1>1, <1>2, Totals

\* Sums over disjoint sets add up.
LEMMA TotalsAdd ==
  ASSUME NEW v, NEW S, NEW T, IsFiniteSet(S), IsFiniteSet(T), S \cap T = {},
         \A x \in S \cup T : v[x] \in Nat
  PROVE  Total(v, S \cup T) = Total(v, S) + Total(v, T)
<1> DEFINE Q == {s \in SUBSET T : Total(v, S \cup s) = Total(v, S) + Total(v, s)}
<1>1. IsFiniteSet(S \cup T) BY FS_Union
<1>2. Total(v, S) \in Nat /\ Total(v, {}) = 0 BY Totals
<1>3. {} \in Q
  <2>1. S \cup {} = S OBVIOUS
  <2> QED BY <1>2, <2>1
<1>4. ASSUME NEW s \in SUBSET T, NEW x \in s, s \ {x} \in Q PROVE s \in Q
  <2>1. (S \cup s) \ {x} = S \cup (s \ {x}) BY <1>4
  <2>2. S \cup s \in SUBSET (S \cup T) /\ x \in S \cup s OBVIOUS
  <2>3. Total(v, S \cup s) = v[x] + Total(v, S \cup (s \ {x})) BY <1>1, <2>1, <2>2, OneMore
  <2>4. /\ Total(v, s) = v[x] + Total(v, s \ {x})
        /\ v[x] \in Nat /\ Total(v, s \ {x}) \in Nat
    BY OneMore
  <2> QED BY <1>2, <1>4, <2>3, <2>4
<1> HIDE DEF Q
<1>5. \A s \in SUBSET T : s \in Q BY <1>3, <1>4, BySteps
<1> QED BY <1>5 DEF Q

\* A sum of less is less.
LEMMA TotalsCompare ==
  ASSUME NEW v, NEW w, NEW S, IsFiniteSet(S),
         \A x \in S : v[x] \in Nat /\ w[x] \in Nat /\ v[x] <= w[x]
  PROVE  Total(v, S) <= Total(w, S)
<1> DEFINE Q == {s \in SUBSET S : Total(v, s) <= Total(w, s)}
<1>1. {} \in Q
  <2>1. Total(v, {}) = 0 /\ Total(w, {}) = 0 BY Totals
  <2> QED BY <2>1
<1>2. ASSUME NEW s \in SUBSET S, NEW x \in s, s \ {x} \in Q PROVE s \in Q
  <2>1. /\ Total(v, s) = v[x] + Total(v, s \ {x}) /\ Total(w, s) = w[x] + Total(w, s \ {x})
        /\ v[x] \in Nat /\ w[x] \in Nat /\ v[x] <= w[x]
        /\ Total(v, s \ {x}) \in Nat /\ Total(w, s \ {x}) \in Nat
    BY OneMore
  <2> QED BY <1>2, <2>1
<1> HIDE DEF Q
<1>3. \A s \in SUBSET S : s \in Q BY <1>1, <1>2, BySteps
<1> QED BY <1>3 DEF Q

\* ... and so is one over less.
LEMMA TotalsWithin ==
  ASSUME NEW v, NEW S, NEW T, S \subseteq T, IsFiniteSet(T), \A x \in T : v[x] \in Nat
  PROVE  Total(v, S) <= Total(v, T)
<1>1. IsFiniteSet(S) /\ IsFiniteSet(T \ S) BY FS_Subset
<1>2. S \cup (T \ S) = T /\ S \cap (T \ S) = {} OBVIOUS
<1>3. Total(v, T) = Total(v, S) + Total(v, T \ S) BY <1>1, <1>2, TotalsAdd
<1>4. Total(v, S) \in Nat /\ Total(v, T \ S) \in Nat BY <1>1, Totals
<1> QED BY <1>3, <1>4

LEMMA NothingAdds ==
  ASSUME NEW v, NEW S, IsFiniteSet(S), \A x \in S : v[x] = 0
  PROVE  Total(v, S) = 0
<1> DEFINE Q == {s \in SUBSET S : Total(v, s) = 0}
<1>1. {} \in Q
  <2>1. \A x \in S : v[x] \in Nat OBVIOUS
  <2>2. Total(v, {}) = 0 BY <2>1, Totals
  <2> QED BY <2>2
<1>2. ASSUME NEW s \in SUBSET S, NEW x \in s, s \ {x} \in Q PROVE s \in Q
  BY <1>2, OneMore
<1> HIDE DEF Q
<1>3. \A s \in SUBSET S : s \in Q BY <1>1, <1>2, BySteps
<1> QED BY <1>3 DEF Q

\* A table whose rows each come to no more than an entry of w.
LEMMA TotalsByRow ==
  ASSUME NEW v, NEW w, NEW G, NEW D, IsFiniteSet(G), IsFiniteSet(D),
         \A x \in G \X D : v[x] \in Nat,
         \A d \in D : w[d] \in Nat /\ Total(v, G \X {d}) <= w[d]
  PROVE  Total(v, G \X D) <= Total(w, D)
<1> DEFINE Q == {s \in SUBSET D : Total(v, G \X s) <= Total(w, s)}
<1>1. {} \in Q
  <2>1. G \X {} = {} OBVIOUS
  <2>2. IsFiniteSet({}) BY FS_EmptySet
  <2>3. Total(w, {}) = 0 /\ Total(v, {}) = 0 BY <2>2, Totals
  <2> QED BY <2>1, <2>3
<1>2. ASSUME NEW s \in SUBSET D, NEW d \in s, s \ {d} \in Q PROVE s \in Q
  <2>1. PICK r : r = s \ {d} OBVIOUS
  <2>2. IsFiniteSet(r) /\ IsFiniteSet({d}) /\ r \subseteq D /\ d \in D
    BY <2>1, FS_Subset, FS_Singleton
  <2>3. IsFiniteSet(G \X r) /\ IsFiniteSet(G \X {d}) BY <2>2, FS_Product
  <2>4. /\ G \X s = (G \X r) \cup (G \X {d}) /\ (G \X r) \cap (G \X {d}) = {}
        /\ (G \X r) \cup (G \X {d}) \subseteq G \X D
    BY <2>1, <2>2
  <2>5. \A x \in (G \X r) \cup (G \X {d}) : v[x] \in Nat BY <2>4
  <2>6. Total(v, G \X s) = Total(v, G \X r) + Total(v, G \X {d})
    BY <2>3, <2>4, <2>5, TotalsAdd
  <2>7. Total(v, G \X r) \in Nat /\ Total(v, G \X {d}) \in Nat BY <2>3, <2>5, Totals
  <2>8. /\ Total(w, s) = w[d] + Total(w, r) /\ w[d] \in Nat /\ Total(w, r) \in Nat
    <3>1. \A x \in D : w[x] \in Nat OBVIOUS
    <3>2. /\ Total(w, s) = w[d] + Total(w, s \ {d})
          /\ w[d] \in Nat /\ Total(w, s \ {d}) \in Nat
      BY <3>1, OneMore
    <3> QED BY <2>1, <3>2
  <2>9. Total(v, G \X r) <= Total(w, r) BY <1>2, <2>1
  <2>10. Total(v, G \X {d}) <= w[d] BY <2>2
  <2>11. Total(v, G \X s) <= Total(w, s) BY <2>6, <2>7, <2>8, <2>9, <2>10
  <2> QED BY <2>11
<1> HIDE DEF Q
<1>3. \A s \in SUBSET D : s \in Q BY <1>1, <1>2, BySteps
<1> QED BY <1>3 DEF Q

-----------------------------------------------------------------------------
(* LlmRouter.                                                              *)
(*                                                                         *)
(* The accounts of a group and a day come to the greater of its live rows  *)
(* and its rollup, which may be of a group that was forgotten and has come *)
(* back; of one day and all groups they are no more than was spent on it.  *)
CONSTANTS Refresher, Cap, DaysPerMonth, LastDay, MaxSpent, None
VARIABLES groups, call, today, usage, daily, rolled, cachedTotal, spent, complete

Llm == INSTANCE LlmRouter WITH cached <- cachedTotal

Peak(us, da) == [gd \in Groups \X Llm!Days |-> IF us[gd] >= da[gd] THEN us[gd] ELSE da[gd]]
GroupOrNone == Groups \cup {None}
CallKinds ==
  {Llm!Idle} \cup [at : {"query", "provider", "persist"}, group : GroupOrNone]
             \cup [at : {"live", "store"}, group : GroupOrNone, asof : Llm!Days, sum : Nat]

\* A total, or what there is of it, is of money spent by then.
SumPaid(sp, k) ==
  /\ k.at = "live" => k.sum <= Total(sp, Llm!MonthStart(k.asof)..(k.asof - 1))
  /\ k.at = "store" => k.sum <= Total(sp, Llm!MonthStart(k.asof)..LastDay)
CachePaid(sp, t) ==
  t # None => /\ t \in [total : Nat, asof : Llm!Days, stale : BOOLEAN]
              /\ t.total <= Total(sp, Llm!MonthStart(t.asof)..LastDay)
DaysPaid(us, da, sp) == \A d \in Llm!Days : Total(Peak(us, da), Groups \X {d}) <= sp[d]
\* Nothing is written any more to a day that was closed.
Closed(us, da, ds) == \A g \in Groups, d \in ds : us[<<g, d>>] <= da[<<g, d>>]

Books == [Groups \X Llm!Days -> Nat]

SpendInv ==
  /\ groups \subseteq Groups /\ today \in Llm!Days /\ rolled \in 0..2
  /\ usage \in Books /\ daily \in Books /\ spent \in [Llm!Days -> Nat]
  /\ complete \subseteq 0..(today - 1)
  /\ call \in [Llm!Readers -> CallKinds]
  /\ \A r \in Llm!Readers : SumPaid(spent, call[r])
  /\ CachePaid(spent, cachedTotal)
  /\ DaysPaid(usage, daily, spent)
  /\ Closed(usage, daily, complete)

LEMMA SumsAreTotals ==
  /\ \A cost, gs, ds : Llm!Sum(cost, gs, ds) = Total(cost, gs \X ds)
  /\ \A day : Llm!SpentSince(day) = Total(spent, day..LastDay)
BY DEF Llm!Sum, Llm!SpentSince, Llm!MapThenSumSet, Llm!MapThenFoldSet, Total, Adds

LEMMA MonthsAre ==
  ASSUME Llm!LlmAssumption
  PROVE  /\ Llm!Days = 0..LastDay /\ LastDay \in Nat
         /\ \A d \in Llm!Days : Llm!MonthStart(d) \in Nat /\ Llm!MonthStart(d) <= d
BY DEF Llm!LlmAssumption, Llm!Days, Llm!MonthStart

LEMMA DaysFinite ==
  ASSUME Llm!LlmAssumption, NEW ds, ds \subseteq Llm!Days, NEW gs, gs \subseteq Groups
  PROVE  IsFiniteSet(ds) /\ IsFiniteSet(gs) /\ IsFiniteSet(gs \X ds)
<1>1. IsFiniteSet(Llm!Days) BY MonthsAre, FS_Interval
<1>2. IsFiniteSet(Groups) BY DEF Llm!LlmAssumption, Llm!IsFiniteSet, IsFiniteSet
<1>3. IsFiniteSet(ds) /\ IsFiniteSet(gs) BY <1>1, <1>2, FS_Subset
<1> QED BY <1>3, FS_Product

LEMMA BooksPaid ==
  ASSUME Llm!LlmAssumption, NEW us \in Books, NEW da \in Books, NEW sp \in [Llm!Days -> Nat],
         DaysPaid(us, da, sp), NEW cost \in {us, da},
         NEW gs, gs \subseteq Groups, NEW ds, ds \subseteq Llm!Days
  PROVE  Total(cost, gs \X ds) \in Nat /\ Total(cost, gs \X ds) <= Total(sp, ds)
<1> DEFINE p == Peak(us, da)
<1>1. \A x \in Groups \X Llm!Days : us[x] \in Nat /\ da[x] \in Nat BY DEF Books
<1>2. \A x \in Groups \X Llm!Days : p[x] \in Nat /\ cost[x] \in Nat /\ cost[x] <= p[x]
  BY <1>1 DEF Peak
<1>3. gs \X ds \subseteq Groups \X Llm!Days /\ gs \X ds \subseteq Groups \X ds
      /\ Groups \X ds \subseteq Groups \X Llm!Days
  OBVIOUS
<1>4. IsFiniteSet(gs \X ds) /\ IsFiniteSet(Groups \X ds) /\ IsFiniteSet(ds) /\ IsFiniteSet(Groups)
  BY DaysFinite
<1> HIDE DEF p
<1>5. Total(cost, gs \X ds) \in Nat /\ Total(p, gs \X ds) \in Nat /\ Total(p, Groups \X ds) \in Nat
  BY <1>2, <1>3, <1>4, Totals
<1>6. Total(cost, gs \X ds) <= Total(p, gs \X ds) BY <1>2, <1>3, <1>4, TotalsCompare
<1>7. Total(p, gs \X ds) <= Total(p, Groups \X ds) BY <1>2, <1>3, <1>4, TotalsWithin
<1>8. \A d \in ds : sp[d] \in Nat /\ Total(p, Groups \X {d}) <= sp[d] BY DEF DaysPaid, p
<1>9. Total(p, Groups \X ds) <= Total(sp, ds) BY <1>2, <1>3, <1>4, <1>8, TotalsByRow
<1>10. Total(sp, ds) \in Nat BY <1>4, Totals
<1> QED BY <1>5, <1>6, <1>7, <1>9, <1>10

\* Money spent is not unspent.
LEMMA PaidStays ==
  ASSUME Llm!LlmAssumption, NEW sp \in [Llm!Days -> Nat], NEW more \in [Llm!Days -> Nat],
         \A d \in Llm!Days : sp[d] <= more[d]
  PROVE  /\ \A k \in CallKinds : SumPaid(sp, k) => SumPaid(more, k)
         /\ \A t : CachePaid(sp, t) => CachePaid(more, t)
<1>1. ASSUME NEW ds, ds \subseteq Llm!Days
      PROVE  Total(sp, ds) \in Nat /\ Total(more, ds) \in Nat /\ Total(sp, ds) <= Total(more, ds)
  <2>1. IsFiniteSet(ds) BY <1>1, DaysFinite
  <2> QED BY <1>1, <2>1, Totals, TotalsCompare
<1>2. ASSUME NEW d \in Llm!Days
      PROVE  /\ Llm!MonthStart(d)..(d - 1) \subseteq Llm!Days
             /\ Llm!MonthStart(d)..LastDay \subseteq Llm!Days
  BY MonthsAre
<1>3. ASSUME NEW k \in CallKinds, SumPaid(sp, k) PROVE SumPaid(more, k)
  <2>1. k.at \in {"live", "store"} => k.asof \in Llm!Days /\ k.sum \in Nat
    BY DEF CallKinds, Llm!Idle
  <2>2. ASSUME k.at = "live" PROVE k.sum <= Total(more, Llm!MonthStart(k.asof)..(k.asof - 1))
    <3>1. PICK ds : ds = Llm!MonthStart(k.asof)..(k.asof - 1) OBVIOUS
    <3>2. ds \subseteq Llm!Days /\ k.sum \in Nat /\ k.sum <= Total(sp, ds)
      BY <1>2, <1>3, <2>1, <2>2, <3>1 DEF SumPaid
    <3>3. Total(sp, ds) \in Nat /\ Total(more, ds) \in Nat /\ Total(sp, ds) <= Total(more, ds)
      BY <1>1, <3>2
    <3> QED BY <3>1, <3>2, <3>3
  <2>3. ASSUME k.at = "store" PROVE k.sum <= Total(more, Llm!MonthStart(k.asof)..LastDay)
    <3>1. PICK ds : ds = Llm!MonthStart(k.asof)..LastDay OBVIOUS
    <3>2. ds \subseteq Llm!Days /\ k.sum \in Nat /\ k.sum <= Total(sp, ds)
      BY <1>2, <1>3, <2>1, <2>3, <3>1 DEF SumPaid
    <3>3. Total(sp, ds) \in Nat /\ Total(more, ds) \in Nat /\ Total(sp, ds) <= Total(more, ds)
      BY <1>1, <3>2
    <3> QED BY <3>1, <3>2, <3>3
  <2> QED BY <2>2, <2>3 DEF SumPaid
<1>4. ASSUME NEW t, t # None, CachePaid(sp, t) PROVE CachePaid(more, t)
  <2>1. PICK ds : ds = Llm!MonthStart(t.asof)..LastDay OBVIOUS
  <2>2. ds \subseteq Llm!Days /\ t.total \in Nat /\ t.total <= Total(sp, ds)
    BY <1>2, <1>4, <2>1 DEF CachePaid
  <2>3. Total(sp, ds) \in Nat /\ Total(more, ds) \in Nat /\ Total(sp, ds) <= Total(more, ds)
    BY <1>1, <2>2
  <2> QED BY <1>4, <2>1, <2>2, <2>3 DEF CachePaid
<1> QED BY <1>3, <1>4 DEF CachePaid

Harmless == {Llm!Idle} \cup [at : {"query", "provider", "persist"}, group : GroupOrNone]

LEMMA HarmlessAre ==
  /\ \A k \in Harmless : k \in CallKinds /\ \A sp : SumPaid(sp, k)
  /\ \A k \in CallKinds : k.at = "idle" \/ k.group \in GroupOrNone
BY DEF Harmless, CallKinds, SumPaid, Llm!Idle

LEMMA Judged ==
  ASSUME NEW r, NEW g \in GroupOrNone, NEW t,
         Llm!Judge(r, g, t) \/ Llm!Admit(r, g) \/ Llm!Refuse(r)
  PROVE  \E k \in Harmless : call' = [call EXCEPT ![r] = k]
<1>1. Llm!Idle \in Harmless /\ [at |-> "provider", group |-> g] \in Harmless BY DEF Harmless
<1>2. Llm!Onwards(g) \subseteq Harmless BY <1>1 DEF Llm!Onwards
<1> QED BY <1>1, <1>2 DEF Llm!Judge, Llm!Admit, Llm!Refuse

LEMMA CallsMove ==
  ASSUME SpendInv, UNCHANGED <<Llm!spendVars, Llm!nightVars>>,
         NEW r \in Llm!Readers, NEW k \in CallKinds, SumPaid(spent, k),
         call' = [call EXCEPT ![r] = k], CachePaid(spent, cachedTotal')
  PROVE  SpendInv'
<1>1. call' \in [Llm!Readers -> CallKinds] BY DEF SpendInv
<1>2. \A q \in Llm!Readers : SumPaid(spent, call'[q]) BY DEF SpendInv
<1> QED BY <1>1, <1>2 DEF SpendInv, Llm!spendVars, Llm!nightVars

LEMMA CallEnds ==
  ASSUME SpendInv, UNCHANGED <<Llm!spendVars, Llm!nightVars>>,
         NEW r \in Llm!Readers, NEW k \in Harmless,
         call' = [call EXCEPT ![r] = k], CachePaid(spent, cachedTotal')
  PROVE  SpendInv'
<1>1. k \in CallKinds /\ SumPaid(spent, k) BY HarmlessAre
<1> QED BY <1>1, CallsMove

LEMMA LowerPeaks ==
  ASSUME Llm!LlmAssumption, NEW us \in Books, NEW da \in Books, NEW sp \in [Llm!Days -> Nat],
         NEW us2 \in Books, NEW da2 \in Books, DaysPaid(us, da, sp),
         \A x \in Groups \X Llm!Days : Peak(us2, da2)[x] <= Peak(us, da)[x]
  PROVE  DaysPaid(us2, da2, sp)
<1> SUFFICES ASSUME NEW d \in Llm!Days
             PROVE  Total(Peak(us2, da2), Groups \X {d}) <= sp[d]
  BY DEF DaysPaid
<1> DEFINE S == Groups \X {d}
           p == Peak(us, da)
           p2 == Peak(us2, da2)
<1>1. IsFiniteSet(S) BY DaysFinite
<1>2. \A x \in S : p[x] \in Nat /\ p2[x] \in Nat /\ p2[x] <= p[x] BY DEF Peak, Books
<1>3. Total(p, S) <= sp[d] /\ sp[d] \in Nat BY DEF DaysPaid
<1> HIDE DEF S, p, p2
<1>4. Total(p, S) \in Nat /\ Total(p2, S) \in Nat /\ Total(p2, S) <= Total(p, S)
  BY <1>1, <1>2, Totals, TotalsCompare
<1> QED BY <1>3, <1>4 DEF S, p2

LEMMA SpendInvInit ==
  ASSUME Llm!LlmAssumption, Llm!Init
  PROVE  SpendInv
<1>1. /\ usage \in Books /\ daily \in Books /\ spent \in [Llm!Days -> Nat]
      /\ today \in Llm!Days /\ complete \subseteq 0..(today - 1) /\ rolled \in 0..2
  BY MonthsAre DEF Llm!Init, Books
<1>2. call \in [Llm!Readers -> CallKinds] /\ \A r \in Llm!Readers : SumPaid(spent, call[r])
  <2>1. Llm!Idle \in Harmless BY DEF Harmless
  <2> QED BY <2>1, HarmlessAre DEF Llm!Init
<1>3. DaysPaid(usage, daily, spent)
  <2> SUFFICES ASSUME NEW d \in Llm!Days
               PROVE  Total(Peak(usage, daily), Groups \X {d}) <= spent[d]
    BY DEF DaysPaid
  <2> DEFINE S == Groups \X {d}
             p == Peak(usage, daily)
  <2>1. IsFiniteSet(S) BY DaysFinite
  <2>2. \A x \in S : p[x] = 0 BY <1>1 DEF Llm!Init, Peak
  <2> HIDE DEF p, S
  <2>3. Total(p, S) = 0 BY <2>1, <2>2, NothingAdds
  <2> QED BY <1>1, <2>3 DEF p, S
<1> QED BY <1>1, <1>2, <1>3 DEF SpendInv, Llm!Init, CachePaid, Closed, Books

LEMMA CacheKept ==
  ASSUME SpendInv, cachedTotal' = cachedTotal PROVE CachePaid(spent, cachedTotal')
BY DEF SpendInv

LEMMA QueriesKept ==
  ASSUME Llm!LlmAssumption, SpendInv, NEW r \in Llm!Readers, Llm!QueryRolledUp(r) \/ Llm!QueryLive(r)
  PROVE  SpendInv'
<1>1. CASE Llm!QueryRolledUp(r)
  <2> DEFINE ds == Llm!MonthStart(today)..(today - 1)
             k == [at |-> "live", group |-> call[r].group, asof |-> today,
                   sum |-> Total(daily, groups \X ds)]
  <2>1. ds \subseteq Llm!Days BY MonthsAre DEF SpendInv
  <2>2. Total(daily, groups \X ds) \in Nat /\ Total(daily, groups \X ds) <= Total(spent, ds)
    BY <2>1, BooksPaid DEF SpendInv
  <2>3. call[r].group \in GroupOrNone BY <1>1, HarmlessAre DEF SpendInv, Llm!QueryRolledUp
  <2>4. k \in CallKinds BY <2>2, <2>3 DEF CallKinds, SpendInv
  <2>5. SumPaid(spent, k) BY <2>2 DEF SumPaid
  <2>6. call' = [call EXCEPT ![r] = k] BY <1>1, SumsAreTotals DEF Llm!QueryRolledUp
  <2> HIDE DEF k
  <2> QED BY <1>1, <2>4, <2>5, <2>6, CacheKept, CallsMove DEF Llm!QueryRolledUp
<1>2. CASE Llm!QueryLive(r)
  <2>1. PICK q : q = call[r] OBVIOUS
  <2>2. q \in CallKinds /\ q.at = "live" BY <1>2, <2>1 DEF SpendInv, Llm!QueryLive
  <2>3. q.group \in GroupOrNone /\ q.asof \in Llm!Days /\ q.sum \in Nat
    BY <2>2 DEF CallKinds, Llm!Idle
  <2> DEFINE early == Llm!MonthStart(q.asof)..(q.asof - 1)
             since == q.asof..LastDay
             extra == Total(usage, groups \X since)
             k == [at |-> "store", group |-> q.group, asof |-> q.asof, sum |-> q.sum + extra]
  <2>4. /\ early \subseteq Llm!Days /\ since \subseteq Llm!Days /\ early \cap since = {}
        /\ early \cup since = Llm!MonthStart(q.asof)..LastDay
    BY <2>3, MonthsAre
  <2>5. q.sum <= Total(spent, early) BY <2>1, <2>2 DEF SpendInv, SumPaid
  <2> HIDE DEF early, since
  <2>6. extra \in Nat /\ extra <= Total(spent, since) BY <2>4, BooksPaid DEF SpendInv
  <2>7. /\ Total(spent, early \cup since) = Total(spent, early) + Total(spent, since)
        /\ Total(spent, early) \in Nat /\ Total(spent, since) \in Nat
    <3>1. IsFiniteSet(early) /\ IsFiniteSet(since) BY <2>4, DaysFinite
    <3>2. \A d \in early \cup since : spent[d] \in Nat BY <2>4 DEF SpendInv
    <3>3. Total(spent, early \cup since) = Total(spent, early) + Total(spent, since)
      BY <2>4, <3>1, <3>2, TotalsAdd
    <3>4. Total(spent, early) \in Nat BY <3>1, <3>2, Totals
    <3>5. Total(spent, since) \in Nat BY <3>1, <3>2, Totals
    <3> QED BY <3>3, <3>4, <3>5
  <2>8. call' = [call EXCEPT ![r] = k]
    BY <1>2, <2>1, SumsAreTotals DEF Llm!QueryLive, since
  <2> HIDE DEF extra
  <2>9. q.sum + extra \in Nat /\ q.sum + extra <= Total(spent, early \cup since)
    BY <2>3, <2>5, <2>6, <2>7
  <2>10. k \in CallKinds BY <2>3, <2>9 DEF CallKinds
  <2>11. SumPaid(spent, k) BY <2>4, <2>9 DEF SumPaid
  <2> HIDE DEF k
  <2> QED BY <1>2, <2>8, <2>10, <2>11, CacheKept, CallsMove DEF Llm!QueryLive
<1> QED BY <1>1, <1>2

LEMMA StoreKept ==
  ASSUME Llm!LlmAssumption, SpendInv, NEW r \in Llm!Readers, Llm!Store(r)
  PROVE  SpendInv'
<1>1. PICK q : q = call[r] OBVIOUS
<1>2. q \in CallKinds /\ q.at = "store" /\ SumPaid(spent, q)
  BY <1>1 DEF SpendInv, Llm!Store
<1>3. q.group \in GroupOrNone /\ q.asof \in Llm!Days /\ q.sum \in Nat
  BY <1>2 DEF CallKinds, Llm!Idle
<1>4. \E k \in Harmless : call' = [call EXCEPT ![r] = k]
  BY <1>1, <1>3, Judged DEF Llm!Store
<1>5. CachePaid(spent, cachedTotal')
  <2>1. CASE cachedTotal' = cachedTotal BY <2>1, CacheKept
  <2>2. CASE cachedTotal' = [total |-> q.sum, asof |-> q.asof, stale |-> FALSE]
    <3>1. PICK t : t = [total |-> q.sum, asof |-> q.asof, stale |-> FALSE] OBVIOUS
    <3>2. /\ t \in [total : Nat, asof : Llm!Days, stale : BOOLEAN]
          /\ t.total = q.sum /\ t.asof = q.asof
      BY <1>3, <3>1
    <3>3. CachePaid(spent, t) BY <1>2, <3>2 DEF CachePaid, SumPaid
    <3> QED BY <2>2, <3>1, <3>3
  <2> QED BY <1>1, <2>1, <2>2 DEF Llm!Store
<1> QED BY <1>4, <1>5, CallEnds DEF Llm!Store

LEMMA ChecksKept ==
  ASSUME Llm!LlmAssumption, SpendInv, NEW c \in Calls, NEW g \in Groups,
         Llm!CheckCached(c, g) \/ Llm!CheckEmpty(c, g) \/ Llm!CheckFails(c, g)
  PROVE  SpendInv'
<1>1. c \in Llm!Readers /\ Refresher \in Llm!Readers /\ g \in GroupOrNone /\ None \in GroupOrNone
  BY DEF Llm!Readers, GroupOrNone
<1>2. CASE Llm!CheckCached(c, g)
  <2>1. PICK k, f : /\ k \in Harmless /\ f \in Harmless \cup {call[Refresher]}
                    /\ call' = [call EXCEPT ![c] = k, ![Refresher] = f]
    <3>1. /\ Llm!Idle \in Harmless /\ Llm!Onwards(g) \subseteq Harmless
          /\ [at |-> "query", group |-> None] \in Harmless
      BY <1>1 DEF Harmless, Llm!Onwards
    <3>2. PICK f : /\ f \in Harmless \cup {call[Refresher]}
                   /\ \E k \in Harmless : call' = [call EXCEPT ![c] = k, ![Refresher] = f]
      <4>1. PICK f : f = IF cachedTotal.stale /\ call[Refresher] = Llm!Idle
                         THEN [at |-> "query", group |-> None] ELSE call[Refresher]
        OBVIOUS
      <4>2. \E k \in IF cachedTotal.total >= Cap THEN {Llm!Idle} ELSE Llm!Onwards(g) :
              call' = [call EXCEPT ![c] = k, ![Refresher] = f]
        BY <1>2, <4>1 DEF Llm!CheckCached
      <4> QED BY <3>1, <4>1, <4>2
    <3> QED BY <3>2
  <2>2. k \in CallKinds /\ SumPaid(spent, k) BY <2>1, HarmlessAre
  <2>3. f \in CallKinds /\ SumPaid(spent, f) BY <1>1, <2>1, HarmlessAre DEF SpendInv
  <2>4. call' \in [Llm!Readers -> CallKinds] BY <1>1, <2>1, <2>2, <2>3 DEF SpendInv
  <2>5. \A q \in Llm!Readers : SumPaid(spent, call'[q])
    BY <1>1, <2>1, <2>2, <2>3 DEF SpendInv
  <2> QED BY <1>2, <2>4, <2>5 DEF SpendInv, Llm!CheckCached, Llm!spendVars, Llm!nightVars
<1>3. CASE Llm!CheckEmpty(c, g)
  <2>1. [at |-> "query", group |-> g] \in Harmless BY <1>1 DEF Harmless
  <2> QED BY <1>1, <1>3, <2>1, CacheKept, CallEnds DEF Llm!CheckEmpty
<1>4. CASE Llm!CheckFails(c, g)
  <2>1. \E k \in Harmless : call' = [call EXCEPT ![c] = k]
    BY <1>1, <1>4, Judged DEF Llm!CheckFails
  <2> QED BY <1>1, <1>4, <2>1, CacheKept, CallEnds DEF Llm!CheckFails
<1> QED BY <1>2, <1>3, <1>4

LEMMA AnswersKept ==
  ASSUME Llm!LlmAssumption, SpendInv,
         \/ \E r \in Llm!Readers : Llm!QueryFails(r)
         \/ \E c \in Calls : Llm!Complete(c) \/ Llm!ProviderFails(c)
  PROVE  SpendInv'
<1>1. Calls \subseteq Llm!Readers /\ Llm!Idle \in Harmless BY DEF Llm!Readers, Harmless
<1>2. \A r \in Llm!Readers : call[r].at # "idle" => call[r].group \in GroupOrNone
  BY HarmlessAre DEF SpendInv
<1>3. CASE \E r \in Llm!Readers : Llm!QueryFails(r)
  <2>1. PICK r \in Llm!Readers : Llm!QueryFails(r) BY <1>3
  <2>2. \E k \in Harmless : call' = [call EXCEPT ![r] = k]
    BY <1>2, <2>1, Judged DEF Llm!QueryFails, Llm!Refuse
  <2> QED BY <2>1, <2>2, CacheKept, CallEnds DEF Llm!QueryFails
<1>4. ASSUME NEW c \in Calls, Llm!Complete(c) PROVE SpendInv'
  <2>1. [at |-> "persist", group |-> call[c].group] \in Harmless
    BY <1>1, <1>2, <1>4 DEF Llm!Complete, Harmless
  <2> QED BY <1>1, <1>4, <2>1, CacheKept, CallEnds DEF Llm!Complete
<1>5. ASSUME NEW c \in Calls, Llm!ProviderFails(c) PROVE SpendInv'
  BY <1>1, <1>5, CacheKept, CallEnds DEF Llm!ProviderFails
<1> QED BY <1>3, <1>4, <1>5

\* A completion is on the books of at most one group, once.
LEMMA PersistKept ==
  ASSUME Llm!LlmAssumption, SpendInv, NEW c \in Calls, Llm!Persist(c)
  PROVE  SpendInv'
<1>1. c \in Llm!Readers /\ Llm!Idle \in Harmless BY DEF Llm!Readers, Harmless
<1>2. PICK more : more = [spent EXCEPT ![today] = @ + 1] OBVIOUS
<1>3. /\ more \in [Llm!Days -> Nat] /\ \A d \in Llm!Days : spent[d] <= more[d]
      /\ more[today] = spent[today] + 1 /\ today \in Llm!Days
  BY <1>2 DEF SpendInv
<1>4. PICK us : /\ usage' = us
                /\ \/ us = usage
                   \/ \E g \in groups : us = [usage EXCEPT ![<<g, today>>] = @ + 1]
  BY DEF Llm!Persist
<1>5. groups \subseteq Groups /\ usage \in Books /\ daily \in Books BY DEF SpendInv
<1>6. us \in Books
  <2>1. CASE us = usage BY <1>5, <2>1
  <2>2. ASSUME NEW g \in groups, us = [usage EXCEPT ![<<g, today>>] = @ + 1] PROVE us \in Books
    <3>1. <<g, today>> \in Groups \X Llm!Days BY <1>3, <1>5
    <3>2. PICK x : x = <<g, today>> OBVIOUS
    <3> QED BY <1>5, <2>2, <3>1, <3>2 DEF Books
  <2> QED BY <1>4, <2>1, <2>2
<1>7. DaysPaid(us, daily, more)
  <2> SUFFICES ASSUME NEW d \in Llm!Days
               PROVE  Total(Peak(us, daily), Groups \X {d}) <= more[d]
    BY DEF DaysPaid
  <2> DEFINE S == Groups \X {d}
             p == Peak(usage, daily)
             p2 == Peak(us, daily)
  <2>1. IsFiniteSet(S) BY DaysFinite
  <2>2. \A x \in S : p[x] \in Nat /\ p2[x] \in Nat BY <1>5, <1>6 DEF Peak, Books
  <2>3. Total(p, S) <= spent[d] /\ spent[d] \in Nat /\ more[d] \in Nat /\ spent[d] <= more[d]
    BY <1>3 DEF DaysPaid, SpendInv
  <2>4. CASE \A x \in S : p2[x] <= p[x]
    <3> HIDE DEF S, p, p2
    <3>1. Total(p2, S) <= Total(p, S) /\ Total(p2, S) \in Nat /\ Total(p, S) \in Nat
      BY <2>1, <2>2, <2>4, Totals, TotalsCompare
    <3> QED BY <2>3, <3>1 DEF p2, S
  <2>5. CASE ~ \A x \in S : p2[x] <= p[x]
    <3>1. PICK g \in groups : us = [usage EXCEPT ![<<g, today>>] = @ + 1]
      BY <1>4, <2>2, <2>5
    <3>2. g \in Groups BY <1>5
    <3>3. \A x \in Groups \X Llm!Days :
            /\ x # <<g, today>> => p2[x] = p[x]
            /\ p2[x] <= p[x] + 1
      BY <1>3, <1>5, <3>1, <3>2 DEF Peak, Books
    <3>4. d = today BY <2>2, <2>5, <3>3
    <3>5. PICK x : x = <<g, today>> OBVIOUS
    <3>6. x \in S /\ p2[x] <= p[x] + 1 /\ \A y \in S \ {x} : p2[y] <= p[y]
      BY <2>2, <3>2, <3>3, <3>4, <3>5
    <3> HIDE DEF S, p, p2
    <3>7. IsFiniteSet(S \ {x}) BY <2>1, FS_Subset
    <3>8. Total(p2, S \ {x}) <= Total(p, S \ {x}) BY <2>2, <3>6, <3>7, TotalsCompare
    <3>9. Total(p2, S) = p2[x] + Total(p2, S \ {x}) BY <2>1, <2>2, <3>6, Totals
    <3>10. Total(p, S) = p[x] + Total(p, S \ {x}) BY <2>1, <2>2, <3>6, Totals
    <3>11. Total(p2, S \ {x}) \in Nat /\ Total(p, S \ {x}) \in Nat BY <2>2, <3>7, Totals
    <3>12. p[x] \in Nat /\ p2[x] \in Nat BY <2>2, <3>6
    <3>13. more[d] = spent[d] + 1 BY <1>3, <3>4
    <3>14. Total(p2, S) <= more[d]
      BY <2>3, <3>6, <3>8, <3>9, <3>10, <3>11, <3>12, <3>13
    <3> QED BY <3>14 DEF p2, S
  <2> QED BY <2>4, <2>5
<1>8. Closed(us, daily, complete)
  <2>1. \A d \in complete : d # today BY <1>3, MonthsAre DEF SpendInv
  <2>2. \A g \in Groups, d \in complete : us[<<g, d>>] = usage[<<g, d>>]
    <3> SUFFICES ASSUME NEW g \in Groups, NEW d \in complete
                 PROVE  us[<<g, d>>] = usage[<<g, d>>]
      OBVIOUS
    <3>1. PICK y : y = <<g, d>> OBVIOUS
    <3>2. y \in Groups \X Llm!Days /\ \A h : y # <<h, today>>
      BY <2>1, <3>1, MonthsAre DEF SpendInv
    <3>3. us[y] = usage[y] BY <1>4, <1>5, <3>2 DEF Books
    <3> QED BY <3>1, <3>3
  <2> QED BY <2>2 DEF Closed, SpendInv
<1>9. call' = [call EXCEPT ![c] = Llm!Idle] /\ spent' = more /\ cachedTotal' = cachedTotal
      /\ groups' = groups /\ daily' = daily /\ today' = today /\ rolled' = rolled
      /\ complete' = complete
  BY <1>2 DEF Llm!Persist, Llm!nightVars
<1>10. call' \in [Llm!Readers -> CallKinds] BY <1>1, <1>9, HarmlessAre DEF SpendInv
<1>11. \A q \in Llm!Readers : SumPaid(more, call'[q])
  <2>1. \A q \in Llm!Readers : call[q] \in CallKinds /\ SumPaid(spent, call[q]) BY DEF SpendInv
  <2>2. \A q \in Llm!Readers : SumPaid(more, call[q])
    BY <1>3, <2>1, PaidStays DEF SpendInv
  <2>3. SumPaid(more, Llm!Idle) BY <1>1, HarmlessAre
  <2>4. call \in [Llm!Readers -> CallKinds] BY DEF SpendInv
  <2> QED BY <1>9, <2>2, <2>3, <2>4
<1>12. CachePaid(more, cachedTotal) BY <1>3, PaidStays DEF SpendInv
<1> QED BY <1>3, <1>4, <1>6, <1>7, <1>8, <1>9, <1>10, <1>11, <1>12 DEF SpendInv

\* The nights.
LEMMA RollUpKept ==
  ASSUME Llm!LlmAssumption, SpendInv, Llm!RollUp
  PROVE  SpendInv'
<1>1. UNCHANGED <<groups, usage, spent, today, call, cachedTotal>> /\ rolled < 2 /\ rolled' = rolled + 1
  BY DEF Llm!RollUp
<1>2. usage \in Books /\ daily \in Books /\ spent \in [Llm!Days -> Nat] /\ rolled' \in 0..2
  BY <1>1 DEF SpendInv
<1>3. CASE rolled = 0 /\ today = 0
  BY <1>1, <1>2, <1>3 DEF SpendInv, Llm!RollUp
<1>4. CASE ~(rolled = 0 /\ today = 0)
  <2>1. PICK da : da = [gd \in DOMAIN daily |->
                         IF gd[2] = Llm!RolledDay /\ usage[gd] > 0 THEN usage[gd] ELSE daily[gd]]
    OBVIOUS
  <2>2. daily' = da BY <1>4, <2>1 DEF Llm!RollUp
  <2>3. complete' = IF rolled = 0 THEN complete \cup {today - 1} ELSE complete
    BY <1>4 DEF Llm!RollUp
  <2>4. da \in Books BY <1>2, <2>1 DEF Books
  <2>5. \A x \in Groups \X Llm!Days :
          /\ Peak(usage, da)[x] <= Peak(usage, daily)[x]
          /\ usage[x] <= daily[x] => usage[x] <= da[x]
          /\ x[2] = Llm!RolledDay => usage[x] <= da[x]
    BY <1>2, <2>1 DEF Peak, Books
  <2>6. DaysPaid(usage, da, spent) BY <1>2, <2>4, <2>5, LowerPeaks DEF SpendInv
  <2>7. complete' \subseteq 0..(today - 1) /\ complete' \subseteq Llm!Days
    <3>1. today \in Nat /\ today \in 0..LastDay /\ complete \subseteq 0..(today - 1)
      BY MonthsAre DEF SpendInv
    <3>2. rolled = 0 => today - 1 \in 0..(today - 1) BY <1>4, <3>1
    <3>3. complete' \subseteq 0..(today - 1) BY <2>3, <3>1, <3>2
    <3>4. 0..(today - 1) \subseteq Llm!Days BY <3>1, MonthsAre
    <3> QED BY <3>3, <3>4
  <2>8. \A d \in complete' \ complete : d = Llm!RolledDay
    BY <1>2, <2>3, MonthsAre DEF Llm!RolledDay, SpendInv
  <2>9. Closed(usage, da, complete')
    <3> SUFFICES ASSUME NEW g \in Groups, NEW d \in complete' PROVE usage[<<g, d>>] <= da[<<g, d>>]
      BY DEF Closed
    <3>1. PICK x : x = <<g, d>> OBVIOUS
    <3>2. x \in Groups \X Llm!Days /\ x[2] = d BY <2>7, <3>1
    <3>3. d \in complete => usage[x] <= daily[x] BY <3>1 DEF SpendInv, Closed
    <3> QED BY <2>5, <2>8, <3>1, <3>2, <3>3
  <2> QED BY <1>1, <1>2, <2>2, <2>4, <2>6, <2>7, <2>9 DEF SpendInv
<1> QED BY <1>3, <1>4

LEMMA ForgetKept ==
  ASSUME Llm!LlmAssumption, SpendInv, NEW g \in Groups, Llm!ForgetGroup(g)
  PROVE  SpendInv'
<1>1. PICK us : us = [gd \in DOMAIN usage |-> IF gd[1] = g THEN 0 ELSE usage[gd]] OBVIOUS
<1>2. usage' = us BY <1>1 DEF Llm!ForgetGroup
<1>3. usage \in Books /\ daily \in Books /\ spent \in [Llm!Days -> Nat] BY DEF SpendInv
<1>4. us \in Books BY <1>1, <1>3 DEF Books
<1>5. \A x \in Groups \X Llm!Days :
        /\ us[x] <= usage[x] /\ us[x] \in Nat /\ usage[x] \in Nat /\ daily[x] \in Nat
        /\ Peak(us, daily)[x] <= Peak(usage, daily)[x]
  BY <1>1, <1>3 DEF Peak, Books
<1>6. DaysPaid(us, daily, spent) BY <1>3, <1>4, <1>5, LowerPeaks DEF SpendInv
<1>7. Closed(us, daily, complete)
  <2> SUFFICES ASSUME NEW h \in Groups, NEW d \in complete PROVE us[<<h, d>>] <= daily[<<h, d>>]
    BY DEF Closed
  <2>1. PICK x : x = <<h, d>> OBVIOUS
  <2>2. d \in Llm!Days BY MonthsAre DEF SpendInv
  <2>3. x \in Groups \X Llm!Days /\ usage[x] <= daily[x] BY <2>1, <2>2 DEF SpendInv, Closed
  <2> QED BY <1>5, <2>1, <2>3
<1> QED BY <1>2, <1>4, <1>6, <1>7 DEF SpendInv, Llm!ForgetGroup, Llm!nightVars

LEMMA SpendInvNext ==
  ASSUME Llm!LlmAssumption, SpendInv, [Llm!Next]_Llm!vars
  PROVE  SpendInv'
<1>1. CASE \E c \in Calls, g \in Groups :
             Llm!CheckCached(c, g) \/ Llm!CheckEmpty(c, g) \/ Llm!CheckFails(c, g)
  BY <1>1, ChecksKept
<1>2. CASE \E r \in Llm!Readers : Llm!QueryRolledUp(r) \/ Llm!QueryLive(r)
  BY <1>2, QueriesKept
<1>3. CASE \E r \in Llm!Readers : Llm!Store(r) BY <1>3, StoreKept
<1>4. CASE \/ \E r \in Llm!Readers : Llm!QueryFails(r)
           \/ \E c \in Calls : Llm!Complete(c) \/ Llm!ProviderFails(c)
  BY <1>4, AnswersKept
<1>5. CASE \E c \in Calls : Llm!Persist(c) BY <1>5, PersistKept
<1>6. CASE Llm!Restart
  <2>1. Llm!Idle \in Harmless BY DEF Harmless
  <2>2. /\ call' \in [Llm!Readers -> CallKinds]
        /\ \A q \in Llm!Readers : SumPaid(spent, call'[q])
    BY <1>6, <2>1, HarmlessAre DEF Llm!Restart
  <2> QED BY <1>6, <2>2 DEF SpendInv, Llm!Restart, Llm!spendVars, Llm!nightVars
<1>7. CASE Llm!GoStale
  <2>1. CachePaid(spent, cachedTotal')
    <3>1. PICK t : t = [cachedTotal EXCEPT !.stale = TRUE] OBVIOUS
    <3>2. cachedTotal \in [total : Nat, asof : Llm!Days, stale : BOOLEAN] /\ CachePaid(spent, cachedTotal)
      BY <1>7 DEF Llm!GoStale, SpendInv, CachePaid
    <3>3. /\ t \in [total : Nat, asof : Llm!Days, stale : BOOLEAN]
          /\ t.total = cachedTotal.total /\ t.asof = cachedTotal.asof
      BY <3>1, <3>2
    <3>4. CachePaid(spent, t) BY <1>7, <3>2, <3>3 DEF CachePaid, Llm!GoStale
    <3> QED BY <1>7, <3>1, <3>4 DEF Llm!GoStale
  <2> QED BY <1>7, <2>1 DEF SpendInv, Llm!GoStale, Llm!spendVars, Llm!nightVars
<1>8. CASE Llm!Expire
  <2>1. CachePaid(spent, cachedTotal') BY <1>8 DEF Llm!Expire, CachePaid
  <2> QED BY <1>8, <2>1 DEF SpendInv, Llm!Expire, Llm!spendVars, Llm!nightVars
<1>9. CASE Llm!Midnight
  <2>1. PICK d : d = today + 1 OBVIOUS
  <2>2. d \in Llm!Days /\ complete \subseteq 0..(d - 1) /\ today' = d
    BY <1>9, <2>1, MonthsAre DEF Llm!Midnight, SpendInv
  <2> QED BY <1>9, <2>2 DEF SpendInv, Llm!Midnight, Llm!spendVars
<1>10. CASE Llm!RollUp BY <1>10, RollUpKept
<1>11. CASE \E g \in Groups : Llm!ForgetGroup(g) BY <1>11, ForgetKept
<1>12. ASSUME NEW g \in Groups, Llm!Ensure(g) PROVE SpendInv'
  BY <1>12 DEF SpendInv, Llm!Ensure, Llm!nightVars
<1>13. CASE UNCHANGED Llm!vars
  BY <1>13 DEF SpendInv, Llm!vars, Llm!spendVars, Llm!nightVars
<1> QED BY <1>1, <1>2, <1>3, <1>4, <1>5, <1>6, <1>7, <1>8, <1>9, <1>10, <1>11, <1>12, <1>13
        DEF Llm!Next

\* For any number of groups, calls at once and days: a total that calls are refused by
\* is money spent in its month, and after the month's nights the budget's query misses
\* no recorded completion.
THEOREM BudgetIsTrue ==
  ASSUME Llm!LlmAssumption
  PROVE  Llm!Spec => [](Llm!NeverOverstated /\ Llm!NothingUncounted)
<1>1. SpendInv => Llm!NeverOverstated
  BY SumsAreTotals DEF SpendInv, Llm!NeverOverstated, SumPaid, CachePaid, 
     Llm!MonthStart
<1>2. SpendInv => Llm!NothingUncounted
  <2> SUFFICES ASSUME SpendInv, Llm!MonthStart(today)..(today - 1) \subseteq complete
               PROVE  LET month == Llm!MonthStart(today)..(today - 1)
                      IN Llm!Sum(daily, groups, month) + Llm!Sum(usage, groups, {today})
                           >= Llm!Sum(usage, groups, month \cup {today})
    BY DEF Llm!NothingUncounted
  <2> DEFINE month == Llm!MonthStart(today)..(today - 1)
             S == groups \X month
             T == groups \X {today}
  <2>1. month \subseteq Llm!Days /\ today \in Llm!Days /\ today \notin month
    BY MonthsAre DEF SpendInv
  <2>2. groups \subseteq Groups /\ usage \in Books /\ daily \in Books /\ month \subseteq complete
    BY DEF SpendInv
  <2> HIDE DEF month
  <2>3. IsFiniteSet(S) /\ IsFiniteSet(T) BY <2>1, <2>2, DaysFinite
  <2>4. S \cap T = {} /\ S \cup T = groups \X (month \cup {today}) BY <2>1
  <2>5. \A x \in S \cup T : usage[x] \in Nat /\ daily[x] \in Nat BY <2>1, <2>2 DEF Books
  <2>6. \A x \in S : usage[x] <= daily[x]
    <3> SUFFICES ASSUME NEW g \in groups, NEW d \in month PROVE usage[<<g, d>>] <= daily[<<g, d>>]
      OBVIOUS
    <3> QED BY <2>2 DEF SpendInv, Closed
  <2> HIDE DEF S, T
  <2>7. Total(usage, S \cup T) = Total(usage, S) + Total(usage, T)
    BY <2>3, <2>4, <2>5, TotalsAdd
  <2>8. Total(usage, S) <= Total(daily, S) BY <2>3, <2>5, <2>6, TotalsCompare
  <2>9. Total(usage, S) \in Nat /\ Total(usage, T) \in Nat /\ Total(daily, S) \in Nat
    BY <2>3, <2>5, Totals
  <2>10. Total(daily, S) + Total(usage, T) >= Total(usage, S \cup T) BY <2>7, <2>8, <2>9
  <2> QED BY <2>4, <2>10, SumsAreTotals DEF S, T, month
<1> QED BY <1>1, <1>2, SpendInvInit, SpendInvNext, PTL DEF Llm!Spec

-----------------------------------------------------------------------------
(* BirthdayCalendar.                                                       *)
(*                                                                         *)
(* Whoever was in a group all day is in a collage from the moment a post of*)
(* this day can be pinned, and from the sweep on unless its collage waits. *)
(* A pin is of no later day than this, so that no new day begins with one. *)
CONSTANTS Persons, Born, Starts, MaxDays, MaxEvents
VARIABLES thisDay, nightsPast, happened, swept, inGroup, moved, jobQueue, pinned, greeted,
          foretold, excused

Cal == INSTANCE BirthdayCalendar WITH
  today <- thisDay, nights <- nightsPast, events <- happened, present <- inGroup,
  queue <- jobQueue

Dates == [y : Nat, m : 0..12, d : 0..31]
Stamp(date) == 400 * date.y + 32 * date.m + date.d

Greeted(g) ==
  \A p \in Cal!BornOn(thisDay) : Cal!Awaited(p, g) => <<p, g, thisDay>> \in greeted
Waits(g) == [kind |-> "collage", group |-> g, by |-> "sweep"] \in jobQueue

CalInv ==
  /\ thisDay \in Dates /\ thisDay.m \in 1..12 /\ pinned \in [Groups -> Dates]
  /\ \A g \in Groups : Stamp(pinned[g]) <= Stamp(thisDay)
  /\ swept => \A g \in Groups : Waits(g) \/ Greeted(g)
  /\ \A g \in Groups : pinned[g] = thisDay => Greeted(g)
  /\ \A x \in foretold : Born[x[1]] = <<x[2].m, x[2].d>>
  /\ Cal!OnTheDay

LEMMA MonthsEnd ==
  ASSUME NEW y \in Nat, NEW m \in 1..12
  PROVE  Cal!MonthLength(y, m) \in 1..31
BY DEF Cal!MonthLength

\* Every day is later than the one before.
LEMMA DaysGoOn ==
  ASSUME NEW d \in Dates, d.m \in 1..12
  PROVE  /\ Cal!Tomorrow(d) \in Dates /\ Cal!Tomorrow(d).m \in 1..12
         /\ Stamp(d) < Stamp(Cal!Tomorrow(d)) /\ Stamp(d) \in Nat
<1>1. PICK y \in Nat, m \in 1..12, n \in 0..31 : y = d.y /\ m = d.m /\ n = d.d
  BY DEF Dates
<1>2. d = [y |-> y, m |-> m, d |-> n] /\ Stamp(d) = 400 * y + 32 * m + n
  BY <1>1 DEF Dates, Stamp
<1>3. Cal!MonthLength(y, m) \in 1..31 BY MonthsEnd
<1>4. CASE n < Cal!MonthLength(y, m)
  <2>1. Cal!Tomorrow(d) = [y |-> y, m |-> m, d |-> n + 1] BY <1>1, <1>2, <1>4 DEF Cal!Tomorrow
  <2>2. n + 1 \in 0..31 BY <1>3, <1>4
  <2> QED BY <1>2, <2>1, <2>2 DEF Dates, Stamp
<1>5. CASE ~ (n < Cal!MonthLength(y, m)) /\ m < 12
  <2>1. Cal!Tomorrow(d) = [y |-> y, m |-> m + 1, d |-> 1] BY <1>1, <1>2, <1>5 DEF Cal!Tomorrow
  <2>2. m + 1 \in 1..12 BY <1>5
  <2> QED BY <1>2, <2>1, <2>2 DEF Dates, Stamp
<1>6. CASE ~ (n < Cal!MonthLength(y, m)) /\ ~ (m < 12)
  <2>1. Cal!Tomorrow(d) = [y |-> y + 1, m |-> 1, d |-> 1] BY <1>1, <1>6 DEF Cal!Tomorrow
  <2>2. m = 12 BY <1>6
  <2> QED BY <1>2, <2>1, <2>2 DEF Dates, Stamp
<1> QED BY <1>4, <1>5, <1>6

LEMMA CalInvInit == ASSUME Cal!CalendarAssumption, Cal!Init PROVE CalInv
<1>1. thisDay \in Dates /\ thisDay.m \in 1..12
  <2>1. thisDay \in [y : Nat, m : 1..12, d : 1..Cal!MonthLength(thisDay.y, thisDay.m)]
    BY DEF Cal!Init, Cal!CalendarAssumption
  <2>2. PICK y \in Nat, m \in 1..12 : y = thisDay.y /\ m = thisDay.m BY <2>1
  <2>3. Cal!MonthLength(y, m) \in 1..31 BY MonthsEnd
  <2> QED BY <2>1, <2>2, <2>3 DEF Dates
<1>2. PICK n : n = Cal!Never OBVIOUS
<1>3. n = [y |-> 0, m |-> 0, d |-> 0] BY <1>2 DEF Cal!Never
<1>6. n \in Dates /\ n.y = 0 /\ n.m = 0 /\ n.d = 0 BY <1>3 DEF Dates
<1>4. Stamp(n) <= Stamp(thisDay) /\ n # thisDay BY <1>1, <1>6 DEF Stamp, Dates
<1>5. pinned \in [Groups -> Dates] /\ \A g \in Groups : pinned[g] = n BY <1>2, <1>6 DEF Cal!Init
<1> QED BY <1>1, <1>4, <1>5 DEF CalInv, Cal!Init, Cal!OnTheDay

\* Nobody who was greeted is awaited in vain, unless somebody new is awaited.
LEMMA StillGreeted ==
  ASSUME NEW g \in Groups, Greeted(g), thisDay' = thisDay, greeted \subseteq greeted',
         excused \subseteq excused', moved \subseteq moved',
         \A p \in Persons : <<p, g>> \in inGroup' \ moved' => <<p, g>> \in inGroup
  PROVE  Greeted(g)'
BY DEF Greeted, Cal!Awaited, Cal!BornOn

LEMMA SweepKept ==
  ASSUME CalInv, NEW failing \in BOOLEAN, Cal!Sweep(failing)
  PROVE  CalInv'
<1>1. /\ swept' /\ excused \subseteq excused' /\ jobQueue \subseteq jobQueue'
      /\ UNCHANGED <<thisDay, inGroup, moved, pinned, greeted, foretold>>
  BY DEF Cal!Sweep
<1>2. \A g \in Groups : Greeted(g) => Greeted(g)' BY <1>1, StillGreeted
<1>3. ASSUME NEW g \in Groups PROVE Waits(g)' \/ Greeted(g)'
  <2>0. PICK unread \in SUBSET Groups, out \in SUBSET Groups :
          LET asked == IF failing THEN {} ELSE Groups \ out IN
          /\ jobQueue' = jobQueue \cup
               [kind : {"collage"}, by : {"sweep"},
                group : {h \in asked : Cal!Celebrated(h) # {} /\ (h \in unread \/ ~Cal!AlreadyPostedToday(h))}]
          /\ excused' = excused \cup ((Groups \ asked) \X {thisDay})
    BY DEF Cal!Sweep
  <2>1. CASE failing \/ g \in out
    <3>1. <<g, thisDay>> \in excused' BY <2>0, <2>1
    <3> QED BY <1>1, <3>1 DEF Greeted, Cal!Awaited, Cal!BornOn
  <2>2. CASE pinned[g] = thisDay BY <1>2, <2>2 DEF CalInv
  <2>3. CASE Cal!Celebrated(g) = {}
    <3>1. \A p \in Cal!BornOn(thisDay) : <<p, g>> \notin inGroup BY <2>3 DEF Cal!Celebrated
    <3> QED BY <1>1, <3>1 DEF Greeted, Cal!Awaited, Cal!BornOn
  <2>4. CASE ~failing /\ g \notin out /\ pinned[g] # thisDay /\ Cal!Celebrated(g) # {}
    <3>1. PICK job : job = [kind |-> "collage", group |-> g, by |-> "sweep"] OBVIOUS
    <3>2. job \in jobQueue' BY <2>0, <2>4, <3>1 DEF Cal!AlreadyPostedToday
    <3> QED BY <3>1, <3>2 DEF Waits
  <2> QED BY <2>1, <2>2, <2>3, <2>4
<1> QED BY <1>1, <1>2, <1>3 DEF CalInv, Cal!OnTheDay

LEMMA CollageKept ==
  ASSUME CalInv, NEW failing \in BOOLEAN, NEW job \in jobQueue, Cal!PostCollage(job, failing)
  PROVE  CalInv'
<1> DEFINE h == job.group
           people == IF failing THEN {} ELSE Cal!Celebrated(h)
<1>1. /\ jobQueue \ {job} \subseteq jobQueue'
      /\ greeted \subseteq greeted' /\ greeted' \subseteq greeted \cup (people \X {h} \X {thisDay})
      /\ people \X {h} \X {thisDay} \subseteq greeted'
      /\ excused \subseteq excused' /\ (failing => <<h, thisDay>> \in excused')
      /\ pinned' \in {pinned, [pinned EXCEPT ![h] = thisDay]}
      /\ UNCHANGED <<thisDay, swept, inGroup, moved, foretold>>
  BY DEF Cal!PostCollage
<1>2. \A g \in Groups : Greeted(g) => Greeted(g)' BY <1>1, StillGreeted
<1>3. h \in Groups => Greeted(h)'
  <2> SUFFICES ASSUME NEW p \in Cal!BornOn(thisDay), Cal!Awaited(p, h)'
               PROVE  <<p, h, thisDay>> \in greeted'
    BY <1>1 DEF Greeted, Cal!BornOn
  <2>1. ~failing /\ <<p, h>> \in inGroup BY <1>1 DEF Cal!Awaited
  <2>2. p \in people BY <2>1 DEF Cal!Celebrated
  <2> QED BY <1>1, <2>2
<1>4. \A x \in people \X {h} \X {thisDay} : Born[x[1]] = <<x[3].m, x[3].d>>
  BY DEF Cal!Celebrated, Cal!BornOn
<1> HIDE DEF h, people
<1>5. Cal!OnTheDay' BY <1>1, <1>4 DEF CalInv, Cal!OnTheDay
<1>6. /\ pinned' \in [Groups -> Dates]
      /\ \A g \in Groups : Stamp(pinned'[g]) <= Stamp(thisDay)
      /\ \A g \in Groups : pinned'[g] = thisDay => Greeted(g)'
  <2>1. CASE pinned' = pinned BY <1>2, <2>1 DEF CalInv
  <2>2. CASE pinned' = [pinned EXCEPT ![h] = thisDay]
    <3>1. /\ pinned' \in [Groups -> Dates]
          /\ \A g \in Groups : pinned'[g] = IF g = h THEN thisDay ELSE pinned[g]
      BY <2>2 DEF CalInv
    <3>2. Stamp(thisDay) <= Stamp(thisDay) BY DaysGoOn DEF CalInv
    <3> QED BY <1>2, <1>3, <3>1, <3>2 DEF CalInv
  <2> QED BY <1>1, <2>1, <2>2
<1>7. swept' => \A g \in Groups : Waits(g)' \/ Greeted(g)'
  <2> SUFFICES ASSUME swept, NEW g \in Groups, g # h PROVE Waits(g)' \/ Greeted(g)'
    BY <1>1, <1>3
  <2>1. Waits(g) \/ Greeted(g) BY DEF CalInv
  <2>2. Waits(g) => Waits(g)' BY <1>1 DEF Waits, h
  <2> QED BY <1>2, <2>1, <2>2
<1> QED BY <1>1, <1>5, <1>6, <1>7 DEF CalInv

LEMMA FailedPostKept ==
  ASSUME CalInv, NEW job \in jobQueue, Cal!CollageFails(job)
  PROVE  CalInv'
<1> DEFINE h == job.group
           people == Cal!Celebrated(h)
<1>1. /\ jobQueue' = jobQueue \ {job} /\ excused \subseteq excused'
      /\ greeted' \in {greeted, greeted \cup (people \X {h} \X {thisDay})}
      /\ job.by = "sweep" => <<h, thisDay>> \in excused'
      /\ UNCHANGED <<thisDay, swept, inGroup, moved, pinned, foretold>>
  BY DEF Cal!CollageFails
<1>2. \A x \in people \X {h} \X {thisDay} : Born[x[1]] = <<x[3].m, x[3].d>>
  BY DEF Cal!Celebrated, Cal!BornOn
<1> HIDE DEF people
<1>3. Cal!OnTheDay' BY <1>1, <1>2 DEF CalInv, Cal!OnTheDay
<1>4. \A g \in Groups : Greeted(g) => Greeted(g)' BY <1>1, StillGreeted
<1>5. ASSUME NEW g \in Groups, Waits(g) PROVE Waits(g)' \/ Greeted(g)'
  <2>1. CASE job = [kind |-> "collage", group |-> g, by |-> "sweep"]
    <3>1. <<g, thisDay>> \in excused' BY <1>1, <2>1
    <3> QED BY <1>1, <3>1 DEF Greeted, Cal!Awaited, Cal!BornOn
  <2>2. CASE job # [kind |-> "collage", group |-> g, by |-> "sweep"]
    BY <1>1, <1>5, <2>2 DEF Waits
  <2> QED BY <2>1, <2>2
<1> QED BY <1>1, <1>3, <1>4, <1>5 DEF CalInv

LEMMA CalInvNext ==
  ASSUME CalInv, [Cal!Next]_Cal!calendarVars
  PROVE  CalInv'
<1>1. ASSUME NEW g \in Groups, Cal!Birthday(g) PROVE CalInv'
  <2>1. /\ jobQueue \subseteq jobQueue'
        /\ UNCHANGED <<thisDay, swept, inGroup, moved, pinned, greeted, foretold, excused>>
    BY <1>1 DEF Cal!Birthday
  <2>2. \A q \in Groups : (Waits(q) => Waits(q)') /\ (Greeted(q) => Greeted(q)')
    BY <2>1, StillGreeted DEF Waits
  <2> QED BY <2>1, <2>2 DEF CalInv, Cal!OnTheDay
<1>2. ASSUME NEW g \in Groups, NEW p \in Persons, Cal!Move(p, g) PROVE CalInv'
  <2>1. /\ \A x : x \in inGroup' \ moved' => x \in inGroup
        /\ moved \subseteq moved'
        /\ UNCHANGED <<thisDay, swept, jobQueue, pinned, greeted, foretold, excused>>
    BY <1>2 DEF Cal!Move
  <2>2. \A q \in Groups : (Waits(q) => Waits(q)') /\ (Greeted(q) => Greeted(q)')
    BY <2>1, StillGreeted DEF Waits
  <2> QED BY <2>1, <2>2 DEF CalInv, Cal!OnTheDay
<1>3. ASSUME Cal!NextBirthdays \/ \E job \in jobQueue : Cal!Followup(job) PROVE CalInv'
  <2>1. /\ foretold' = foretold \cup Cal!Forecast
        /\ \A g \in Groups : Waits(g) => Waits(g)'
        /\ UNCHANGED <<thisDay, swept, inGroup, moved, pinned, greeted, excused>>
    BY <1>3 DEF Cal!NextBirthdays, Cal!Followup, Waits
  <2>2. \A x \in Cal!Forecast : Born[x[1]] = <<x[2].m, x[2].d>>
    <3> SUFFICES ASSUME NEW k \in 1..4, NEW x \in Cal!BornOn(Cal!InDays(thisDay, k)) \X {Cal!InDays(thisDay, k)}
                 PROVE  Born[x[1]] = <<x[2].m, x[2].d>>
      BY DEF Cal!Forecast
    <3> QED BY DEF Cal!BornOn
  <2>3. \A g \in Groups : Greeted(g) => Greeted(g)' BY <2>1, StillGreeted
  <2> QED BY <2>1, <2>2, <2>3 DEF CalInv, Cal!OnTheDay
<1>4. CASE Cal!Midnight
  <2>1. /\ thisDay' = Cal!Tomorrow(thisDay) /\ swept' = FALSE
        /\ UNCHANGED <<jobQueue, pinned, greeted, foretold>>
    BY <1>4 DEF Cal!Midnight
  <2>2. /\ thisDay' \in Dates /\ thisDay'.m \in 1..12
        /\ Stamp(thisDay) < Stamp(thisDay') /\ Stamp(thisDay) \in Nat
    BY <2>1, DaysGoOn DEF CalInv
  <2>3. ASSUME NEW g \in Groups PROVE Stamp(pinned[g]) <= Stamp(thisDay') /\ pinned[g] # thisDay'
    <3>1. /\ pinned[g] \in Dates /\ Stamp(pinned[g]) <= Stamp(thisDay)
      BY DEF CalInv
    <3>2. Stamp(pinned[g]) \in Nat /\ Stamp(thisDay') \in Nat BY <2>2, <3>1 DEF Stamp, Dates
    <3> QED BY <2>2, <3>1, <3>2
  <2> QED BY <2>1, <2>2, <2>3 DEF CalInv, Cal!OnTheDay
<1>5. CASE UNCHANGED Cal!calendarVars
  <2>1. /\ \A g \in Groups : (Waits(g) => Waits(g)') /\ (Greeted(g) => Greeted(g)')
        /\ UNCHANGED <<thisDay, swept, pinned, greeted, foretold>>
    BY <1>5, StillGreeted DEF Cal!calendarVars, Waits
  <2> QED BY <2>1 DEF CalInv, Cal!OnTheDay
<1> QED BY <1>1, <1>2, <1>3, <1>4, <1>5, SweepKept, CollageKept, FailedPostKept DEF Cal!Next

\* For any persons, groups, dates and number of days: whoever is born on this day and was
\* in the group all of it is in a collage there once the sweep and what it queued are
\* done, unless the sweep left the group out, a query failed or the sweep's post did;
\* and nobody is congratulated on another day.
THEOREM NobodyForgotten ==
  ASSUME Cal!CalendarAssumption
  PROVE  Cal!Spec => []Cal!CalendarHolds
<1>1. ASSUME CalInv PROVE Cal!CalendarHolds
  <2>1. ASSUME NEW g \in Groups, Cal!DayDone(g) PROVE Greeted(g)
    BY <1>1, <2>1 DEF CalInv, Cal!DayDone, Waits
  <2>2. ASSUME NEW p \in Persons, <<p, thisDay>> \in foretold PROVE p \in Cal!BornOn(thisDay)
    <3>1. PICK x : x = <<p, thisDay>> OBVIOUS
    <3>2. Born[x[1]] = <<x[2].m, x[2].d>> BY <1>1, <2>2, <3>1 DEF CalInv
    <3> QED BY <3>1, <3>2 DEF Cal!BornOn
  <2> QED BY <1>1, <2>1, <2>2 DEF Cal!CalendarHolds, Cal!NobodyMissed, Greeted, CalInv
<1> QED BY <1>1, CalInvInit, CalInvNext, PTL DEF Cal!Spec

-----------------------------------------------------------------------------
(* Statistics.                                                             *)
(*                                                                         *)
(* Each day of a group was counted from some of its events, its commands   *)
(* by name from the same and perhaps later ones; and the events a finished *)
(* night owes are among those.                                             *)
CONSTANTS Interactions, DefaultDays, MaxLimit
VARIABLES reportDay, knownGroups, unwritten, stored, groupStats, commandStats, nightDue, rollJob,
          eventsMade, promised

Roll == INSTANCE Statistics WITH
  day <- reportDay, known <- knownGroups, buffer <- unwritten, events <- stored,
  stats <- groupStats, usage <- commandStats, due <- nightDue, job <- rollJob,
  made <- eventsMade, owed <- promised

Shape(j) ==
  j = [pc |-> j.pc, today |-> j.today, at |-> j.at, had |-> j.had, rows |-> j.rows]
RowsOf(E, d) ==
  [k \in {g \in Groups : Roll!Of(E, g, d) # {}} \X {d} |-> Roll!Tally(Roll!Of(E, k[1], d))]

\* What has to be counted by now: also, of a night that has come to its second day,
\* what it found of the first.
Must(j, ow) ==
  ow \cup (IF j # Roll!Idle /\ j.at = j.today THEN {e \in j.had : e.day = j.today - 1} ELSE {})

\* The row and the names of a group and a day are counts over E and F.
RowOf(st, g, d, E) ==
  IF <<g, d>> \in DOMAIN st THEN st[<<g, d>>] = Roll!Tally(Roll!Of(E, g, d))
  ELSE Roll!Of(E, g, d) = {}
NamesOf(us, g, d, F) ==
  \A c \in Roll!Commands :
    LET named == Roll!Using(Roll!Of(F, g, d), c) IN
      /\ <<g, d, c>> \in DOMAIN us <=> named # {}
      /\ named # {} => us[<<g, d, c>>] = Roll!Invocations(named)
Drawn(st, us, ev, O, g, d) ==
  \E F \in SUBSET ev : \E E \in SUBSET F :
    Roll!Of(O, g, d) \subseteq E /\ RowOf(st, g, d, E) /\ NamesOf(us, g, d, F)

RollInv ==
  /\ reportDay \in Nat
  /\ IsFiniteSet(unwritten) /\ IsFiniteSet(stored)
  /\ \A e \in unwritten \cup stored :
       e.group \in Groups /\ e.day \in 0..reportDay /\ e.what \in Interactions
  /\ promised \subseteq stored
  /\ DOMAIN groupStats \subseteq Groups \X Nat
  /\ DOMAIN commandStats \subseteq Groups \X Nat \X Roll!Commands
  /\ rollJob # Roll!Idle =>
       /\ Shape(rollJob) /\ rollJob.pc \in {"groups", "commands"}
       /\ reportDay > 0 /\ rollJob.today = reportDay
       /\ rollJob.at \in {reportDay - 1, reportDay} \cap Nat
       /\ rollJob.had \subseteq stored
       /\ rollJob.pc = "commands" =>
            \E E \in SUBSET stored :
              /\ Must(rollJob, promised) \cup rollJob.had \subseteq E
              /\ rollJob.rows = RowsOf(E, rollJob.at)
  /\ (nightDue => reportDay > 0)
  /\ \A g \in Groups, d \in Nat :
       Drawn(groupStats, commandStats, stored, Must(rollJob, promised), g, d)

LEMMA IdleIsNone == ASSUME NEW j, j = Roll!Idle PROVE j.pc = "idle"
BY DEF Roll!Idle

LEMMA DrawnOf ==
  ASSUME NEW st, NEW us, NEW ev, NEW O, NEW g, NEW d, Drawn(st, us, ev, O, g, d),
         NEW ew, ev \subseteq ew, NEW N, Roll!Of(N, g, d) \subseteq Roll!Of(O, g, d)
  PROVE  Drawn(st, us, ew, N, g, d)
BY DEF Drawn

\* What of the state a step changes besides the numbers.
LEMMA NumbersStand ==
  ASSUME RollInv, stored \subseteq stored', UNCHANGED <<groupStats, commandStats>>,
         Must(rollJob', promised') \subseteq Must(rollJob, promised)
  PROVE  \A g \in Groups, d \in Nat :
           Drawn(groupStats', commandStats', stored', Must(rollJob', promised'), g, d)
BY DrawnOf DEF RollInv, Roll!Of

LEMMA RollInvInit == ASSUME Roll!Init PROVE RollInv
<1>1. IsFiniteSet({}) BY FS_EmptySet
<1>2. ASSUME NEW g \in Groups, NEW d \in Nat
      PROVE  Drawn(groupStats, commandStats, {}, {}, g, d)
  <2>1. /\ DOMAIN groupStats = {} /\ DOMAIN commandStats = {}
    BY DEF Roll!Init, Roll!NoRows
  <2>2. RowOf(groupStats, g, d, {}) BY <2>1 DEF RowOf, Roll!Of
  <2>3. NamesOf(commandStats, g, d, {}) BY <2>1 DEF NamesOf, Roll!Of, Roll!Using
  <2> QED BY <2>2, <2>3 DEF Drawn, Roll!Of
<1>3. Must(rollJob, promised) = {} BY DEF Roll!Init, Must
<1> QED BY <1>1, <1>2, <1>3 DEF RollInv, Roll!Init, Roll!NoRows

LEMMA RecordKept ==
  ASSUME RollInv, NEW g \in Groups, NEW u \in Users, NEW what \in Interactions, Roll!Record(g, u, what)
  PROVE  RollInv'
<1>1. PICK e : e = [n |-> eventsMade', group |-> g, user |-> u, what |-> what, day |-> reportDay]
  OBVIOUS
<1>2. /\ unwritten' = unwritten \cup {e} /\ e.group = g /\ e.day = reportDay /\ e.what = what
      /\ UNCHANGED <<reportDay, stored, groupStats, commandStats, nightDue, rollJob, promised>>
  BY <1>1 DEF Roll!Record
<1>3. IsFiniteSet(unwritten') BY <1>2, FS_AddElement DEF RollInv
<1>4. \A x \in unwritten' \cup stored' :
        x.group \in Groups /\ x.day \in 0..reportDay /\ x.what \in Interactions
  BY <1>2 DEF RollInv
<1> QED BY <1>2, <1>3, <1>4 DEF RollInv

LEMMA FlushKept ==
  ASSUME RollInv, NEW out \in SUBSET unwritten, Roll!Flush(out)
  PROVE  RollInv'
<1>1. /\ unwritten' = unwritten \ out /\ stored' \in {stored \cup out, stored}
      /\ UNCHANGED <<reportDay, groupStats, commandStats, nightDue, rollJob, promised>>
  BY DEF Roll!Flush
<1>2. IsFiniteSet(unwritten') /\ IsFiniteSet(out) BY <1>1, FS_Subset DEF RollInv
<1>3. IsFiniteSet(stored') /\ stored \subseteq stored'
  <2>1. IsFiniteSet(stored) BY DEF RollInv
  <2>2. IsFiniteSet(stored \cup out) BY <1>2, <2>1, FS_Union
  <2> QED BY <1>1, <2>1, <2>2
<1>4. \A x \in unwritten' \cup stored' :
        x.group \in Groups /\ x.day \in 0..reportDay /\ x.what \in Interactions
  BY <1>1 DEF RollInv
<1>5. \A g \in Groups, d \in Nat :
        Drawn(groupStats', commandStats', stored', Must(rollJob', promised'), g, d)
  BY <1>1, <1>3, NumbersStand
<1>6. ASSUME rollJob # Roll!Idle, rollJob.pc = "commands"
      PROVE  \E E \in SUBSET stored' :
               Must(rollJob, promised) \cup rollJob.had \subseteq E /\ rollJob.rows = RowsOf(E, rollJob.at)
  BY <1>3, <1>6 DEF RollInv
<1> QED BY <1>1, <1>2, <1>3, <1>4, <1>5, <1>6 DEF RollInv

\* The night begins, or comes to its second INSERT.
LEMMA BeginKept ==
  ASSUME RollInv, Roll!Begin
  PROVE  RollInv'
<1>1. PICK j : j = [pc |-> "groups", today |-> reportDay, at |-> reportDay - 1, had |-> stored,
                    rows |-> Roll!NoRows]
  OBVIOUS
<1>2. /\ rollJob' = j /\ rollJob = Roll!Idle /\ nightDue' = FALSE /\ reportDay > 0
      /\ UNCHANGED <<reportDay, unwritten, stored, groupStats, commandStats, promised>>
  BY <1>1 DEF Roll!Begin, Roll!FirstDay, RollInv
<1>3. /\ Shape(j) /\ j.pc = "groups" /\ j.today = reportDay /\ j.at = reportDay - 1
      /\ j.had = stored
  BY <1>1 DEF Shape
<1>4. reportDay \in Nat /\ reportDay - 1 \in Nat /\ reportDay - 1 # reportDay BY <1>2 DEF RollInv
<1>5. Must(j, promised) = promised /\ Must(rollJob, promised) = promised
  BY <1>2, <1>3, <1>4 DEF Must
<1>6. \A g \in Groups, d \in Nat :
        Drawn(groupStats', commandStats', stored', Must(rollJob', promised'), g, d)
  BY <1>2, <1>5, NumbersStand
<1> QED BY <1>2, <1>3, <1>4, <1>6 DEF RollInv

LEMMA GroupsKept ==
  ASSUME RollInv, rollJob # Roll!Idle, Roll!AggregateGroups
  PROVE  RollInv'
<1>1. /\ rollJob' = [rollJob EXCEPT !.pc = "commands", !.rows = RowsOf(stored, rollJob.at)]
      /\ UNCHANGED <<reportDay, unwritten, stored, groupStats, commandStats, nightDue, promised>>
  BY DEF Roll!AggregateGroups, RowsOf
<1>2. Shape(rollJob) BY DEF RollInv
<1>3. /\ Shape(rollJob') /\ rollJob'.pc = "commands" /\ rollJob'.today = rollJob.today
      /\ rollJob'.at = rollJob.at /\ rollJob'.had = rollJob.had
      /\ rollJob'.rows = RowsOf(stored, rollJob.at)
  BY <1>1, <1>2 DEF Shape
<1>4. rollJob' # Roll!Idle BY <1>3, IdleIsNone
<1>5. Must(rollJob', promised) = Must(rollJob, promised) BY <1>3, <1>4 DEF Must
<1>6. \A g \in Groups, d \in Nat :
        Drawn(groupStats', commandStats', stored', Must(rollJob', promised'), g, d)
  BY <1>1, <1>5, NumbersStand
<1>7. Must(rollJob', promised') \cup rollJob'.had \subseteq stored'
  BY <1>1, <1>3, <1>5 DEF RollInv, Must
<1> QED BY <1>1, <1>3, <1>6, <1>7 DEF RollInv

\* The commit: the rows of the first INSERT are of E, the names of all there is now.
LEMMA CommandsKept ==
  ASSUME RollInv, rollJob # Roll!Idle, Roll!AggregateCommands
  PROVE  RollInv'
<1> DEFINE at == rollJob.at
           jobDay == rollJob.today
           called == {k \in Groups \X {at} \X Roll!Commands : Roll!Using(Roll!Of(stored, k[1], at), k[3]) # {}}
           named == [k \in called |-> Roll!Invocations(Roll!Using(Roll!Of(stored, k[1], at), k[3]))]
<1>1. /\ rollJob.pc = "commands"
      /\ groupStats' = Roll!Over(rollJob.rows, groupStats)
      /\ commandStats' = Roll!Over(named, commandStats)
      /\ UNCHANGED <<reportDay, unwritten, stored, nightDue>>
  BY DEF Roll!AggregateCommands, Roll!Upserted
<1>2. /\ Shape(rollJob) /\ jobDay = reportDay /\ at \in {reportDay - 1, reportDay} \cap Nat
      /\ rollJob.had \subseteq stored /\ reportDay \in Nat
  BY DEF RollInv
<1>3. PICK E \in SUBSET stored :
        /\ Must(rollJob, promised) \cup rollJob.had \subseteq E
        /\ rollJob.rows = RowsOf(E, at)
  BY <1>1 DEF RollInv
<1>4. /\ \/ at = jobDay /\ rollJob' = Roll!Idle
            /\ promised' = promised \cup {e \in rollJob.had : e.day >= jobDay - 1}
         \/ at # jobDay /\ rollJob' = [rollJob EXCEPT !.pc = "groups", !.at = jobDay, !.rows = Roll!NoRows]
            /\ promised' = promised
  BY DEF Roll!AggregateCommands
<1> HIDE DEF at, jobDay, called, named
<1>5. /\ promised' \subseteq stored
      /\ rollJob' # Roll!Idle =>
           /\ Shape(rollJob') /\ rollJob'.pc = "groups" /\ rollJob'.today = jobDay
           /\ rollJob'.at = jobDay /\ rollJob'.had = rollJob.had
  <2>1. CASE at = jobDay BY <1>2, <1>4, <2>1 DEF RollInv
  <2>2. CASE at # jobDay BY <1>2, <1>4, <2>2 DEF RollInv, Shape
  <2> QED BY <2>1, <2>2
<1>6. Must(rollJob', promised') \subseteq Must(rollJob, promised) \cup {e \in rollJob.had : e.day = at}
  <2>1. ASSUME NEW e \in rollJob.had PROVE e.day \in 0..jobDay
    BY <1>2, <2>1 DEF RollInv
  <2>2. CASE at = jobDay
    <3>1. Must(rollJob', promised') = promised \cup {e \in rollJob.had : e.day >= jobDay - 1}
      BY <1>4, <2>2 DEF Must
    <3>2. {e \in rollJob.had : e.day = jobDay - 1} \subseteq Must(rollJob, promised)
      BY <2>2 DEF Must, at, jobDay
    <3>3. \A e \in rollJob.had : e.day >= jobDay - 1 => e.day = jobDay - 1 \/ e.day = at
      BY <1>2, <2>1, <2>2
    <3> QED BY <3>1, <3>2, <3>3 DEF Must
  <2>3. CASE at # jobDay
    <3>1. at = jobDay - 1 BY <1>2, <2>3
    <3>2. promised' = promised BY <1>4, <2>3
    <3>3. rollJob' # Roll!Idle => rollJob'.today = jobDay /\ rollJob'.had = rollJob.had BY <1>5
    <3> QED BY <3>1, <3>2, <3>3 DEF Must
  <2> QED BY <2>2, <2>3
<1>7. /\ DOMAIN groupStats' = DOMAIN rollJob.rows \cup DOMAIN groupStats
      /\ \A k \in DOMAIN groupStats' :
           groupStats'[k] = IF k \in DOMAIN rollJob.rows THEN rollJob.rows[k] ELSE groupStats[k]
  BY <1>1 DEF Roll!Over
<1>8. /\ DOMAIN commandStats' = called \cup DOMAIN commandStats
      /\ \A k \in DOMAIN commandStats' :
           commandStats'[k] = IF k \in called THEN named[k] ELSE commandStats[k]
  BY <1>1 DEF Roll!Over, named
<1>9. /\ DOMAIN rollJob.rows = {g \in Groups : Roll!Of(E, g, at) # {}} \X {at}
      /\ \A k \in DOMAIN rollJob.rows : rollJob.rows[k] = Roll!Tally(Roll!Of(E, k[1], at))
  BY <1>3 DEF RowsOf
<1>10. /\ DOMAIN groupStats' \subseteq Groups \X Nat
       /\ DOMAIN commandStats' \subseteq Groups \X Nat \X Roll!Commands
  BY <1>2, <1>7, <1>8, <1>9 DEF RollInv, called
<1>11. ASSUME NEW g \in Groups, NEW d \in Nat
       PROVE  Drawn(groupStats', commandStats', stored', Must(rollJob', promised'), g, d)
  <2>0. Drawn(groupStats, commandStats, stored, Must(rollJob, promised), g, d)
    BY DEF RollInv
  <2>1. CASE d # at
    <3>1. <<g, d>> \notin DOMAIN rollJob.rows BY <1>9, <2>1
    <3>2. \A c : <<g, d, c>> \notin called BY <2>1 DEF called
    <3>3. Roll!Of(Must(rollJob', promised'), g, d) \subseteq Roll!Of(Must(rollJob, promised), g, d)
      BY <1>6, <2>1 DEF Roll!Of
    <3>4. \A F : RowOf(groupStats, g, d, F) => RowOf(groupStats', g, d, F)
      BY <1>7, <3>1 DEF RowOf
    <3>5. \A F : NamesOf(commandStats, g, d, F) => NamesOf(commandStats', g, d, F)
      BY <1>8, <3>2 DEF NamesOf
    <3> QED BY <1>1, <2>0, <3>3, <3>4, <3>5 DEF Drawn
  <2>2. CASE d = at
    <3>1. Roll!Of(Must(rollJob', promised'), g, d) \subseteq E
      BY <1>3, <1>6 DEF Roll!Of
    <3>2. PICK F0 \in SUBSET stored, E0 \in SUBSET stored :
            RowOf(groupStats, g, d, E0) /\ NamesOf(commandStats, g, d, F0)
      BY <2>0 DEF Drawn
    <3>3. NamesOf(commandStats', g, d, stored)
      <4> SUFFICES ASSUME NEW c \in Roll!Commands
                   PROVE  LET used == Roll!Using(Roll!Of(stored, g, d), c) IN
                            /\ <<g, d, c>> \in DOMAIN commandStats' <=> used # {}
                            /\ used # {} => commandStats'[<<g, d, c>>] = Roll!Invocations(used)
        BY DEF NamesOf
      <4>1. PICK k : k = <<g, d, c>> OBVIOUS
      <4>2. k \in Groups \X {at} \X Roll!Commands /\ k[1] = g /\ k[3] = c BY <2>2, <4>1
      <4>3. k \in called <=> Roll!Using(Roll!Of(stored, g, d), c) # {} BY <2>2, <4>2 DEF called
      <4>4. k \in called => named[k] = Roll!Invocations(Roll!Using(Roll!Of(stored, g, d), c))
        BY <2>2, <4>2 DEF named
      <4>5. Roll!Using(Roll!Of(F0, g, d), c) \subseteq Roll!Using(Roll!Of(stored, g, d), c)
        BY DEF Roll!Using, Roll!Of
      <4>6. k \in DOMAIN commandStats => Roll!Using(Roll!Of(F0, g, d), c) # {}
        BY <3>2, <4>1 DEF NamesOf
      <4> QED BY <1>8, <4>1, <4>3, <4>4, <4>5, <4>6
    <3>4. CASE Roll!Of(E, g, d) # {}
      <4>1. PICK k : k = <<g, d>> OBVIOUS
      <4>2. k \in DOMAIN rollJob.rows /\ k[1] = g BY <1>9, <2>2, <3>4, <4>1
      <4>3. RowOf(groupStats', g, d, E) BY <1>7, <1>9, <2>2, <4>1, <4>2 DEF RowOf
      <4> QED BY <1>1, <3>1, <3>3, <4>3 DEF Drawn
    <3>5. CASE Roll!Of(E, g, d) = {}
      <4>1. <<g, d>> \notin DOMAIN rollJob.rows BY <1>9, <2>2, <3>5
      <4>2. RowOf(groupStats', g, d, E0) BY <1>7, <3>2, <4>1 DEF RowOf
      <4>3. Roll!Of(Must(rollJob', promised'), g, d) \subseteq E0
        BY <3>1, <3>5 DEF Roll!Of
      <4> QED BY <1>1, <3>3, <4>2, <4>3 DEF Drawn
    <3> QED BY <3>4, <3>5
  <2> QED BY <2>1, <2>2
<1> QED BY <1>1, <1>2, <1>5, <1>10, <1>11 DEF RollInv

LEMMA RollInvNext ==
  ASSUME RollInv, [Roll!Next]_Roll!vars
  PROVE  RollInv'
<1>1. CASE Roll!Midnight
  <2>1. /\ reportDay' = reportDay + 1 /\ nightDue' = TRUE /\ rollJob = Roll!Idle
        /\ UNCHANGED <<unwritten, stored, groupStats, commandStats, rollJob, promised>>
    BY <1>1 DEF Roll!Midnight
  <2>2. PICK n : n = reportDay + 1 OBVIOUS
  <2>3. n \in Nat /\ n > 0 /\ 0..reportDay \subseteq 0..n BY <2>2 DEF RollInv
  <2>4. \A g \in Groups, d \in Nat :
          Drawn(groupStats', commandStats', stored', Must(rollJob', promised'), g, d)
    BY <2>1 DEF RollInv
  <2> QED BY <2>1, <2>2, <2>3, <2>4 DEF RollInv
<1>2. CASE Roll!MissNight
  BY <1>2 DEF Roll!MissNight, RollInv
<1>3. CASE Roll!JobDies
  <2>1. /\ rollJob' = Roll!Idle /\ nightDue' \in {nightDue, TRUE}
        /\ UNCHANGED <<reportDay, unwritten, stored, groupStats, commandStats, promised>>
        /\ rollJob # Roll!Idle
    BY <1>3 DEF Roll!JobDies
  <2>2. Must(rollJob', promised') \subseteq Must(rollJob, promised) BY <2>1 DEF Must
  <2>3. \A g \in Groups, d \in Nat :
          Drawn(groupStats', commandStats', stored', Must(rollJob', promised'), g, d)
    BY <2>1, <2>2, NumbersStand
  <2> QED BY <2>1, <2>3 DEF RollInv
<1>4. ASSUME NEW g \in Groups, Roll!ForgetGroup(g) PROVE RollInv'
  BY <1>4 DEF Roll!ForgetGroup, RollInv
<1>5. CASE UNCHANGED Roll!vars
  BY <1>5 DEF Roll!vars, RollInv
<1> QED BY <1>1, <1>2, <1>3, <1>4, <1>5, RecordKept, FlushKept, BeginKept, GroupsKept, CommandsKept
        DEF Roll!Next, Roll!RollUp

AllColumns == Roll!Columns \cup {"active_users"}

LEMMA SameCardinality == \A S : Roll!Cardinality(S) = Cardinality(S)
BY DEF Roll!Cardinality, Cardinality, Roll!IsFiniteSet, IsFiniteSet

LEMMA TallyIs ==
  ASSUME NEW E
  PROVE  /\ Roll!Tally(E)["active_users"] = Cardinality({e.user : e \in E})
         /\ \A c \in Roll!Columns :
              Roll!Tally(E)[c] = Cardinality({e \in E : Roll!Counted(c, e)})
<1>1. "active_users" \notin Roll!Columns BY DEF Roll!Columns
<1>2. Roll!Tally(E)["active_users"] = Roll!Cardinality({e.user : e \in E}) BY DEF Roll!Tally
<1>3. \A c \in Roll!Columns :
        Roll!Tally(E)[c] = Roll!Cardinality({e \in E : Roll!Counted(c, e)})
  BY <1>1 DEF Roll!Tally
<1> QED BY <1>2, <1>3, SameCardinality

\* The invocations of the names of S.
InvocationsOf(us, S) ==
  (CHOOSE F : F = [s \in SUBSET S |-> IF s = {} THEN 0
                     ELSE us[CHOOSE m \in s : TRUE].invocations
                          + F[s \ {CHOOSE m \in s : TRUE}]])[S]

\* More events count for no less.
LEMMA TallyGrows ==
  ASSUME NEW F, IsFiniteSet(F), NEW E \in SUBSET F, NEW c \in AllColumns
  PROVE  Roll!Tally(E)[c] \in Nat /\ Roll!Tally(F)[c] \in Nat /\ Roll!Tally(E)[c] <= Roll!Tally(F)[c]
<1>0. IsFiniteSet(E) BY FS_Subset
<1>1. CASE c = "active_users"
  <2>1. /\ Roll!Tally(E)[c] = Cardinality({e.user : e \in E})
        /\ Roll!Tally(F)[c] = Cardinality({e.user : e \in F})
    BY <1>1, TallyIs
  <2>2. IsFiniteSet({e.user : e \in F})
    <3>1. [e \in F |-> e.user] \in Surjection(F, {e.user : e \in F}) BY DEF Surjection
    <3> QED BY <3>1, FS_Surjection
  <2>3. {e.user : e \in E} \subseteq {e.user : e \in F} OBVIOUS
  <2> QED BY <2>1, <2>2, <2>3, FS_Subset, FS_CardinalityType
<1>2. CASE c # "active_users"
  <2>1. /\ Roll!Tally(E)[c] = Cardinality({e \in E : Roll!Counted(c, e)})
        /\ Roll!Tally(F)[c] = Cardinality({e \in F : Roll!Counted(c, e)})
    BY <1>2, TallyIs DEF AllColumns
  <2>2. IsFiniteSet({e \in F : Roll!Counted(c, e)}) BY FS_Subset
  <2>3. {e \in E : Roll!Counted(c, e)} \subseteq {e \in F : Roll!Counted(c, e)} OBVIOUS
  <2> QED BY <2>1, <2>2, <2>3, FS_Subset, FS_CardinalityType
<1> QED BY <1>1, <1>2

InvocationsSummed(us, S, H) ==
  /\ H[{}] = 0
  /\ \A s \in SUBSET S : H[s] \in Nat
  /\ \A s \in SUBSET S : \A m \in s : H[s] = us[m].invocations + H[s \ {m}]

\* The sum of one table's column, whatever is summed first.
LEMMA InvocationsAdd ==
  ASSUME NEW S, IsFiniteSet(S), NEW us, \A m \in S : us[m].invocations \in Nat
  PROVE  \E H : InvocationsOf(us, S) = H[S] /\ InvocationsSummed(us, S, H)
<1> DEFINE Sums(F) ==
             F = [s \in SUBSET S |-> IF s = {} THEN 0
                    ELSE us[CHOOSE m \in s : TRUE].invocations + F[s \ {CHOOSE m \in s : TRUE}]]
<1>1. PICK v : v = [m \in S |-> us[m].invocations] OBVIOUS
<1>2. \A m \in S : v[m] = us[m].invocations /\ v[m] \in Nat BY <1>1
<1>3. ASSUME NEW F PROVE Sums(F) <=> Adds(F, v, S)
  <2>1. \A s \in SUBSET S : s # {} =>
          us[CHOOSE m \in s : TRUE].invocations = v[CHOOSE m \in s : TRUE]
    <3> SUFFICES ASSUME NEW s \in SUBSET S, s # {}
                 PROVE  us[CHOOSE m \in s : TRUE].invocations = v[CHOOSE m \in s : TRUE]
      OBVIOUS
    <3>1. PICK x : x = CHOOSE m \in s : TRUE OBVIOUS
    <3>2. x \in S BY <3>1
    <3> QED BY <1>2, <3>1, <3>2
  <2>2. [s \in SUBSET S |-> IF s = {} THEN 0
           ELSE us[CHOOSE m \in s : TRUE].invocations + F[s \ {CHOOSE m \in s : TRUE}]]
        = [s \in SUBSET S |-> IF s = {} THEN 0
             ELSE v[CHOOSE m \in s : TRUE] + F[s \ {CHOOSE m \in s : TRUE}]]
    BY <2>1
  <2> QED BY <2>2 DEF Adds
<1>4. InvocationsOf(us, S) = (CHOOSE F : Sums(F))[S]
  BY DEF InvocationsOf
<1>5. \E F : Sums(F)
  <2>1. PICK F : Adds(F, v, S) BY SumExists
  <2>2. Sums(F) <=> Adds(F, v, S) BY <1>3
  <2> QED BY <2>1, <2>2
<1> HIDE DEF Sums
<1>6. PICK H : H = CHOOSE F : Sums(F) OBVIOUS
<1>7. Sums(H) BY <1>5, <1>6
<1>8. Adds(H, v, S) BY <1>3, <1>7
<1>9. \A m \in S : v[m] \in Nat BY <1>2
<1>10. /\ H[{}] = 0 /\ \A s \in SUBSET S : H[s] \in Nat
       /\ \A s \in SUBSET S : \A m \in s : H[s] = v[m] + H[s \ {m}]
  BY <1>8, <1>9, AnyFirst
<1>11. \A s \in SUBSET S : \A m \in s : H[s] = us[m].invocations + H[s \ {m}]
  BY <1>2, <1>10
<1>12. InvocationsOf(us, S) = H[S] BY <1>4, <1>6
<1>13. H[{}] = 0 /\ \A s \in SUBSET S : H[s] \in Nat BY <1>10
<1>14. InvocationsSummed(us, S, H) BY <1>11, <1>13 DEF InvocationsSummed
<1> QED BY <1>12, <1>14

\* What the names of a group and a day come to is no less than its commands.
LEMMA NamesCount ==
  ASSUME Roll!StatisticsAssumption, NEW us, DOMAIN us \subseteq Groups \X Nat \X Roll!Commands,
         NEW g \in Groups, NEW d \in Nat, NEW F, IsFiniteSet(F), NamesOf(us, g, d, F),
         \A e \in F : e.what \in Interactions
  PROVE  LET named == {m \in DOMAIN us : m[1] = g /\ m[2] = d} IN
           /\ InvocationsOf(us, named) \in Nat
           /\ Roll!Tally(Roll!Of(F, g, d)).commands
                <= InvocationsOf(us, named)
<1> DEFINE here == Roll!Of(F, g, d)
           uttered == {e \in here : e.what.type = "command"}
           named == {m \in DOMAIN us : m[1] = g /\ m[2] = d}
           Meant(s) == {e \in uttered : <<g, d, e.what.command>> \in s}
<1>1. IsFiniteSet(here) /\ IsFiniteSet(uttered) BY FS_Subset DEF Roll!Of
<1>2. \A c \in Roll!Commands : IsFiniteSet(Roll!Using(here, c)) BY <1>1, FS_Subset DEF Roll!Using
<1>3. \A m \in named : /\ m[3] \in Roll!Commands /\ m = <<g, d, m[3]>>
                       /\ Roll!Using(here, m[3]) # {}
                       /\ us[m].invocations = Cardinality(Roll!Using(here, m[3]))
                       /\ us[m].invocations \in Nat
  <2> SUFFICES ASSUME NEW m \in named
               PROVE  /\ m[3] \in Roll!Commands /\ m = <<g, d, m[3]>>
                      /\ Roll!Using(here, m[3]) # {}
                      /\ us[m].invocations = Cardinality(Roll!Using(here, m[3]))
                      /\ us[m].invocations \in Nat
    OBVIOUS
  <2>1. PICK c \in Roll!Commands : m = <<g, d, c>> OBVIOUS
  <2>2. Roll!Using(here, c) # {} /\ us[m] = Roll!Invocations(Roll!Using(here, c))
    BY <2>1 DEF NamesOf
  <2>3. us[m].invocations = Cardinality(Roll!Using(here, c)) BY <2>2, SameCardinality DEF Roll!Invocations
  <2>4. us[m].invocations \in Nat BY <1>2, <2>3, FS_CardinalityType
  <2> QED BY <2>1, <2>2, <2>3, <2>4
<1>4. \A e \in uttered : <<g, d, e.what.command>> \in named
  <2> SUFFICES ASSUME NEW e \in uttered PROVE <<g, d, e.what.command>> \in named
    OBVIOUS
  <2>1. e.what \in Interactions /\ e.what.type = "command" BY DEF Roll!Of
  <2>2. PICK c : c = e.what.command OBVIOUS
  <2>3. c \in Roll!Commands BY <2>1, <2>2 DEF Roll!Commands, Roll!StatisticsAssumption
  <2>4. e \in Roll!Using(here, c) BY <2>2 DEF Roll!Using
  <2>5. <<g, d, c>> \in DOMAIN us BY <2>3, <2>4 DEF NamesOf
  <2> QED BY <2>2, <2>5
<1>5. IsFiniteSet(named)
  <2>1. named \subseteq {<<g, d, e.what.command>> : e \in here} BY <1>3 DEF Roll!Using
  <2>2. [e \in here |-> <<g, d, e.what.command>>]
          \in Surjection(here, {<<g, d, e.what.command>> : e \in here})
    BY DEF Surjection
  <2>3. IsFiniteSet({<<g, d, e.what.command>> : e \in here}) BY <1>1, <2>2, FS_Surjection
  <2> QED BY <2>1, <2>3, FS_Subset
<1>6. Roll!Tally(here).commands = Cardinality(uttered)
  <2>1. "commands" \in Roll!Columns BY DEF Roll!Columns
  <2>2. Roll!Tally(here)["commands"] = Cardinality({e \in here : Roll!Counted("commands", e)})
    BY <2>1, TallyIs
  <2>3. \A e : Roll!Counted("commands", e) <=> e.what.type = "command" BY DEF Roll!Counted
  <2> QED BY <2>2, <2>3
<1> HIDE DEF here, named
<1>6a. \A m \in named : us[m].invocations \in Nat BY <1>3
<1>6b. PICK H : InvocationsOf(us, named) = H[named] /\ InvocationsSummed(us, named, H)
  BY <1>5, <1>6a, InvocationsAdd
<1>7. /\ InvocationsOf(us, named) = H[named]
      /\ H[{}] = 0
      /\ \A s \in SUBSET named : H[s] \in Nat
      /\ \A s \in SUBSET named : \A m \in s : H[s] = us[m].invocations + H[s \ {m}]
  BY <1>6b DEF InvocationsSummed
<1> DEFINE Q == {s \in SUBSET named : Cardinality(Meant(s)) <= H[s]}
<1>8. {} \in Q
  <2>1. Meant({}) = {} OBVIOUS
  <2>2. Cardinality(Meant({})) = 0 BY <2>1, FS_EmptySet
  <2> HIDE DEF Meant
  <2> QED BY <1>7, <2>2
<1>9. ASSUME NEW s \in SUBSET named, NEW m \in s, s \ {m} \in Q PROVE s \in Q
  <2>1. m \in named /\ m = <<g, d, m[3]>> /\ us[m].invocations = Cardinality(Roll!Using(here, m[3]))
    BY <1>3
  <2>2. Meant(s) \subseteq Meant(s \ {m}) \cup Roll!Using(here, m[3])
    BY <2>1 DEF Roll!Using
  <2>3. IsFiniteSet(Meant(s)) /\ IsFiniteSet(Meant(s \ {m})) /\ IsFiniteSet(Roll!Using(here, m[3]))
    BY <1>1, <1>2, <1>3, FS_Subset
  <2> HIDE DEF Meant
  <2>4. PICK a \in Nat, b \in Nat, u \in Nat, x \in Nat :
          /\ a = Cardinality(Meant(s)) /\ b = Cardinality(Meant(s \ {m}))
          /\ u = Cardinality(Roll!Using(here, m[3]))
          /\ x = Cardinality(Meant(s \ {m}) \cap Roll!Using(here, m[3]))
    <3>1. IsFiniteSet(Meant(s \ {m}) \cap Roll!Using(here, m[3])) BY <2>3, FS_Subset
    <3> QED BY <2>3, <3>1, FS_CardinalityType
  <2>5. a <= b + u
    <3>1. /\ IsFiniteSet(Meant(s \ {m}) \cup Roll!Using(here, m[3]))
          /\ Cardinality(Meant(s \ {m}) \cup Roll!Using(here, m[3])) = b + u - x
      BY <2>3, <2>4, FS_Union
    <3>2. a <= Cardinality(Meant(s \ {m}) \cup Roll!Using(here, m[3]))
      BY <2>2, <2>4, <3>1, FS_Subset
    <3>3. a <= b + u - x BY <3>1, <3>2
    <3> QED BY <2>4, <3>3
  <2>6. PICK h \in Nat, i \in Nat : h = H[s \ {m}] /\ i = H[s] BY <1>7
  <2>7. i = u + h BY <1>7, <2>1, <2>4, <2>6
  <2>8. b <= h BY <1>9, <2>4, <2>6
  <2>9. a <= i BY <2>5, <2>7, <2>8
  <2> QED BY <2>4, <2>6, <2>9
<1> HIDE DEF Q
<1>10. named \in Q BY <1>5, <1>8, <1>9, BySteps
<1>11. Meant(named) = uttered BY <1>4
<1>12. Cardinality(uttered) <= H[named] BY <1>10, <1>11 DEF Q
<1> QED BY <1>6, <1>7, <1>12 DEF named, here

\* For any groups, users, events and nights: a rollup is never ahead of the events, counts
\* what its night found, and names the commands it counts.
THEOREM RollupsCount ==
  ASSUME Roll!StatisticsAssumption
  PROVE  Roll!Spec => [](Roll!NotAhead /\ Roll!NightCounts /\ Roll!CommandsFollow)
<1>1. ASSUME RollInv, NEW k \in DOMAIN groupStats
      PROVE  \E F \in SUBSET stored : \E E \in SUBSET F :
               /\ groupStats[k] = Roll!Tally(Roll!Of(E, k[1], k[2]))
               /\ NamesOf(commandStats, k[1], k[2], F)
               /\ k[1] \in Groups /\ k[2] \in Nat
  <2>1. PICK g \in Groups, d \in Nat : k = <<g, d>> BY <1>1 DEF RollInv
  <2>2. Drawn(groupStats, commandStats, stored, Must(rollJob, promised), g, d) BY <1>1 DEF RollInv
  <2>3. PICK F \in SUBSET stored : \E E \in SUBSET F :
          RowOf(groupStats, g, d, E) /\ NamesOf(commandStats, g, d, F)
    BY <2>2 DEF Drawn
  <2> QED BY <1>1, <2>1, <2>3 DEF RowOf
<1>2. ASSUME RollInv PROVE Roll!NotAhead
  <2> SUFFICES ASSUME NEW k \in DOMAIN groupStats, NEW c \in AllColumns
               PROVE  groupStats[k][c] <= Roll!Tally(Roll!Of(stored, k[1], k[2]))[c]
    BY DEF Roll!NotAhead, AllColumns
  <2>1. PICK E \in SUBSET stored : groupStats[k] = Roll!Tally(Roll!Of(E, k[1], k[2])) BY <1>1, <1>2
  <2>2. /\ IsFiniteSet(Roll!Of(stored, k[1], k[2]))
        /\ Roll!Of(E, k[1], k[2]) \in SUBSET Roll!Of(stored, k[1], k[2])
    BY <1>2, FS_Subset DEF RollInv, Roll!Of
  <2> QED BY <2>1, <2>2, TallyGrows
<1>3. ASSUME RollInv PROVE Roll!NightCounts
  <2> SUFFICES ASSUME NEW e \in promised, NEW k, k = <<e.group, e.day>>
               PROVE  /\ k \in DOMAIN groupStats
                      /\ \A c \in AllColumns :
                           groupStats[k][c] >= Roll!Tally(Roll!Of(promised, k[1], k[2]))[c]
    BY DEF Roll!NightCounts, AllColumns
  <2>1. PICK g \in Groups, d \in Nat : g = e.group /\ d = e.day BY <1>3 DEF RollInv
  <2>2. Drawn(groupStats, commandStats, stored, Must(rollJob, promised), g, d) BY <1>3 DEF RollInv
  <2>3. PICK E \in SUBSET stored :
          Roll!Of(Must(rollJob, promised), g, d) \subseteq E /\ RowOf(groupStats, g, d, E)
    BY <2>2 DEF Drawn
  <2>4. Roll!Of(promised, g, d) \subseteq Roll!Of(E, g, d) /\ e \in Roll!Of(E, g, d)
    BY <2>1, <2>3 DEF Must, Roll!Of
  <2>5. k \in DOMAIN groupStats /\ groupStats[k] = Roll!Tally(Roll!Of(E, g, d))
    BY <2>1, <2>3, <2>4 DEF RowOf
  <2>6. IsFiniteSet(Roll!Of(E, g, d)) BY <1>3, FS_Subset DEF RollInv, Roll!Of
  <2>7. ASSUME NEW c \in AllColumns
        PROVE  groupStats[k][c] >= Roll!Tally(Roll!Of(promised, k[1], k[2]))[c]
    <3>1. k[1] = g /\ k[2] = d BY <2>1
    <3>2. PICK a \in Nat, b \in Nat :
            a = Roll!Tally(Roll!Of(promised, g, d))[c] /\ b = Roll!Tally(Roll!Of(E, g, d))[c] /\ a <= b
      BY <2>4, <2>6, TallyGrows
    <3> QED BY <2>5, <3>1, <3>2
  <2> QED BY <2>5, <2>7
<1>4. ASSUME RollInv PROVE Roll!CommandsFollow
  <2> SUFFICES ASSUME NEW k \in DOMAIN groupStats
               PROVE  LET named == {m \in DOMAIN commandStats : m[1] = k[1] /\ m[2] = k[2]} IN
                        groupStats[k].commands
                          <= InvocationsOf(commandStats, named)
    BY DEF Roll!CommandsFollow, Roll!MapThenSumSet, Roll!MapThenFoldSet, InvocationsOf
  <2>0. PICK F \in SUBSET stored : \E E \in SUBSET F :
          /\ groupStats[k] = Roll!Tally(Roll!Of(E, k[1], k[2]))
          /\ NamesOf(commandStats, k[1], k[2], F)
          /\ k[1] \in Groups /\ k[2] \in Nat
    BY <1>1, <1>4
  <2>1. PICK E \in SUBSET F :
          /\ groupStats[k] = Roll!Tally(Roll!Of(E, k[1], k[2]))
          /\ NamesOf(commandStats, k[1], k[2], F)
          /\ k[1] \in Groups /\ k[2] \in Nat
    BY <2>0
  <2>2. IsFiniteSet(F) /\ \A e \in F : e.what \in Interactions BY <1>4, FS_Subset DEF RollInv
  <2>3. /\ IsFiniteSet(Roll!Of(F, k[1], k[2]))
        /\ Roll!Of(E, k[1], k[2]) \in SUBSET Roll!Of(F, k[1], k[2])
    BY <2>2, FS_Subset DEF Roll!Of
  <2>4. "commands" \in AllColumns BY DEF AllColumns, Roll!Columns
  <2>5. PICK a \in Nat, b \in Nat :
          /\ a = Roll!Tally(Roll!Of(E, k[1], k[2])).commands
          /\ b = Roll!Tally(Roll!Of(F, k[1], k[2])).commands /\ a <= b
    BY <2>3, <2>4, TallyGrows
  <2> DEFINE named == {m \in DOMAIN commandStats : m[1] = k[1] /\ m[2] = k[2]}
  <2>6. DOMAIN commandStats \subseteq Groups \X Nat \X Roll!Commands BY <1>4 DEF RollInv
  <2>7. /\ InvocationsOf(commandStats, named) \in Nat
        /\ b <= InvocationsOf(commandStats, named)
    BY <2>1, <2>2, <2>5, <2>6, NamesCount
  <2>8. PICK t \in Nat : t = InvocationsOf(commandStats, named) /\ b <= t
    BY <2>7
  <2>9. a <= t BY <2>5, <2>8
  <2> QED BY <2>1, <2>5, <2>8, <2>9
<1> QED BY <1>2, <1>3, <1>4, RollInvInit, RollInvNext, PTL DEF Roll!Spec

\* Whatever adds up the elements of S one after another comes to the total.
LEMMA AnySum ==
  ASSUME NEW S, IsFiniteSet(S), NEW v, NEW F, Adds(F, v, S)
  PROVE  F[S] = Total(v, S)
<1>1. PICK G : G = CHOOSE H : Adds(H, v, S) OBVIOUS
<1>2. Adds(G, v, S) /\ G[S] = Total(v, S) BY <1>1 DEF Total
<1> DEFINE Q == {s \in SUBSET S : F[s] = G[s]}
<1>3. ASSUME NEW s \in SUBSET S, \A r \in SUBSET s : r # s => r \in Q PROVE s \in Q
  <2>1. CASE s = {} BY <1>2, <2>1 DEF Adds
  <2>2. CASE s # {}
    <3>1. PICK c : c = CHOOSE x \in s : TRUE OBVIOUS
    <3>2. F[s] = v[c] + F[s \ {c}] BY <2>2, <3>1 DEF Adds
    <3>3. G[s] = v[c] + G[s \ {c}] BY <1>2, <2>2, <3>1 DEF Adds
    <3>4. c \in s BY <2>2, <3>1
    <3>5. s \ {c} \in SUBSET s /\ s \ {c} # s BY <3>4
    <3>6. F[s \ {c}] = G[s \ {c}] BY <1>3, <3>5
    <3> QED BY <3>2, <3>3, <3>6
  <2> QED BY <2>1, <2>2
<1> HIDE DEF Q
<1>4. \A s \in SUBSET S : s \in Q BY <1>3, BySize
<1> QED BY <1>2, <1>4 DEF Q

\* The total of one element.
LEMMA TotalOfOne ==
  ASSUME NEW v, NEW x, v[x] \in Nat
  PROVE  Total(v, {x}) = v[x]
<1>1. IsFiniteSet({x}) /\ {x} \ {x} = {} BY FS_Singleton
<1>2. /\ Total(v, {}) = 0 /\ \A y \in {x} : Total(v, {x}) = v[y] + Total(v, {x} \ {y})
  BY <1>1, Totals
<1>3. Total(v, {x}) = v[x] + 0 BY <1>1, <1>2
<1> QED BY <1>3

\* The elements f sends to i.
PartOf(P, f, i) == {x \in P : f[x] = i}

\* The parts f makes of P, each of them summed, and the sums of those.
LEMMA TotalsByPart ==
  ASSUME NEW P, IsFiniteSet(P), NEW v, \A x \in P : v[x] \in Nat,
         NEW I, IsFiniteSet(I), NEW f, \A x \in P : f[x] \in I,
         NEW w, \A i \in I : w[i] = Total(v, PartOf(P, f, i))
  PROVE  Total(v, P) = Total(w, I) /\ \A i \in I : w[i] \in Nat
<1> DEFINE In(J) == {x \in P : f[x] \in J}
           Q == {J \in SUBSET I : Total(v, In(J)) = Total(w, J)}
<1>1. \A J : IsFiniteSet(In(J)) /\ In(J) \subseteq P BY FS_Subset
<1>2. \A i \in I : w[i] \in Nat
  <2> SUFFICES ASSUME NEW i \in I PROVE w[i] \in Nat OBVIOUS
  <2>1. PICK part : part = PartOf(P, f, i) OBVIOUS
  <2>2. IsFiniteSet(part) /\ \A x \in part : v[x] \in Nat BY <2>1, FS_Subset DEF PartOf
  <2>3. Total(v, part) \in Nat BY <2>2, Totals
  <2> QED BY <2>1, <2>3
<1>3. {} \in Q
  <2>1. In({}) = {} OBVIOUS
  <2>2. Total(v, {}) = 0 /\ Total(w, {}) = 0 BY <1>2, Totals
  <2> QED BY <2>1, <2>2
<1>4. ASSUME NEW J \in SUBSET I, NEW i \in J, J \ {i} \in Q PROVE J \in Q
  <2>1. PICK part : part = PartOf(P, f, i) OBVIOUS
  <2>2. PICK rest : rest = In(J \ {i}) OBVIOUS
  <2>3. In(J) = rest \cup part /\ rest \cap part = {} BY <2>1, <2>2 DEF PartOf
  <2>4. /\ IsFiniteSet(rest) /\ IsFiniteSet(part) /\ rest \subseteq P /\ part \subseteq P
    BY <2>1, <2>2, FS_Subset DEF PartOf
  <2>5. \A x \in rest \cup part : v[x] \in Nat BY <2>4
  <2>6. Total(v, rest \cup part) = Total(v, rest) + Total(v, part) BY <2>3, <2>4, <2>5, TotalsAdd
  <2>7. Total(w, J) = w[i] + Total(w, J \ {i}) /\ w[i] \in Nat /\ Total(w, J \ {i}) \in Nat
    <3>1. Total(w, J) = w[i] + Total(w, J \ {i}) BY <1>2, OneMore
    <3>2. IsFiniteSet(J \ {i}) /\ \A x \in J \ {i} : w[x] \in Nat BY <1>2, FS_Subset
    <3>3. Total(w, J \ {i}) \in Nat BY <3>2, Totals
    <3> QED BY <1>2, <3>1, <3>3
  <2>8. Total(v, rest) = Total(w, J \ {i}) BY <1>4, <2>2
  <2>9. Total(v, part) = w[i] BY <2>1
  <2>10. Total(v, rest \cup part) = Total(w, J) BY <2>6, <2>7, <2>8, <2>9
  <2> QED BY <2>3, <2>10
<1> HIDE DEF Q
<1>5. I \in Q BY <1>3, <1>4, BySteps
<1>6. In(I) = P OBVIOUS
<1> QED BY <1>2, <1>5, <1>6 DEF Q

\* A sum of naturals is zero when each is.
LEMMA TotalIsZero ==
  ASSUME NEW S, IsFiniteSet(S), NEW v, \A x \in S : v[x] \in Nat
  PROVE  Total(v, S) = 0 <=> \A x \in S : v[x] = 0
<1>1. ASSUME Total(v, S) = 0, NEW x \in S PROVE v[x] = 0
  <2>1. S \in SUBSET S OBVIOUS
  <2>2. Total(v, S) = v[x] + Total(v, S \ {x}) /\ v[x] \in Nat /\ Total(v, S \ {x}) \in Nat
    BY <2>1, OneMore
  <2> QED BY <1>1, <2>2
<1> QED BY <1>1, NothingAdds

\* The sums the screens are made of, each as the fold it is written as; the lemmas
\* after them say that each is the total of what it adds up.
DaysOf(st, g, c, S) ==
  (CHOOSE F : F = [s \in SUBSET S |-> IF s = {} THEN 0
             ELSE st[<<g, CHOOSE x \in s : TRUE>>][c] + F[s \ {CHOOSE x \in s : TRUE}]])[S]
GroupsOf(st, d, c, S) ==
  (CHOOSE F : F = [s \in SUBSET S |-> IF s = {} THEN 0
             ELSE st[<<CHOOSE x \in s : TRUE, d>>][c] + F[s \ {CHOOSE x \in s : TRUE}]])[S]
DayTotals(c, S) ==
  (CHOOSE F : F = [s \in SUBSET S |-> IF s = {} THEN 0
             ELSE Roll!PlatformDay(CHOOSE x \in s : TRUE).totals[c]
                  + F[s \ {CHOOSE x \in s : TRUE}]])[S]
TotalsOf(of, c, S) ==
  (CHOOSE F : F = [s \in SUBSET S |-> IF s = {} THEN 0
             ELSE of[CHOOSE x \in s : TRUE].totals[c] + F[s \ {CHOOSE x \in s : TRUE}]])[S]
ListsOf(lists, c, S) ==
  (CHOOSE F : F = [s \in SUBSET S |-> IF s = {} THEN 0
             ELSE lists[CHOOSE x \in s : TRUE][c].invocations
                  + F[s \ {CHOOSE x \in s : TRUE}]])[S]

LEMMA DaysOfIs ==
  ASSUME NEW S, IsFiniteSet(S), NEW st, NEW g, NEW c, NEW v, \A x \in S : v[x] = st[<<g, x>>][c]
  PROVE  DaysOf(st, g, c, S) = Total(v, S)
<1> DEFINE Sums(F) ==
             F = [s \in SUBSET S |-> IF s = {} THEN 0
                    ELSE st[<<g, CHOOSE x \in s : TRUE>>][c] + F[s \ {CHOOSE x \in s : TRUE}]]
<1>1. ASSUME NEW s \in SUBSET S, s # {}
      PROVE  st[<<g, CHOOSE x \in s : TRUE>>][c] = v[CHOOSE x \in s : TRUE]
  <2>1. PICK y : y = CHOOSE x \in s : TRUE OBVIOUS
  <2>2. y \in S BY <1>1, <2>1
  <2> QED BY <2>1, <2>2
<1>2. ASSUME NEW F PROVE Sums(F) <=> Adds(F, v, S)
  <2>1. [s \in SUBSET S |-> IF s = {} THEN 0
           ELSE st[<<g, CHOOSE x \in s : TRUE>>][c] + F[s \ {CHOOSE x \in s : TRUE}]]
        = [s \in SUBSET S |-> IF s = {} THEN 0
             ELSE v[CHOOSE x \in s : TRUE] + F[s \ {CHOOSE x \in s : TRUE}]]
    BY <1>1
  <2>2. Adds(F, v, S) <=>
          F = [s \in SUBSET S |-> IF s = {} THEN 0
                 ELSE v[CHOOSE x \in s : TRUE] + F[s \ {CHOOSE x \in s : TRUE}]]
    BY DEF Adds
  <2> QED BY <2>1, <2>2
<1>3. DaysOf(st, g, c, S) = (CHOOSE F : Sums(F))[S] BY DEF DaysOf
<1>4. PICK G : Adds(G, v, S) BY SumExists
<1>5. Sums(G) BY <1>2, <1>4
<1> HIDE DEF Sums
<1>6. PICK H : H = CHOOSE F : Sums(F) OBVIOUS
<1>7. Adds(H, v, S) BY <1>2, <1>5, <1>6
<1>8. H[S] = Total(v, S) BY <1>7, AnySum
<1> QED BY <1>3, <1>6, <1>8

LEMMA GroupsOfIs ==
  ASSUME NEW S, IsFiniteSet(S), NEW st, NEW d, NEW c, NEW v, \A x \in S : v[x] = st[<<x, d>>][c]
  PROVE  GroupsOf(st, d, c, S) = Total(v, S)
<1> DEFINE Sums(F) ==
             F = [s \in SUBSET S |-> IF s = {} THEN 0
                    ELSE st[<<CHOOSE x \in s : TRUE, d>>][c] + F[s \ {CHOOSE x \in s : TRUE}]]
<1>1. ASSUME NEW s \in SUBSET S, s # {}
      PROVE  st[<<CHOOSE x \in s : TRUE, d>>][c] = v[CHOOSE x \in s : TRUE]
  <2>1. PICK y : y = CHOOSE x \in s : TRUE OBVIOUS
  <2>2. y \in S BY <1>1, <2>1
  <2> QED BY <2>1, <2>2
<1>2. ASSUME NEW F PROVE Sums(F) <=> Adds(F, v, S)
  <2>1. [s \in SUBSET S |-> IF s = {} THEN 0
           ELSE st[<<CHOOSE x \in s : TRUE, d>>][c] + F[s \ {CHOOSE x \in s : TRUE}]]
        = [s \in SUBSET S |-> IF s = {} THEN 0
             ELSE v[CHOOSE x \in s : TRUE] + F[s \ {CHOOSE x \in s : TRUE}]]
    BY <1>1
  <2>2. Adds(F, v, S) <=>
          F = [s \in SUBSET S |-> IF s = {} THEN 0
                 ELSE v[CHOOSE x \in s : TRUE] + F[s \ {CHOOSE x \in s : TRUE}]]
    BY DEF Adds
  <2> QED BY <2>1, <2>2
<1>3. GroupsOf(st, d, c, S) = (CHOOSE F : Sums(F))[S] BY DEF GroupsOf
<1>4. PICK G : Adds(G, v, S) BY SumExists
<1>5. Sums(G) BY <1>2, <1>4
<1> HIDE DEF Sums
<1>6. PICK H : H = CHOOSE F : Sums(F) OBVIOUS
<1>7. Adds(H, v, S) BY <1>2, <1>5, <1>6
<1>8. H[S] = Total(v, S) BY <1>7, AnySum
<1> QED BY <1>3, <1>6, <1>8

LEMMA DayTotalsIs ==
  ASSUME NEW S, IsFiniteSet(S), NEW c, NEW v, \A x \in S : v[x] = Roll!PlatformDay(x).totals[c]
  PROVE  DayTotals(c, S) = Total(v, S)
<1> DEFINE Sums(F) ==
             F = [s \in SUBSET S |-> IF s = {} THEN 0
                    ELSE Roll!PlatformDay(CHOOSE x \in s : TRUE).totals[c]
                         + F[s \ {CHOOSE x \in s : TRUE}]]
<1>1. ASSUME NEW s \in SUBSET S, s # {}
      PROVE  Roll!PlatformDay(CHOOSE x \in s : TRUE).totals[c] = v[CHOOSE x \in s : TRUE]
  <2>1. PICK y : y = CHOOSE x \in s : TRUE OBVIOUS
  <2>2. y \in S BY <1>1, <2>1
  <2> QED BY <2>1, <2>2
<1>2. ASSUME NEW F PROVE Sums(F) <=> Adds(F, v, S)
  <2>1. [s \in SUBSET S |-> IF s = {} THEN 0
           ELSE Roll!PlatformDay(CHOOSE x \in s : TRUE).totals[c] + F[s \ {CHOOSE x \in s : TRUE}]]
        = [s \in SUBSET S |-> IF s = {} THEN 0
             ELSE v[CHOOSE x \in s : TRUE] + F[s \ {CHOOSE x \in s : TRUE}]]
    BY <1>1
  <2>2. Adds(F, v, S) <=>
          F = [s \in SUBSET S |-> IF s = {} THEN 0
                 ELSE v[CHOOSE x \in s : TRUE] + F[s \ {CHOOSE x \in s : TRUE}]]
    BY DEF Adds
  <2> QED BY <2>1, <2>2
<1>3. DayTotals(c, S) = (CHOOSE F : Sums(F))[S] BY DEF DayTotals
<1>4. PICK G : Adds(G, v, S) BY SumExists
<1>5. Sums(G) BY <1>2, <1>4
<1> HIDE DEF Sums
<1>6. PICK H : H = CHOOSE F : Sums(F) OBVIOUS
<1>7. Adds(H, v, S) BY <1>2, <1>5, <1>6
<1>8. H[S] = Total(v, S) BY <1>7, AnySum
<1> QED BY <1>3, <1>6, <1>8

LEMMA TotalsOfIs ==
  ASSUME NEW S, IsFiniteSet(S), NEW of, NEW c, NEW v, \A x \in S : v[x] = of[x].totals[c]
  PROVE  TotalsOf(of, c, S) = Total(v, S)
<1> DEFINE Sums(F) ==
             F = [s \in SUBSET S |-> IF s = {} THEN 0
                    ELSE of[CHOOSE x \in s : TRUE].totals[c] + F[s \ {CHOOSE x \in s : TRUE}]]
<1>1. ASSUME NEW s \in SUBSET S, s # {}
      PROVE  of[CHOOSE x \in s : TRUE].totals[c] = v[CHOOSE x \in s : TRUE]
  <2>1. PICK y : y = CHOOSE x \in s : TRUE OBVIOUS
  <2>2. y \in S BY <1>1, <2>1
  <2> QED BY <2>1, <2>2
<1>2. ASSUME NEW F PROVE Sums(F) <=> Adds(F, v, S)
  <2>1. [s \in SUBSET S |-> IF s = {} THEN 0
           ELSE of[CHOOSE x \in s : TRUE].totals[c] + F[s \ {CHOOSE x \in s : TRUE}]]
        = [s \in SUBSET S |-> IF s = {} THEN 0
             ELSE v[CHOOSE x \in s : TRUE] + F[s \ {CHOOSE x \in s : TRUE}]]
    BY <1>1
  <2>2. Adds(F, v, S) <=>
          F = [s \in SUBSET S |-> IF s = {} THEN 0
                 ELSE v[CHOOSE x \in s : TRUE] + F[s \ {CHOOSE x \in s : TRUE}]]
    BY DEF Adds
  <2> QED BY <2>1, <2>2
<1>3. TotalsOf(of, c, S) = (CHOOSE F : Sums(F))[S] BY DEF TotalsOf
<1>4. PICK G : Adds(G, v, S) BY SumExists
<1>5. Sums(G) BY <1>2, <1>4
<1> HIDE DEF Sums
<1>6. PICK H : H = CHOOSE F : Sums(F) OBVIOUS
<1>7. Adds(H, v, S) BY <1>2, <1>5, <1>6
<1>8. H[S] = Total(v, S) BY <1>7, AnySum
<1> QED BY <1>3, <1>6, <1>8

LEMMA ListsOfIs ==
  ASSUME NEW S, IsFiniteSet(S), NEW lists, NEW c, NEW v, \A x \in S : v[x] = lists[x][c].invocations
  PROVE  ListsOf(lists, c, S) = Total(v, S)
<1> DEFINE Sums(F) ==
             F = [s \in SUBSET S |-> IF s = {} THEN 0
                    ELSE lists[CHOOSE x \in s : TRUE][c].invocations + F[s \ {CHOOSE x \in s : TRUE}]]
<1>1. ASSUME NEW s \in SUBSET S, s # {}
      PROVE  lists[CHOOSE x \in s : TRUE][c].invocations = v[CHOOSE x \in s : TRUE]
  <2>1. PICK y : y = CHOOSE x \in s : TRUE OBVIOUS
  <2>2. y \in S BY <1>1, <2>1
  <2> QED BY <2>1, <2>2
<1>2. ASSUME NEW F PROVE Sums(F) <=> Adds(F, v, S)
  <2>1. [s \in SUBSET S |-> IF s = {} THEN 0
           ELSE lists[CHOOSE x \in s : TRUE][c].invocations + F[s \ {CHOOSE x \in s : TRUE}]]
        = [s \in SUBSET S |-> IF s = {} THEN 0
             ELSE v[CHOOSE x \in s : TRUE] + F[s \ {CHOOSE x \in s : TRUE}]]
    BY <1>1
  <2>2. Adds(F, v, S) <=>
          F = [s \in SUBSET S |-> IF s = {} THEN 0
                 ELSE v[CHOOSE x \in s : TRUE] + F[s \ {CHOOSE x \in s : TRUE}]]
    BY DEF Adds
  <2> QED BY <2>1, <2>2
<1>3. ListsOf(lists, c, S) = (CHOOSE F : Sums(F))[S] BY DEF ListsOf
<1>4. PICK G : Adds(G, v, S) BY SumExists
<1>5. Sums(G) BY <1>2, <1>4
<1> HIDE DEF Sums
<1>6. PICK H : H = CHOOSE F : Sums(F) OBVIOUS
<1>7. Adds(H, v, S) BY <1>2, <1>5, <1>6
<1>8. H[S] = Total(v, S) BY <1>7, AnySum
<1> QED BY <1>3, <1>6, <1>8

LEMMA InvocationsOfIs ==
  ASSUME NEW S, IsFiniteSet(S), NEW us, NEW v, \A x \in S : v[x] = us[x].invocations
  PROVE  InvocationsOf(us, S) = Total(v, S)
<1> DEFINE Sums(F) ==
             F = [s \in SUBSET S |-> IF s = {} THEN 0
                    ELSE us[CHOOSE m \in s : TRUE].invocations + F[s \ {CHOOSE m \in s : TRUE}]]
<1>1. ASSUME NEW s \in SUBSET S, s # {}
      PROVE  us[CHOOSE m \in s : TRUE].invocations = v[CHOOSE m \in s : TRUE]
  <2>1. PICK y : y = CHOOSE m \in s : TRUE OBVIOUS
  <2>2. y \in S BY <1>1, <2>1
  <2> QED BY <2>1, <2>2
<1>2. ASSUME NEW F PROVE Sums(F) <=> Adds(F, v, S)
  <2>1. [s \in SUBSET S |-> IF s = {} THEN 0
           ELSE us[CHOOSE m \in s : TRUE].invocations + F[s \ {CHOOSE m \in s : TRUE}]]
        = [s \in SUBSET S |-> IF s = {} THEN 0
             ELSE v[CHOOSE m \in s : TRUE] + F[s \ {CHOOSE m \in s : TRUE}]]
    BY <1>1
  <2>2. Adds(F, v, S) <=>
          F = [s \in SUBSET S |-> IF s = {} THEN 0
                 ELSE v[CHOOSE m \in s : TRUE] + F[s \ {CHOOSE m \in s : TRUE}]]
    BY DEF Adds
  <2> QED BY <2>1, <2>2
<1>3. InvocationsOf(us, S) = (CHOOSE F : Sums(F))[S] BY DEF InvocationsOf
<1>4. PICK G : Adds(G, v, S) BY SumExists
<1>5. Sums(G) BY <1>2, <1>4
<1> HIDE DEF Sums
<1>6. PICK H : H = CHOOSE F : Sums(F) OBVIOUS
<1>7. Adds(H, v, S) BY <1>2, <1>5, <1>6
<1>8. H[S] = Total(v, S) BY <1>7, AnySum
<1> QED BY <1>3, <1>6, <1>8

\* The rows a window of the rollups has.
RowsTyped ==
  /\ IsFiniteSet(Groups)
  /\ DOMAIN groupStats \subseteq Groups \X Nat
  /\ \A k \in DOMAIN groupStats, c \in AllColumns : groupStats[k][c] \in Nat
  /\ DOMAIN commandStats \subseteq Groups \X Nat \X Roll!Commands
  /\ \A k \in DOMAIN commandStats : commandStats[k].invocations \in Nat

\* A window, its cells (a row of a group on a day) and its days.
IsWindow(w) == w[1] \in Int /\ w[2] \in Int
Cells(w) == {k \in DOMAIN groupStats : k[2] \in w[1]..w[2]}
DaysIn(w) == {d \in w[1]..w[2] : Roll!ActiveGroups(d) # {}}

\* Every row was drawn from finitely many stored events, so it holds naturals.
LEMMA RowsAreTyped == ASSUME Roll!StatisticsAssumption, RollInv PROVE RowsTyped
<1>1. IsFiniteSet(Groups) BY DEF Roll!StatisticsAssumption, Roll!IsFiniteSet, IsFiniteSet
<1>2. /\ DOMAIN groupStats \subseteq Groups \X Nat /\ IsFiniteSet(stored)
      /\ DOMAIN commandStats \subseteq Groups \X Nat \X Roll!Commands
      /\ \A g \in Groups, d \in Nat :
           Drawn(groupStats, commandStats, stored, Must(rollJob, promised), g, d)
  BY DEF RollInv
<1>3. ASSUME NEW k \in DOMAIN groupStats, NEW c \in AllColumns PROVE groupStats[k][c] \in Nat
  <2>1. PICK g \in Groups, d \in Nat : k = <<g, d>> BY <1>2
  <2>2. PICK E \in SUBSET stored : RowOf(groupStats, g, d, E)
    <3>1. Drawn(groupStats, commandStats, stored, Must(rollJob, promised), g, d) BY <1>2
    <3> QED BY <3>1 DEF Drawn
  <2>3. groupStats[k] = Roll!Tally(Roll!Of(E, g, d)) BY <1>3, <2>1, <2>2 DEF RowOf
  <2>4. IsFiniteSet(Roll!Of(E, g, d)) BY <1>2, FS_Subset DEF Roll!Of
  <2>5. Roll!Of(E, g, d) \in SUBSET Roll!Of(E, g, d) OBVIOUS
  <2> QED BY <2>3, <2>4, <2>5, TallyGrows
<1>4. ASSUME NEW k \in DOMAIN commandStats PROVE commandStats[k].invocations \in Nat
  <2>1. PICK g \in Groups, d \in Nat, c \in Roll!Commands : k = <<g, d, c>> BY <1>2
  <2>2. PICK F \in SUBSET stored : NamesOf(commandStats, g, d, F)
    <3>1. Drawn(groupStats, commandStats, stored, Must(rollJob, promised), g, d) BY <1>2
    <3> QED BY <3>1 DEF Drawn
  <2>3. PICK named : named = Roll!Using(Roll!Of(F, g, d), c) OBVIOUS
  <2>4. commandStats[k] = Roll!Invocations(named) BY <1>4, <2>1, <2>2, <2>3 DEF NamesOf
  <2>5. commandStats[k].invocations = Cardinality(named)
    BY <2>4, SameCardinality DEF Roll!Invocations
  <2>6. IsFiniteSet(named) BY <1>2, <2>3, FS_Subset DEF Roll!Of, Roll!Using
  <2> QED BY <2>5, <2>6, FS_CardinalityType
<1> QED BY <1>1, <1>2, <1>3, <1>4 DEF RowsTyped

\* A window has finitely many cells and days.
LEMMA CellsAre ==
  ASSUME RowsTyped, NEW w, IsWindow(w)
  PROVE  /\ IsFiniteSet(w[1]..w[2]) /\ IsFiniteSet(Cells(w)) /\ IsFiniteSet(DaysIn(w))
         /\ \A k \in Cells(w) :
              /\ k \in DOMAIN groupStats /\ k[1] \in Groups /\ k[2] \in w[1]..w[2]
              /\ k = <<k[1], k[2]>>
         /\ \A g, d : <<g, d>> \in Cells(w) <=> <<g, d>> \in DOMAIN groupStats /\ d \in w[1]..w[2]
<1>1. IsFiniteSet(w[1]..w[2]) BY FS_Interval DEF IsWindow
<1>2. IsFiniteSet(DaysIn(w)) BY <1>1, FS_Subset DEF DaysIn
<1>3. \A k \in Cells(w) : /\ k \in DOMAIN groupStats /\ k[1] \in Groups /\ k[2] \in w[1]..w[2]
                          /\ k = <<k[1], k[2]>>
  BY DEF Cells, RowsTyped
<1>4. Cells(w) \subseteq Groups \X (w[1]..w[2]) BY <1>3
<1>5. IsFiniteSet(Groups \X (w[1]..w[2])) BY <1>1, FS_Product DEF RowsTyped
<1>6. IsFiniteSet(Cells(w)) BY <1>4, <1>5, FS_Subset
<1> QED BY <1>1, <1>2, <1>3, <1>6 DEF Cells

\* The model's sums are those folds.
LEMMA SumsAre ==
  /\ \A g, w, c : Roll!Sum(g, w, c) = DaysOf(groupStats, g, c, Roll!Active(g, w))
  /\ \A d : \A c \in AllColumns :
       Roll!PlatformDay(d).totals[c] = GroupsOf(groupStats, d, c, Roll!ActiveGroups(d))
  /\ \A G, c, w : Roll!Invoked(G, c, w) = InvocationsOf(commandStats, Roll!Called(G, c, w))
<1>1. \A g, w, c : Roll!Sum(g, w, c) = DaysOf(groupStats, g, c, Roll!Active(g, w))
  BY DEF Roll!Sum, Roll!MapThenSumSet, Roll!MapThenFoldSet, DaysOf
<1>2. \A d : \A c \in AllColumns :
        Roll!PlatformDay(d).totals[c] = GroupsOf(groupStats, d, c, Roll!ActiveGroups(d))
  BY DEF Roll!PlatformDay, Roll!MapThenSumSet, Roll!MapThenFoldSet, GroupsOf, AllColumns
<1>3. \A G, c, w : Roll!Invoked(G, c, w) = InvocationsOf(commandStats, Roll!Called(G, c, w))
  BY DEF Roll!Invoked, Roll!MapThenSumSet, Roll!MapThenFoldSet, InvocationsOf
<1> QED BY <1>1, <1>2, <1>3

\* A group's sum over a window is the total of its cells.
LEMMA GroupSum ==
  ASSUME RowsTyped, NEW w, IsWindow(w), NEW c \in AllColumns, NEW g \in Groups,
         NEW v, v = [k \in Cells(w) |-> groupStats[k][c]]
  PROVE  Roll!Sum(g, w, c) = Total(v, {k \in Cells(w) : k[1] = g})
<1> DEFINE act == Roll!Active(g, w)
           part == {k \in Cells(w) : k[1] = g}
<1>1. PICK u : u = [d \in act |-> groupStats[<<g, d>>][c]] OBVIOUS
<1>2. PICK f : f = [k \in part |-> k[2]] OBVIOUS
<1>3. IsFiniteSet(act) /\ IsFiniteSet(part) BY CellsAre, FS_Subset DEF Roll!Active
<1>4. \A k \in part : v[k] \in Nat BY CellsAre DEF RowsTyped
<1>5. \A k \in part : f[k] \in act /\ k = <<g, f[k]>>
  BY <1>2, CellsAre DEF Roll!Active
<1>6. ASSUME NEW d \in act PROVE u[d] = Total(v, PartOf(part, f, d))
  <2>1. <<g, d>> \in Cells(w) BY CellsAre DEF Roll!Active
  <2>2. <<g, d>> \in part /\ f[<<g, d>>] = d BY <1>2, <2>1
  <2>3. PartOf(part, f, d) = {<<g, d>>} BY <1>5, <2>2 DEF PartOf
  <2>4. v[<<g, d>>] = u[d] /\ v[<<g, d>>] \in Nat BY <1>1, <1>4, <2>1, <2>2
  <2> HIDE DEF part
  <2> QED BY <2>3, <2>4, TotalOfOne
<1>7. Roll!Sum(g, w, c) = DaysOf(groupStats, g, c, act) BY SumsAre
<1>8. \A d \in act : u[d] = groupStats[<<g, d>>][c] BY <1>1
<1> HIDE DEF act, part
<1>9. Total(v, part) = Total(u, act)
  <2>1. \A k \in part : f[k] \in act BY <1>5
  <2>2. \A i \in act : u[i] = Total(v, PartOf(part, f, i)) BY <1>6
  <2> QED BY ONLY <1>3, <1>4, <2>1, <2>2, TotalsByPart
<1>10. DaysOf(groupStats, g, c, act) = Total(u, act) BY <1>3, <1>8, DaysOfIs
<1> QED BY <1>7, <1>9, <1>10 DEF part

\* A day's sum over the groups is the total of its cells.
LEMMA DaySum ==
  ASSUME RowsTyped, NEW w, IsWindow(w), NEW c \in AllColumns, NEW d \in w[1]..w[2],
         NEW v, v = [k \in Cells(w) |-> groupStats[k][c]]
  PROVE  Roll!PlatformDay(d).totals[c] = Total(v, {k \in Cells(w) : k[2] = d})
<1> DEFINE act == Roll!ActiveGroups(d)
           part == {k \in Cells(w) : k[2] = d}
<1>1. PICK u : u = [g \in act |-> groupStats[<<g, d>>][c]] OBVIOUS
<1>2. PICK f : f = [k \in part |-> k[1]] OBVIOUS
<1>3. IsFiniteSet(act) /\ IsFiniteSet(part) BY CellsAre, FS_Subset DEF Roll!ActiveGroups, RowsTyped
<1>4. \A k \in part : v[k] \in Nat BY CellsAre DEF RowsTyped
<1>5. \A k \in part : f[k] \in act /\ k = <<f[k], d>>
  BY <1>2, CellsAre DEF Roll!ActiveGroups
<1>6. ASSUME NEW g \in act PROVE u[g] = Total(v, PartOf(part, f, g))
  <2>1. <<g, d>> \in Cells(w) BY CellsAre DEF Roll!ActiveGroups
  <2>2. <<g, d>> \in part /\ f[<<g, d>>] = g BY <1>2, <2>1
  <2>3. PartOf(part, f, g) = {<<g, d>>} BY <1>5, <2>2 DEF PartOf
  <2>4. v[<<g, d>>] = u[g] /\ v[<<g, d>>] \in Nat BY <1>1, <1>4, <2>1, <2>2
  <2> HIDE DEF part
  <2> QED BY <2>3, <2>4, TotalOfOne
<1>7. Roll!PlatformDay(d).totals[c] = GroupsOf(groupStats, d, c, act) BY SumsAre
<1>8. \A g \in act : u[g] = groupStats[<<g, d>>][c] BY <1>1
<1> HIDE DEF act, part
<1>9. Total(v, part) = Total(u, act)
  <2>1. \A k \in part : f[k] \in act BY <1>5
  <2>2. \A i \in act : u[i] = Total(v, PartOf(part, f, i)) BY <1>6
  <2> QED BY ONLY <1>3, <1>4, <2>1, <2>2, TotalsByPart
<1>10. GroupsOf(groupStats, d, c, act) = Total(u, act) BY <1>3, <1>8, GroupsOfIs
<1> QED BY <1>7, <1>9, <1>10 DEF part

\* The fleet's total is that of its groups: both add up the cells of the window.
LEMMA FleetSum ==
  ASSUME RowsTyped, NEW w, IsWindow(w), NEW c \in AllColumns,
         NEW of, \A g \in Groups : of[g].totals[c] = Roll!Sum(g, w, c)
  PROVE  /\ DayTotals(c, DaysIn(w)) = TotalsOf(of, c, Groups)
         /\ DayTotals(c, DaysIn(w)) \in Nat /\ \A g \in Groups : Roll!Sum(g, w, c) \in Nat
         /\ DayTotals(c, DaysIn(w)) = 0 <=> \A g \in Groups : Roll!Sum(g, w, c) = 0
<1> DEFINE cells == Cells(w)
           days == DaysIn(w)
<1>1. PICK v : v = [k \in Cells(w) |-> groupStats[k][c]] OBVIOUS
<1>2. IsFiniteSet(cells) /\ IsFiniteSet(days) /\ IsFiniteSet(Groups) BY CellsAre DEF RowsTyped
<1>3. \A k \in cells : v[k] \in Nat BY <1>1, CellsAre DEF RowsTyped
<1>4. PICK byGroup : byGroup = [g \in Groups |-> Roll!Sum(g, w, c)] OBVIOUS
<1>5. PICK byDay : byDay = [d \in days |-> Roll!PlatformDay(d).totals[c]] OBVIOUS
<1>6. PICK f1 : f1 = [k \in cells |-> k[1]] OBVIOUS
<1>7. PICK f2 : f2 = [k \in cells |-> k[2]] OBVIOUS
<1>8. \A k \in cells : f1[k] \in Groups BY <1>6, CellsAre
<1>9. \A k \in cells : f2[k] \in days
  <2> SUFFICES ASSUME NEW k \in cells PROVE f2[k] \in days OBVIOUS
  <2>1. /\ k \in DOMAIN groupStats /\ k[1] \in Groups /\ k[2] \in w[1]..w[2]
        /\ k = <<k[1], k[2]>>
    BY CellsAre
  <2>2. k[1] \in Roll!ActiveGroups(k[2]) BY <2>1 DEF Roll!ActiveGroups
  <2> QED BY <1>7, <2>1, <2>2 DEF DaysIn
<1>10. \A g \in Groups : byGroup[g] = Total(v, PartOf(cells, f1, g))
  <2> SUFFICES ASSUME NEW g \in Groups PROVE byGroup[g] = Total(v, PartOf(cells, f1, g)) OBVIOUS
  <2>1. PartOf(cells, f1, g) = {k \in Cells(w) : k[1] = g} BY <1>6 DEF PartOf
  <2>2. Roll!Sum(g, w, c) = Total(v, {k \in Cells(w) : k[1] = g}) BY <1>1, GroupSum
  <2> QED BY <1>4, <2>1, <2>2
<1>11. \A d \in days : byDay[d] = Total(v, PartOf(cells, f2, d))
  <2> SUFFICES ASSUME NEW d \in days PROVE byDay[d] = Total(v, PartOf(cells, f2, d)) OBVIOUS
  <2>1. PartOf(cells, f2, d) = {k \in Cells(w) : k[2] = d} BY <1>7 DEF PartOf
  <2>2. d \in w[1]..w[2] BY DEF DaysIn
  <2>3. Roll!PlatformDay(d).totals[c] = Total(v, {k \in Cells(w) : k[2] = d})
    BY <1>1, <2>2, DaySum
  <2> QED BY <1>5, <2>1, <2>3
<1> HIDE DEF cells, days
<1>12. Total(v, cells) = Total(byGroup, Groups) /\ \A g \in Groups : byGroup[g] \in Nat
  BY <1>2, <1>3, <1>8, <1>10, TotalsByPart
<1>13. Total(v, cells) = Total(byDay, days) /\ \A d \in days : byDay[d] \in Nat
  BY <1>2, <1>3, <1>9, <1>11, TotalsByPart
<1>14. TotalsOf(of, c, Groups) = Total(byGroup, Groups)
  <2>1. \A g \in Groups : byGroup[g] = of[g].totals[c] BY <1>4
  <2> QED BY <1>2, <2>1, TotalsOfIs
<1>15. DayTotals(c, days) = Total(byDay, days)
  <2>1. \A d \in days : byDay[d] = Roll!PlatformDay(d).totals[c] BY <1>5
  <2> QED BY <1>2, <2>1, DayTotalsIs
<1>16. Total(byGroup, Groups) \in Nat BY <1>2, <1>12, Totals
<1>17. Total(byGroup, Groups) = 0 <=> \A g \in Groups : byGroup[g] = 0
  BY <1>2, <1>12, TotalIsZero
<1>18. \A g \in Groups : byGroup[g] = Roll!Sum(g, w, c) BY <1>4
<1> QED BY <1>12, <1>13, <1>14, <1>15, <1>16, <1>17, <1>18 DEF days

\* No group has more members active on a day than the fleet.
LEMMA FleetIsBusier ==
  ASSUME RowsTyped, NEW w, IsWindow(w), NEW g \in Groups, NEW d \in Roll!Active(g, w)
  PROVE  /\ d \in DaysIn(w)
         /\ groupStats[<<g, d>>].active_users \in Nat
         /\ groupStats[<<g, d>>].active_users <= Roll!PlatformDay(d).totals["active_users"]
<1> DEFINE c == "active_users"
           day == {k \in Cells(w) : k[2] = d}
<1>1. PICK v : v = [k \in Cells(w) |-> groupStats[k][c]] OBVIOUS
<1>2. c \in AllColumns BY DEF AllColumns
<1>3. d \in w[1]..w[2] /\ <<g, d>> \in DOMAIN groupStats /\ <<g, d>> \in Cells(w)
  BY CellsAre DEF Roll!Active
<1>4. IsFiniteSet(day) BY CellsAre, FS_Subset
<1>5. \A k \in day : v[k] \in Nat BY <1>1, <1>2, CellsAre DEF RowsTyped
<1>6. Roll!PlatformDay(d).totals[c] = Total(v, day) BY <1>1, <1>2, <1>3, DaySum
<1>7. <<g, d>> \in day /\ v[<<g, d>>] = groupStats[<<g, d>>].active_users BY <1>1, <1>3
<1> HIDE DEF day
<1>8. Total(v, {<<g, d>>}) = v[<<g, d>>] BY <1>5, <1>7, TotalOfOne
<1>9. Total(v, {<<g, d>>}) <= Total(v, day)
  <2>1. {<<g, d>>} \subseteq day BY <1>7
  <2> QED BY <1>4, <1>5, <2>1, TotalsWithin
<1>10. g \in Roll!ActiveGroups(d) BY <1>3 DEF Roll!ActiveGroups
<1> QED BY <1>3, <1>5, <1>6, <1>7, <1>8, <1>9, <1>10 DEF DaysIn

\* Most is an upper bound, and zero or one of the numbers.
LEMMA MostIs ==
  ASSUME NEW S, IsFiniteSet(S), S \subseteq Nat
  PROVE  /\ Roll!Most(S) \in S \cup {0} /\ Roll!Most(S) \in Nat
         /\ \A y \in S : y <= Roll!Most(S)
<1> DEFINE Q == {s \in SUBSET S : \E x \in s \cup {0} : \A y \in s \cup {0} : x >= y}
<1>1. {} \in Q OBVIOUS
<1>2. ASSUME NEW s \in SUBSET S, NEW x \in s, s \ {x} \in Q PROVE s \in Q
  <2>1. PICK m \in (s \ {x}) \cup {0} : \A y \in (s \ {x}) \cup {0} : m >= y BY <1>2
  <2>2. m \in Nat /\ x \in Nat OBVIOUS
  <2>3. CASE m >= x
    <3>1. \A y \in s \cup {0} : m >= y BY <2>1, <2>3
    <3> QED BY <2>1, <3>1
  <2>4. CASE x >= m
    <3>1. \A y \in s \cup {0} : x >= y BY <2>1, <2>2, <2>4
    <3> QED BY <3>1
  <2> QED BY <2>2, <2>3, <2>4
<1> HIDE DEF Q
<1>3. S \in Q BY <1>1, <1>2, BySteps
<1>4. PICK m : m = CHOOSE x \in S \cup {0} : \A y \in S \cup {0} : x >= y OBVIOUS
<1>5. m \in S \cup {0} /\ \A y \in S \cup {0} : m >= y BY <1>3, <1>4 DEF Q
<1>6. Roll!Most(S) = m BY <1>4 DEF Roll!Most, Roll!Max
<1> QED BY <1>5, <1>6

\* The groups whose list of a window names the command.
Naming(c, w) == {g \in Groups : Roll!Called({g}, c, w) # {}}

\* A command was called as often as its groups' lists say, and in those groups.
LEMMA CommandSum ==
  ASSUME RowsTyped, NEW w, IsWindow(w), NEW c \in Roll!Commands, NEW lists,
         \A g \in Naming(c, w) : lists[g][c].invocations = Roll!Invoked({g}, c, w)
  PROVE  /\ Roll!Invoked(Groups, c, w) = ListsOf(lists, c, Naming(c, w))
         /\ {k[1] : k \in Roll!Called(Groups, c, w)} = Naming(c, w)
         /\ Roll!Invoked(Groups, c, w) \in Nat
         /\ \A g \in Naming(c, w) : /\ Roll!Invoked({g}, c, w) \in Nat
                                   /\ Roll!Invoked({g}, c, w) <= Roll!Invoked(Groups, c, w)
<1> DEFINE all == Roll!Called(Groups, c, w)
           listing == Naming(c, w)
<1>1. \A k \in all : /\ k \in DOMAIN commandStats /\ k[1] \in Groups /\ k[2] \in w[1]..w[2]
                     /\ k = <<k[1], k[2], c>> /\ commandStats[k].invocations \in Nat
  BY DEF Roll!Called, RowsTyped
<1>2. IsFiniteSet(all) /\ IsFiniteSet(Groups) /\ IsFiniteSet(listing)
  <2>1. IsFiniteSet(w[1]..w[2]) /\ IsFiniteSet(Groups) BY CellsAre DEF RowsTyped
  <2>2. IsFiniteSet({c}) BY FS_Singleton
  <2>3. IsFiniteSet(Groups \X (w[1]..w[2])) BY <2>1, FS_Product
  <2>4. PICK h : h = [x \in Groups \X (w[1]..w[2]) |-> <<x[1], x[2], c>>] OBVIOUS
  <2>5. h \in Surjection(Groups \X (w[1]..w[2]), {h[x] : x \in Groups \X (w[1]..w[2])})
    BY <2>4 DEF Surjection
  <2>6. IsFiniteSet({h[x] : x \in Groups \X (w[1]..w[2])}) BY <2>3, <2>5, FS_Surjection
  <2>7. all \subseteq {h[x] : x \in Groups \X (w[1]..w[2])}
    <3> SUFFICES ASSUME NEW k \in all PROVE \E x \in Groups \X (w[1]..w[2]) : k = h[x] OBVIOUS
    <3>1. <<k[1], k[2]>> \in Groups \X (w[1]..w[2]) BY <1>1
    <3>2. h[<<k[1], k[2]>>] = <<k[1], k[2], c>> BY <2>4, <3>1
    <3> QED BY <1>1, <3>1, <3>2
  <2>8. listing \subseteq Groups BY DEF Naming
  <2> QED BY <2>1, <2>6, <2>7, <2>8, FS_Subset
<1>3. ASSUME NEW g \in Groups PROVE Roll!Called({g}, c, w) = {k \in all : k[1] = g}
  BY DEF Roll!Called
<1>4. {k[1] : k \in all} = listing
  <2>1. ASSUME NEW k \in all PROVE k[1] \in listing
    <3>1. k \in Roll!Called({k[1]}, c, w) BY <1>1, <1>3
    <3> QED BY <1>1, <3>1 DEF Naming
  <2>2. ASSUME NEW g \in listing PROVE \E k \in all : g = k[1]
    <3>1. g \in Groups /\ \E k : k \in Roll!Called({g}, c, w) BY DEF Naming
    <3> QED BY <1>3, <3>1
  <2> QED BY <2>1, <2>2
<1>5. PICK v : v = [k \in all |-> commandStats[k].invocations] OBVIOUS
<1>6. PICK u : u = [g \in listing |-> Roll!Invoked({g}, c, w)] OBVIOUS
<1>7. PICK f : f = [k \in all |-> k[1]] OBVIOUS
<1>8. \A k \in all : f[k] \in listing BY <1>4, <1>7
<1>9. \A k \in all : v[k] = commandStats[k].invocations /\ v[k] \in Nat BY <1>1, <1>5
<1> HIDE DEF all, listing
<1>10. \A g \in listing : u[g] = Total(v, PartOf(all, f, g))
  <2> SUFFICES ASSUME NEW g \in listing PROVE u[g] = Total(v, PartOf(all, f, g)) OBVIOUS
  <2>1. PartOf(all, f, g) = Roll!Called({g}, c, w) BY <1>3, <1>7 DEF PartOf, Naming, listing
  <2>2. PICK part : part = PartOf(all, f, g) OBVIOUS
  <2>3. IsFiniteSet(part) /\ \A k \in part : v[k] = commandStats[k].invocations
    BY <1>2, <1>9, <2>2, FS_Subset DEF PartOf
  <2>4. Roll!Invoked({g}, c, w) = InvocationsOf(commandStats, part) BY <2>1, <2>2, SumsAre
  <2>5. InvocationsOf(commandStats, part) = Total(v, part) BY <2>3, InvocationsOfIs
  <2> QED BY <1>6, <2>2, <2>4, <2>5
<1>11. Total(v, all) = Total(u, listing) /\ \A g \in listing : u[g] \in Nat
  <2>1. \A k \in all : v[k] \in Nat BY <1>9
  <2> QED BY ONLY <1>2, <1>8, <1>10, <2>1, TotalsByPart
<1>12. Roll!Invoked(Groups, c, w) = Total(v, all)
  <2>1. Roll!Invoked(Groups, c, w) = InvocationsOf(commandStats, all) BY SumsAre DEF all
  <2> QED BY <1>2, <1>9, <2>1, InvocationsOfIs
<1>13. ListsOf(lists, c, listing) = Total(u, listing)
  <2>1. \A g \in listing : u[g] = lists[g][c].invocations BY <1>6 DEF listing
  <2> QED BY ONLY <1>2, <2>1, ListsOfIs
<1>14. Total(u, listing) \in Nat /\ \A g \in listing : u[g] <= Total(u, listing)
  <2>1. Total(u, listing) \in Nat BY <1>2, <1>11, Totals
  <2>2. ASSUME NEW g \in listing PROVE u[g] <= Total(u, listing)
    <3>1. Total(u, {g}) = u[g] BY <1>11, TotalOfOne
    <3>2. {g} \subseteq listing OBVIOUS
    <3>3. Total(u, {g}) <= Total(u, listing) BY <1>2, <1>11, <3>2, TotalsWithin
    <3> QED BY <3>1, <3>3
  <2> QED BY <2>1, <2>2
<1>15. \A g \in listing : u[g] = Roll!Invoked({g}, c, w) BY <1>6
<1>16. /\ Roll!Invoked(Groups, c, w) \in Nat
       /\ \A g \in listing : /\ Roll!Invoked({g}, c, w) \in Nat
                            /\ Roll!Invoked({g}, c, w) <= Roll!Invoked(Groups, c, w)
  BY <1>11, <1>12, <1>14, <1>15
<1> QED BY <1>4, <1>11, <1>12, <1>13, <1>16 DEF all, listing

\* What is not refused is a pair of dates.
LEMMA WindowsAre ==
  ASSUME Roll!StatisticsAssumption, reportDay \in Nat, NEW asked \in Roll!Asked,
         NEW w, w = Roll!Window(asked[1], asked[2]), w # Nothing
  PROVE  IsWindow(w)
<1> DEFINE dates == Roll!Days \cup {Nothing}
           pairs == dates \X dates
           windows == {Roll!Window(q[1], q[2]) : q \in pairs}
<1>1. PICK x \in windows : asked = CHOOSE q \in pairs : Roll!Window(q[1], q[2]) = x
  BY DEF Roll!Asked
<1>2. \E q \in pairs : Roll!Window(q[1], q[2]) = x BY <1>1
<1>3. asked \in pairs
  <2>1. PICK q : q = CHOOSE q1 \in pairs : Roll!Window(q1[1], q1[2]) = x OBVIOUS
  <2>2. q \in pairs BY <1>2, <2>1
  <2> QED BY <1>1, <2>1, <2>2
<1>4. PICK a \in dates, b \in dates : asked[1] = a /\ asked[2] = b BY <1>3
<1>5. (a # Nothing => a \in Int) /\ (b # Nothing => b \in Int)
  BY DEF Roll!Days, Roll!StatisticsAssumption
<1>6. DefaultDays \in Int /\ reportDay \in Int BY DEF Roll!StatisticsAssumption
<1> HIDE DEF dates
<1>7. w = Roll!ResolveWindow(a, b, reportDay) BY <1>4 DEF Roll!Window
<1>8. \E c \in Int, d \in Int : w = <<c, d>>
  <2>1. PICK c : c = (IF a # Nothing THEN a
                      ELSE (IF b # Nothing THEN b ELSE reportDay) - (DefaultDays - 1)) OBVIOUS
  <2>2. PICK d : d = (IF b # Nothing THEN b
                      ELSE IF a # Nothing THEN a + (DefaultDays - 1) ELSE reportDay) OBVIOUS
  <2>3. c \in Int BY <1>5, <1>6, <2>1
  <2>4. d \in Int BY <1>5, <1>6, <2>2
  <2>5. w = <<c, d>> BY <1>7, <2>1, <2>2 DEF Roll!ResolveWindow
  <2> QED BY <2>3, <2>4, <2>5
<1> QED BY <1>8 DEF IsWindow

\* What each screen shows over a window that is not refused.
LEMMA ScreensAre ==
  ASSUME NEW s, NEW e, NEW w, w = Roll!Window(s, e), w # Nothing
  PROVE  /\ Roll!OverviewScreen(s, e).totals = Roll!PlatformSummary(w)
         /\ \A g : Roll!SummaryScreen(g, s, e) = Roll!GroupSummary(g, w)
         /\ \A g : DOMAIN Roll!DailyScreen(g, s, e) = Roll!Active(g, w)
         /\ \A g, m : Roll!CommandsScreen(g, s, e, m)
                        = Roll!Busiest(Roll!GroupCommands(g, w), "invocations", m)
         /\ DOMAIN Roll!FleetDaily(s, e) = DaysIn(w)
         /\ \A n : Roll!FleetGroups(s, e, n) = Roll!Busiest(Roll!TopGroups(w), "messages", n)
         /\ \A n : Roll!FleetCommands(s, e, n)
                     = Roll!Busiest(Roll!PlatformCommands(w), "invocations", n)
<1>1. Roll!OverviewScreen(s, e).totals = Roll!PlatformSummary(w)
  BY DEF Roll!OverviewScreen, Roll!Screen
<1>2. \A g : Roll!SummaryScreen(g, s, e) = Roll!GroupSummary(g, w)
  BY DEF Roll!SummaryScreen, Roll!Screen
<1>3. \A g : DOMAIN Roll!DailyScreen(g, s, e) = Roll!Active(g, w)
  BY DEF Roll!DailyScreen, Roll!Screen
<1>4. \A g, m : Roll!CommandsScreen(g, s, e, m)
                  = Roll!Busiest(Roll!GroupCommands(g, w), "invocations", m)
  BY DEF Roll!CommandsScreen, Roll!Screen
<1>5. DOMAIN Roll!FleetDaily(s, e) = DaysIn(w)
  BY DEF Roll!FleetDaily, Roll!Screen, DaysIn
<1>6. \A n : Roll!FleetGroups(s, e, n) = Roll!Busiest(Roll!TopGroups(w), "messages", n)
  BY DEF Roll!FleetGroups, Roll!Screen
<1>7. \A n : Roll!FleetCommands(s, e, n)
               = Roll!Busiest(Roll!PlatformCommands(w), "invocations", n)
  BY DEF Roll!FleetCommands, Roll!Screen
<1> QED BY <1>1, <1>2, <1>3, <1>4, <1>5, <1>6, <1>7

\* What the screens show when the dates are refused.
LEMMA ScreensRefused ==
  ASSUME NEW s, NEW e, Roll!Window(s, e) = Nothing
  PROVE  /\ Roll!OverviewScreen(s, e) = Roll!Refused
         /\ \A g : Roll!SummaryScreen(g, s, e) = Roll!Refused
         /\ \A g, m : Roll!CommandsScreen(g, s, e, m) = Roll!Refused
         /\ \A n : /\ Roll!FleetGroups(s, e, n) = Roll!Refused
                   /\ Roll!FleetCommands(s, e, n) = Roll!Refused
BY DEF Roll!OverviewScreen, Roll!SummaryScreen, Roll!CommandsScreen, Roll!FleetGroups,
       Roll!FleetCommands, Roll!Screen

\* The fields of the two summaries.
LEMMA SummariesAre ==
  ASSUME NEW w
  PROVE  /\ \A c \in Roll!Columns : Roll!PlatformSummary(w).totals[c] = DayTotals(c, DaysIn(w))
         /\ Roll!PlatformSummary(w).solve_rate =
              Roll!Rate(DayTotals("captcha_solved", DaysIn(w)), DayTotals("captcha_issued", DaysIn(w)))
         /\ Roll!PlatformSummary(w).peak_active_users =
              Roll!Most({Roll!PlatformDay(d).totals["active_users"] : d \in DaysIn(w)})
         /\ \A g : /\ \A c \in Roll!Columns : Roll!GroupSummary(g, w).totals[c] = Roll!Sum(g, w, c)
                   /\ Roll!GroupSummary(g, w).solve_rate =
                        Roll!Rate(Roll!Sum(g, w, "captcha_solved"), Roll!Sum(g, w, "captcha_issued"))
                   /\ Roll!GroupSummary(g, w).peak_active_users =
                        Roll!Most({groupStats[<<g, d>>].active_users : d \in Roll!Active(g, w)})
                   /\ Roll!GroupSummary(g, w).days = Cardinality(Roll!Active(g, w))
<1>1. \A c \in Roll!Columns : Roll!PlatformSummary(w).totals[c] = DayTotals(c, DaysIn(w))
  BY DEF Roll!PlatformSummary, Roll!MapThenSumSet, Roll!MapThenFoldSet, DayTotals, DaysIn
<1>2. Roll!PlatformSummary(w).solve_rate =
        Roll!Rate(DayTotals("captcha_solved", DaysIn(w)), DayTotals("captcha_issued", DaysIn(w)))
  BY DEF Roll!PlatformSummary, Roll!MapThenSumSet, Roll!MapThenFoldSet, DayTotals, DaysIn
<1>3. Roll!PlatformSummary(w).peak_active_users =
        Roll!Most({Roll!PlatformDay(d).totals["active_users"] : d \in DaysIn(w)})
  BY DEF Roll!PlatformSummary, DaysIn
<1>4. \A g : /\ \A c \in Roll!Columns : Roll!GroupSummary(g, w).totals[c] = Roll!Sum(g, w, c)
             /\ Roll!GroupSummary(g, w).solve_rate =
                  Roll!Rate(Roll!Sum(g, w, "captcha_solved"), Roll!Sum(g, w, "captcha_issued"))
             /\ Roll!GroupSummary(g, w).peak_active_users =
                  Roll!Most({groupStats[<<g, d>>].active_users : d \in Roll!Active(g, w)})
             /\ Roll!GroupSummary(g, w).days = Cardinality(Roll!Active(g, w))
  BY SameCardinality DEF Roll!GroupSummary
<1> QED BY <1>1, <1>2, <1>3, <1>4

\* A rate is undefined exactly where nothing was issued.
LEMMA RateIs ==
  ASSUME Roll!StatisticsAssumption, NEW a \in Nat, NEW b \in Nat
  PROVE  Roll!Rate(a, b) = Nothing <=> b = 0
<1>1. <<a, b>> # Nothing BY DEF Roll!StatisticsAssumption
<1> QED BY <1>1 DEF Roll!Rate

\* What is left of rows when a limit has cut them.
LEMMA CutOff ==
  ASSUME NEW rows, NEW column, NEW n, NEW rest \in Roll!Busiest(rows, column, n)
  PROVE  /\ DOMAIN rest \subseteq DOMAIN rows /\ rest = [x \in DOMAIN rest |-> rows[x]]
         /\ DOMAIN rest # DOMAIN rows => Roll!Cardinality(DOMAIN rest) = n
         /\ \A x \in DOMAIN rest, y \in DOMAIN rows \ DOMAIN rest : rows[x][column] >= rows[y][column]
<1>1. PICK T \in SUBSET DOMAIN rows :
        /\ T # DOMAIN rows => Roll!Cardinality(T) = n
        /\ \A x \in T, y \in DOMAIN rows \ T : rows[x][column] >= rows[y][column]
        /\ rest = [x \in T |-> rows[x]]
  BY DEF Roll!Busiest
<1>2. DOMAIN rest = T BY <1>1
<1> QED BY <1>1, <1>2

\* One window, before any limit: what its rows have in common.
AgreeOn(top, of, days, lists, days2, board, named) ==
  /\ \A c \in Roll!Columns : top.totals[c] = TotalsOf(of, c, Groups)
  /\ (top.solve_rate = Nothing) = (\A g \in Groups : of[g].solve_rate = Nothing)
  /\ days2 = UNION {days[g] : g \in Groups}
  /\ \A g \in Groups : of[g].peak_active_users <= top.peak_active_users
  /\ DOMAIN named = UNION {DOMAIN lists[g] : g \in Groups}
  /\ \A c \in DOMAIN named :
       LET listing == {g \in Groups : c \in DOMAIN lists[g]} IN
         /\ named[c] = [groups |-> Roll!Cardinality(listing),
                        invocations |-> ListsOf(lists, c, listing)]
         /\ IsFiniteSet(listing) /\ named[c].invocations \in Nat
         /\ \A g \in listing : /\ lists[g][c].invocations \in Nat
                               /\ lists[g][c].invocations <= named[c].invocations
  /\ \A g \in Groups \ DOMAIN board : of[g].days > 0 => g \notin knownGroups
  /\ DOMAIN board \subseteq Groups
  /\ \A g \in DOMAIN board : board[g].messages = of[g].totals["messages"]

\* The rows of one window agree, whatever they are.
LEMMA WindowAgrees ==
  ASSUME Roll!StatisticsAssumption, RowsTyped, NEW w, IsWindow(w),
         NEW top, top = Roll!PlatformSummary(w),
         NEW of, of = [g \in Groups |-> Roll!GroupSummary(g, w)],
         NEW days, days = [g \in Groups |-> Roll!Active(g, w)],
         NEW lists, lists = [g \in Groups |-> Roll!GroupCommands(g, w)],
         NEW board, board = Roll!TopGroups(w),
         NEW named, named = Roll!PlatformCommands(w)
  PROVE  AgreeOn(top, of, days, lists, DaysIn(w), board, named)
<1>1. \A c \in Roll!Columns : c \in AllColumns BY DEF AllColumns
<1>2. {"captcha_solved", "captcha_issued", "messages"} \subseteq Roll!Columns BY DEF Roll!Columns
<1>3. \A g \in Groups : of[g] = Roll!GroupSummary(g, w) OBVIOUS
<1>4. \A g \in Groups : \A c \in Roll!Columns : of[g].totals[c] = Roll!Sum(g, w, c)
  BY <1>3, SummariesAre
<1>5. ASSUME NEW c \in Roll!Columns
      PROVE  /\ DayTotals(c, DaysIn(w)) = TotalsOf(of, c, Groups)
             /\ DayTotals(c, DaysIn(w)) \in Nat /\ \A g \in Groups : Roll!Sum(g, w, c) \in Nat
             /\ DayTotals(c, DaysIn(w)) = 0 <=> \A g \in Groups : Roll!Sum(g, w, c) = 0
  <2>1. \A g \in Groups : of[g].totals[c] = Roll!Sum(g, w, c) BY <1>4
  <2>2. c \in AllColumns BY <1>1
  <2> QED BY <2>1, <2>2, FleetSum
<1>6. \A c \in Roll!Columns : top.totals[c] = TotalsOf(of, c, Groups) BY <1>5, SummariesAre
<1>7. (top.solve_rate = Nothing) = (\A g \in Groups : of[g].solve_rate = Nothing)
  <2>1. top.solve_rate = Nothing <=> DayTotals("captcha_issued", DaysIn(w)) = 0
    <3>1. PICK a \in Nat, b \in Nat : /\ a = DayTotals("captcha_solved", DaysIn(w))
                                      /\ b = DayTotals("captcha_issued", DaysIn(w))
      BY <1>2, <1>5
    <3>2. top.solve_rate = Roll!Rate(a, b) BY <3>1, SummariesAre
    <3> QED BY <3>1, <3>2, RateIs
  <2>2. ASSUME NEW g \in Groups
        PROVE  of[g].solve_rate = Nothing <=> Roll!Sum(g, w, "captcha_issued") = 0
    <3>1. PICK a \in Nat, b \in Nat : /\ a = Roll!Sum(g, w, "captcha_solved")
                                      /\ b = Roll!Sum(g, w, "captcha_issued")
      BY <1>2, <1>5
    <3>2. of[g].solve_rate = Roll!Rate(a, b) BY <1>3, <3>1, SummariesAre
    <3> QED BY <3>1, <3>2, RateIs
  <2>3. DayTotals("captcha_issued", DaysIn(w)) = 0
          <=> \A g \in Groups : Roll!Sum(g, w, "captcha_issued") = 0
    BY <1>2, <1>5
  <2> QED BY <2>1, <2>2, <2>3
<1>8. DaysIn(w) = UNION {days[g] : g \in Groups}
  <2>1. ASSUME NEW d \in DaysIn(w) PROVE \E g \in Groups : d \in days[g]
    <3>1. PICK g \in Groups : <<g, d>> \in DOMAIN groupStats BY DEF DaysIn, Roll!ActiveGroups
    <3>2. d \in Roll!Active(g, w) BY <3>1 DEF DaysIn, Roll!Active
    <3> QED BY <3>2
  <2>2. ASSUME NEW g \in Groups, NEW d \in days[g] PROVE d \in DaysIn(w)
    BY <2>2, FleetIsBusier
  <2> QED BY <2>1, <2>2
<1>9. ASSUME NEW g \in Groups PROVE of[g].peak_active_users <= top.peak_active_users
  <2>1. PICK S : S = {groupStats[<<g, d>>].active_users : d \in Roll!Active(g, w)} OBVIOUS
  <2>2. PICK T : T = {Roll!PlatformDay(d).totals["active_users"] : d \in DaysIn(w)} OBVIOUS
  <2>3. IsFiniteSet(S)
    <3>1. IsFiniteSet(Roll!Active(g, w)) BY CellsAre, FS_Subset DEF Roll!Active
    <3>2. PICK h : h = [d \in Roll!Active(g, w) |-> groupStats[<<g, d>>].active_users] OBVIOUS
    <3>3. h \in Surjection(Roll!Active(g, w), S) BY <2>1, <3>2 DEF Surjection
    <3> QED BY <3>1, <3>3, FS_Surjection
  <2>4. IsFiniteSet(T)
    <3>1. IsFiniteSet(DaysIn(w)) BY CellsAre
    <3>2. PICK h : h = [d \in DaysIn(w) |-> Roll!PlatformDay(d).totals["active_users"]] OBVIOUS
    <3>3. h \in Surjection(DaysIn(w), T) BY <2>2, <3>2 DEF Surjection
    <3> QED BY <3>1, <3>3, FS_Surjection
  <2>5. S \subseteq Nat BY <2>1, FleetIsBusier
  <2>6. T \subseteq Nat
    <3> SUFFICES ASSUME NEW d \in DaysIn(w)
                 PROVE  Roll!PlatformDay(d).totals["active_users"] \in Nat
      BY <2>2
    <3> DEFINE day == {k \in Cells(w) : k[2] = d}
    <3>1. "active_users" \in AllColumns /\ d \in w[1]..w[2] BY DEF AllColumns, DaysIn
    <3>2. PICK v : v = [k \in Cells(w) |-> groupStats[k]["active_users"]] OBVIOUS
    <3>3. Roll!PlatformDay(d).totals["active_users"] = Total(v, day) BY <3>1, <3>2, DaySum
    <3>4. IsFiniteSet(day) /\ \A k \in day : v[k] \in Nat
      BY <3>1, <3>2, CellsAre, FS_Subset DEF RowsTyped
    <3> HIDE DEF day
    <3> QED BY <3>3, <3>4, Totals
  <2>7. of[g].peak_active_users = Roll!Most(S) /\ top.peak_active_users = Roll!Most(T)
    BY <1>3, <2>1, <2>2, SummariesAre
  <2>8. PICK a \in Nat, b \in Nat : a = Roll!Most(S) /\ b = Roll!Most(T)
    BY <2>3, <2>4, <2>5, <2>6, MostIs
  <2>9. CASE a = 0 BY <2>7, <2>8, <2>9
  <2>10. CASE a # 0
    <3>1. a \in S BY <2>3, <2>5, <2>8, <2>10, MostIs
    <3>2. PICK d \in Roll!Active(g, w) : a = groupStats[<<g, d>>].active_users BY <2>1, <3>1
    <3>3. PICK t : t = Roll!PlatformDay(d).totals["active_users"] OBVIOUS
    <3>4. d \in DaysIn(w) /\ a <= t BY <3>2, <3>3, FleetIsBusier
    <3>5. t \in T /\ t \in Nat BY <2>2, <2>6, <3>3, <3>4
    <3>6. t <= b BY <2>4, <2>6, <2>8, <3>5, MostIs
    <3> QED BY <2>7, <2>8, <3>4, <3>5, <3>6
  <2> QED BY <2>9, <2>10
<1>10. \A g \in Groups : \A c :
         c \in DOMAIN lists[g] <=> c \in Roll!Commands /\ Roll!Called({g}, c, w) # {}
  <2> SUFFICES ASSUME NEW g \in Groups, NEW c
               PROVE  c \in DOMAIN lists[g] <=> c \in Roll!Commands /\ Roll!Called({g}, c, w) # {}
    OBVIOUS
  <2>1. lists[g] = Roll!GroupCommands(g, w) OBVIOUS
  <2> QED BY <2>1 DEF Roll!GroupCommands
<1>11. ASSUME NEW c \in Roll!Commands, NEW listing, listing = {g \in Groups : c \in DOMAIN lists[g]}
       PROVE  /\ Roll!Invoked(Groups, c, w) = ListsOf(lists, c, listing)
              /\ {k[1] : k \in Roll!Called(Groups, c, w)} = listing
              /\ Roll!Invoked(Groups, c, w) \in Nat
              /\ \A g \in listing : /\ lists[g][c].invocations \in Nat
                                    /\ lists[g][c].invocations <= Roll!Invoked(Groups, c, w)
  <2>1. listing = Naming(c, w)
    <3>1. \A g \in Groups : c \in DOMAIN lists[g] <=> Roll!Called({g}, c, w) # {} BY <1>10
    <3>2. listing = {g \in Groups : c \in DOMAIN lists[g]} BY <1>11
    <3> QED BY ONLY <3>1, <3>2 DEF Naming
  <2>2. \A g \in Naming(c, w) : lists[g][c].invocations = Roll!Invoked({g}, c, w)
    BY DEF Roll!GroupCommands, Naming
  <2>3. /\ Roll!Invoked(Groups, c, w) = ListsOf(lists, c, Naming(c, w))
        /\ {k[1] : k \in Roll!Called(Groups, c, w)} = Naming(c, w)
        /\ Roll!Invoked(Groups, c, w) \in Nat
        /\ \A g \in Naming(c, w) : /\ Roll!Invoked({g}, c, w) \in Nat
                                  /\ Roll!Invoked({g}, c, w) <= Roll!Invoked(Groups, c, w)
    BY ONLY RowsTyped, IsWindow(w), c \in Roll!Commands, <2>2, CommandSum
  <2>4. \A g \in Naming(c, w) : /\ lists[g][c].invocations \in Nat
                               /\ lists[g][c].invocations <= Roll!Invoked(Groups, c, w)
    BY ONLY <2>2, <2>3
  <2> QED BY ONLY <2>1, <2>3, <2>4
<1>12. DOMAIN named = UNION {DOMAIN lists[g] : g \in Groups}
  <2>1. \A c : c \in DOMAIN named <=> c \in Roll!Commands /\ Roll!Called(Groups, c, w) # {}
    BY DEF Roll!PlatformCommands
  <2>2. ASSUME NEW c \in DOMAIN named PROVE \E g \in Groups : c \in DOMAIN lists[g]
    <3>1. PICK k : k \in Roll!Called(Groups, c, w) BY <2>1, <2>2
    <3>2. k[1] \in Groups /\ k \in Roll!Called({k[1]}, c, w) BY <3>1 DEF Roll!Called
    <3> QED BY <1>10, <2>1, <3>2
  <2>3. ASSUME NEW g \in Groups, NEW c \in DOMAIN lists[g] PROVE c \in DOMAIN named
    <3>1. PICK k : k \in Roll!Called({g}, c, w) BY <1>10, <2>3
    <3>2. k \in Roll!Called(Groups, c, w) BY <3>1 DEF Roll!Called
    <3> QED BY <1>10, <2>1, <2>3, <3>2
  <2> QED BY <2>2, <2>3
<1>13. ASSUME NEW c \in DOMAIN named, NEW listing, listing = {g \in Groups : c \in DOMAIN lists[g]}
       PROVE  /\ named[c] = [groups |-> Roll!Cardinality(listing),
                             invocations |-> ListsOf(lists, c, listing)]
              /\ IsFiniteSet(listing) /\ named[c].invocations \in Nat
              /\ \A g \in listing : /\ lists[g][c].invocations \in Nat
                                    /\ lists[g][c].invocations <= named[c].invocations
  <2>1. /\ c \in Roll!Commands
        /\ named[c] = [invocations |-> Roll!Invoked(Groups, c, w),
                       groups |-> Roll!Cardinality({k[1] : k \in Roll!Called(Groups, c, w)})]
    BY DEF Roll!PlatformCommands
  <2>2. /\ Roll!Invoked(Groups, c, w) = ListsOf(lists, c, listing)
        /\ {k[1] : k \in Roll!Called(Groups, c, w)} = listing
        /\ Roll!Invoked(Groups, c, w) \in Nat
        /\ \A g \in listing : /\ lists[g][c].invocations \in Nat
                              /\ lists[g][c].invocations <= Roll!Invoked(Groups, c, w)
    BY <1>11, <1>13, <2>1
  <2>3. IsFiniteSet(listing)
    <3>1. IsFiniteSet(Groups) BY DEF RowsTyped
    <3>2. listing \subseteq Groups BY <1>13
    <3> QED BY <3>1, <3>2, FS_Subset
  <2>4. named[c].invocations = Roll!Invoked(Groups, c, w) BY <2>1
  <2> QED BY <2>1, <2>2, <2>3, <2>4
<1>14. ASSUME NEW g \in Groups \ DOMAIN board, of[g].days > 0 PROVE g \notin knownGroups
  <2>1. of[g].days = Cardinality(Roll!Active(g, w)) BY <1>3, SummariesAre
  <2>2. Cardinality({}) = 0 BY FS_EmptySet
  <2>3. Roll!Active(g, w) # {}
    <3> SUFFICES ASSUME Roll!Active(g, w) = {} PROVE FALSE OBVIOUS
    <3>1. of[g].days = 0 BY <2>1, <2>2
    <3> QED BY <1>14, <3>1
  <2> QED BY <1>14, <2>3 DEF Roll!TopGroups
<1>15. ASSUME NEW g \in DOMAIN board
       PROVE  g \in Groups /\ board[g].messages = of[g].totals["messages"]
  <2>1. g \in Groups
    <3>1. Roll!Active(g, w) # {} BY <1>15 DEF Roll!TopGroups
    <3>2. PICK d : <<g, d>> \in DOMAIN groupStats BY <3>1 DEF Roll!Active
    <3> QED BY <3>2 DEF RowsTyped
  <2>2. board[g].messages = Roll!Sum(g, w, "messages") BY <1>15 DEF Roll!TopGroups
  <2> QED BY <1>2, <1>4, <2>1, <2>2
<1> QED BY <1>6, <1>7, <1>8, <1>9, <1>12, <1>13, <1>14, <1>15 DEF AgreeOn

\* What is left of them under limits agrees too.
LEMMA BoardIsCut ==
  ASSUME NEW top, NEW of, NEW days, NEW lists, NEW days2, NEW all, NEW named,
         AgreeOn(top, of, days, lists, days2, all, named),
         NEW n, NEW board \in Roll!Busiest(all, "messages", n)
  PROVE  Roll!BoardAgrees(board, n, of)
<1>1. /\ DOMAIN board \subseteq DOMAIN all /\ \A g \in DOMAIN board : board[g] = all[g]
      /\ DOMAIN board # DOMAIN all => Roll!Cardinality(DOMAIN board) = n
      /\ \A h \in DOMAIN board, g \in DOMAIN all \ DOMAIN board : all[h].messages >= all[g].messages
  BY CutOff
<1>2. /\ \A g \in Groups \ DOMAIN all : of[g].days > 0 => g \notin knownGroups
      /\ \A g \in DOMAIN all : all[g].messages = of[g].totals["messages"]
  BY DEF AgreeOn
<1>3. ASSUME NEW g \in Groups \ DOMAIN board, g \in knownGroups, of[g].days > 0
      PROVE  /\ Roll!Cardinality(DOMAIN board) = n
             /\ \A h \in DOMAIN board : board[h].messages >= of[g].totals["messages"]
  <2>1. g \in DOMAIN all \ DOMAIN board BY <1>2, <1>3
  <2> QED BY <1>1, <1>2, <2>1
<1>4. \A g \in DOMAIN board : board[g].messages = of[g].totals["messages"] BY <1>1, <1>2
<1> QED BY <1>3, <1>4 DEF Roll!BoardAgrees

LEMMA NamesAreCut ==
  ASSUME NEW top, NEW of, NEW days, NEW all, NEW days2, NEW board, NEW names,
         AgreeOn(top, of, days, all, days2, board, names), all = [g \in Groups |-> all[g]],
         \A g \in Groups : all[g] = [c \in DOMAIN all[g] |-> all[g][c]],
         NEW n, NEW named \in Roll!Busiest(names, "invocations", n),
         NEW m \in Nat, NEW lists, lists = [g \in Groups |-> lists[g]],
         \A g \in Groups : lists[g] \in Roll!Busiest(all[g], "invocations", m)
  PROVE  Roll!NamesAgree(named, n, lists, m)
<1> DEFINE Whole(c) == {g \in Groups : c \in DOMAIN all[g]}
           Listing(c) == {g \in Groups : c \in DOMAIN lists[g]}
<1>1. /\ DOMAIN named \subseteq DOMAIN names /\ \A c \in DOMAIN named : named[c] = names[c]
      /\ DOMAIN named # DOMAIN names => Roll!Cardinality(DOMAIN named) = n
      /\ \A d \in DOMAIN named, c \in DOMAIN names \ DOMAIN named :
           names[d].invocations >= names[c].invocations
  BY CutOff
<1>2. ASSUME NEW g \in Groups
      PROVE  /\ DOMAIN lists[g] \subseteq DOMAIN all[g]
             /\ lists[g] = [c \in DOMAIN lists[g] |-> all[g][c]]
             /\ DOMAIN lists[g] # DOMAIN all[g] => Roll!Cardinality(DOMAIN lists[g]) = m
  BY CutOff
<1>3. DOMAIN names = UNION {DOMAIN all[g] : g \in Groups} BY DEF AgreeOn
<1>4. ASSUME NEW c \in DOMAIN names
      PROVE  /\ names[c] = [groups |-> Roll!Cardinality(Whole(c)),
                            invocations |-> ListsOf(all, c, Whole(c))]
             /\ IsFiniteSet(Whole(c)) /\ names[c].invocations \in Nat
             /\ \A g \in Whole(c) : /\ all[g][c].invocations \in Nat
                                    /\ all[g][c].invocations <= names[c].invocations
  BY DEF AgreeOn
<1>5. ASSUME NEW g \in Groups, NEW c \in DOMAIN lists[g]
      PROVE  /\ c \in DOMAIN named => named[c].invocations >= lists[g][c].invocations
             /\ c \notin DOMAIN named =>
                  /\ Roll!Cardinality(DOMAIN named) = n
                  /\ \A d \in DOMAIN named : named[d].invocations >= lists[g][c].invocations
  <2>1. c \in DOMAIN names /\ g \in Whole(c) /\ lists[g][c] = all[g][c] BY <1>2, <1>3
  <2>2. PICK a \in Nat, b \in Nat :
          a = lists[g][c].invocations /\ b = names[c].invocations /\ a <= b
    BY <1>4, <2>1
  <2>3. CASE c \in DOMAIN named BY <1>1, <2>2, <2>3
  <2>4. CASE c \notin DOMAIN named
    <3>1. ASSUME NEW d \in DOMAIN named PROVE named[d].invocations >= a
      <4>1. d \in DOMAIN names /\ named[d] = names[d] BY <1>1
      <4>2. PICK x \in Nat : x = named[d].invocations BY <1>4, <4>1
      <4>3. x >= b BY <1>1, <2>1, <2>2, <2>4, <4>1, <4>2
      <4> QED BY <2>2, <4>2, <4>3
    <3> QED BY <1>1, <2>1, <2>2, <2>4, <3>1
  <2> QED BY <2>3, <2>4
<1>6. ASSUME NEW c \in DOMAIN named PROVE named[c].groups >= Roll!Cardinality(Listing(c))
  <2>1. c \in DOMAIN names /\ named[c] = names[c] BY <1>1
  <2>2. PICK S, T : S = Listing(c) /\ T = Whole(c) OBVIOUS
  <2>3. S \subseteq T BY <1>2, <2>2
  <2>4. IsFiniteSet(T) BY <1>4, <2>1, <2>2
  <2>5. Cardinality(S) <= Cardinality(T) /\ Cardinality(S) \in Nat /\ Cardinality(T) \in Nat
    BY <2>3, <2>4, FS_Subset, FS_CardinalityType
  <2>6. names[c] = [groups |-> Roll!Cardinality(Whole(c)),
                    invocations |-> ListsOf(all, c, Whole(c))]
    BY <1>4, <2>1
  <2> HIDE DEF Listing, Whole
  <2>7. named[c].groups = Roll!Cardinality(T) BY ONLY <2>1, <2>2, <2>6
  <2> QED BY <2>2, <2>5, <2>7, SameCardinality
<1>7. ASSUME \A g \in Groups : Roll!Cardinality(DOMAIN lists[g]) < m, NEW c \in DOMAIN named
      PROVE  named[c] = [groups |-> Roll!Cardinality(Listing(c)),
                         invocations |-> ListsOf(lists, c, Listing(c))]
  <2>1. ASSUME NEW g \in Groups PROVE lists[g] = all[g]
    <3>1. DOMAIN lists[g] = DOMAIN all[g]
      <4> SUFFICES ASSUME Roll!Cardinality(DOMAIN lists[g]) = m PROVE FALSE BY <1>2, <2>1
      <4>1. Roll!Cardinality(DOMAIN lists[g]) < m BY <1>7, <2>1
      <4>2. m < m BY ONLY <4>1, Roll!Cardinality(DOMAIN lists[g]) = m
      <4> QED BY <4>2
    <3>2. all[g] = [x \in DOMAIN all[g] |-> all[g][x]] BY <2>1
    <3>3. lists[g] = [x \in DOMAIN lists[g] |-> all[g][x]] BY <1>2, <2>1
    <3> QED BY ONLY <3>1, <3>2, <3>3
  <2>2. lists = all BY <2>1
  <2>3. Listing(c) = Whole(c) BY <2>1
  <2>4. /\ c \in DOMAIN names /\ named[c] = names[c] BY <1>1, <1>7
  <2>5. names[c] = [groups |-> Roll!Cardinality(Whole(c)),
                    invocations |-> ListsOf(all, c, Whole(c))]
    BY <1>4, <2>4
  <2> HIDE DEF Listing, Whole
  <2> QED BY ONLY <2>2, <2>3, <2>4, <2>5
<1> QED
  BY <1>5, <1>6, <1>7
  DEF Roll!NamesAgree, ListsOf, Roll!MapThenSumSet, Roll!MapThenFoldSet

\* So they agree in every state the inductive invariant allows.
LEMMA ScreensDraw ==
  ASSUME Roll!StatisticsAssumption, RollInv
  PROVE  Roll!ScreensAgree
<1>1. RowsTyped BY RowsAreTyped
<1> DEFINE Boards(s, e) == [n \in Roll!Limits |-> Roll!FleetGroups(s, e, n)]
           Names(s, e) == [n \in Roll!Limits |-> Roll!FleetCommands(s, e, n)]
           Shown(s, e) == [m \in Roll!Limits |-> [g \in Groups |-> Roll!CommandsScreen(g, s, e, m)]]
<1>2. ASSUME NEW s, NEW e, Roll!Window(s, e) = Nothing,
             NEW of, of = [g \in Groups |-> Roll!SummaryScreen(g, s, e)],
             NEW boards, boards = Boards(s, e), NEW names, names = Names(s, e),
             NEW shown, shown = Shown(s, e)
      PROVE  {Roll!OverviewScreen(s, e)} \cup {of[g] : g \in Groups}
               \cup {boards[n] : n \in Roll!Limits} \cup {names[n] : n \in Roll!Limits}
               \cup UNION {{shown[m][g] : g \in Groups} : m \in Roll!Limits} = {Roll!Refused}
  <2>1. Roll!OverviewScreen(s, e) = Roll!Refused BY <1>2, ScreensRefused
  <2>2. \A g \in Groups : of[g] = Roll!Refused
    <3>1. \A g : Roll!SummaryScreen(g, s, e) = Roll!Refused BY <1>2, ScreensRefused
    <3> QED BY <1>2, <3>1
  <2>3. \A n \in Roll!Limits : boards[n] = Roll!Refused /\ names[n] = Roll!Refused
    <3>1. \A n : /\ Roll!FleetGroups(s, e, n) = Roll!Refused
                 /\ Roll!FleetCommands(s, e, n) = Roll!Refused
      BY <1>2, ScreensRefused
    <3> QED BY <1>2, <3>1
  <2>4. \A m \in Roll!Limits : \A g \in Groups : shown[m][g] = Roll!Refused
    <3>1. \A g, m : Roll!CommandsScreen(g, s, e, m) = Roll!Refused BY <1>2, ScreensRefused
    <3> QED BY <1>2, <3>1
  <2> QED BY <2>1, <2>2, <2>3, <2>4
<1>3. ASSUME NEW s, NEW e, NEW w, w = Roll!Window(s, e), w # Nothing, IsWindow(w),
             NEW of, of = [g \in Groups |-> Roll!SummaryScreen(g, s, e)],
             NEW days, days = [g \in Groups |-> DOMAIN Roll!DailyScreen(g, s, e)],
             NEW top, top = Roll!OverviewScreen(s, e).totals,
             NEW boards, boards = Boards(s, e), NEW names, names = Names(s, e),
             NEW shown, shown = Shown(s, e)
      PROVE  /\ Roll!TotalsAgree(top, DOMAIN Roll!FleetDaily(s, e), of, days)
             /\ \A n \in Roll!Limits : \A board \in boards[n] : Roll!BoardAgrees(board, n, of)
             /\ \A n \in Roll!Limits, m \in Roll!Limits :
                  \A named \in names[n], lists \in Roll!ListsAmong(shown[m]) :
                    Roll!NamesAgree(named, n, lists, m)
  <2>1. PICK all : all = [g \in Groups |-> Roll!GroupCommands(g, w)] OBVIOUS
  <2>2. PICK board : board = Roll!TopGroups(w) OBVIOUS
  <2>3. PICK named : named = Roll!PlatformCommands(w) OBVIOUS
  <2>4. top = Roll!PlatformSummary(w) BY <1>3, ScreensAre
  <2>5. of = [g \in Groups |-> Roll!GroupSummary(g, w)]
    <3>1. \A g : Roll!SummaryScreen(g, s, e) = Roll!GroupSummary(g, w) BY <1>3, ScreensAre
    <3> QED BY <1>3, <3>1
  <2>6. days = [g \in Groups |-> Roll!Active(g, w)]
    <3>1. \A g : DOMAIN Roll!DailyScreen(g, s, e) = Roll!Active(g, w) BY <1>3, ScreensAre
    <3> QED BY <1>3, <3>1
  <2>7. DOMAIN Roll!FleetDaily(s, e) = DaysIn(w) BY <1>3, ScreensAre
  <2>8. AgreeOn(top, of, days, all, DaysIn(w), board, named)
    BY <1>1, <1>3, <2>1, <2>2, <2>3, <2>4, <2>5, <2>6, WindowAgrees
  <2>9. Roll!TotalsAgree(top, DOMAIN Roll!FleetDaily(s, e), of, days)
    BY <2>7, <2>8
    DEF AgreeOn, Roll!TotalsAgree, TotalsOf, Roll!MapThenSumSet, Roll!MapThenFoldSet
  <2>10. ASSUME NEW n \in Roll!Limits, NEW some \in boards[n]
         PROVE  Roll!BoardAgrees(some, n, of)
    <3>1. \A i : Roll!FleetGroups(s, e, i) = Roll!Busiest(Roll!TopGroups(w), "messages", i)
      BY <1>3, ScreensAre
    <3>2. some \in Roll!Busiest(board, "messages", n) BY <1>3, <2>2, <2>10, <3>1
    <3> QED BY <2>8, <3>2, BoardIsCut
  <2>11. ASSUME NEW n \in Roll!Limits, NEW m \in Roll!Limits,
                NEW some \in names[n], NEW lists \in Roll!ListsAmong(shown[m])
         PROVE  Roll!NamesAgree(some, n, lists, m)
    <3>1. \A i : Roll!FleetCommands(s, e, i) = Roll!Busiest(Roll!PlatformCommands(w), "invocations", i)
      BY <1>3, ScreensAre
    <3>2. some \in Roll!Busiest(named, "invocations", n) BY <1>3, <2>3, <2>11, <3>1
    <3>3. lists = [g \in Groups |-> lists[g]] /\ \A g \in Groups : lists[g] \in shown[m][g]
      BY <2>11 DEF Roll!ListsAmong
    <3>4. \A g \in Groups : shown[m][g] = Roll!Busiest(Roll!GroupCommands(g, w), "invocations", m)
      <4>1. \A g, i : Roll!CommandsScreen(g, s, e, i)
                        = Roll!Busiest(Roll!GroupCommands(g, w), "invocations", i)
        BY <1>3, ScreensAre
      <4> QED BY <1>3, <2>11, <4>1
    <3>5. \A g \in Groups : lists[g] \in Roll!Busiest(all[g], "invocations", m)
      <4>1. \A g \in Groups : all[g] = Roll!GroupCommands(g, w) BY <2>1
      <4> QED BY <3>3, <3>4, <4>1
    <3>6. \A g \in Groups : all[g] = [c \in DOMAIN all[g] |-> all[g][c]]
      <4>1. ASSUME NEW g \in Groups PROVE all[g] = [c \in DOMAIN all[g] |-> all[g][c]]
        <5>1. all[g] = Roll!GroupCommands(g, w) BY <2>1
        <5> QED BY <5>1 DEF Roll!GroupCommands
      <4> QED BY <4>1
    <3>7. all = [g \in Groups |-> all[g]] BY <2>1
    <3>8. m \in Nat BY <2>11 DEF Roll!Limits
    <3> QED BY ONLY <2>8, <3>2, <3>3, <3>5, <3>6, <3>7, <3>8, NamesAreCut
  <2> QED BY <2>9, <2>10, <2>11
<1> HIDE DEF Boards, Names, Shown
<1>4. ASSUME NEW asked \in Roll!Asked
      PROVE  LET s == asked[1]
                 e == asked[2]
                 top == Roll!OverviewScreen(s, e)
                 of == [g \in Groups |-> Roll!SummaryScreen(g, s, e)]
                 boards == Boards(s, e)
                 names == Names(s, e)
                 shown == Shown(s, e)
             IN IF Roll!Window(s, e) = Nothing
                THEN {top} \cup {of[g] : g \in Groups} \cup {boards[n] : n \in Roll!Limits}
                       \cup {names[n] : n \in Roll!Limits}
                       \cup UNION {{shown[m][g] : g \in Groups} : m \in Roll!Limits} = {Roll!Refused}
                ELSE /\ Roll!TotalsAgree(top.totals, DOMAIN Roll!FleetDaily(s, e), of,
                                         [g \in Groups |-> DOMAIN Roll!DailyScreen(g, s, e)])
                     /\ \A n \in Roll!Limits : \A board \in boards[n] : Roll!BoardAgrees(board, n, of)
                     /\ \A n \in Roll!Limits, m \in Roll!Limits :
                          \A named \in names[n], lists \in Roll!ListsAmong(shown[m]) :
                            Roll!NamesAgree(named, n, lists, m)
  <2>1. PICK s, e, w : s = asked[1] /\ e = asked[2] /\ w = Roll!Window(s, e) OBVIOUS
  <2>2. CASE w = Nothing
    <3>1. PICK of : of = [g \in Groups |-> Roll!SummaryScreen(g, s, e)] OBVIOUS
    <3>2. PICK boards : boards = Boards(s, e) OBVIOUS
    <3>3. PICK names : names = Names(s, e) OBVIOUS
    <3>4. PICK shown : shown = Shown(s, e) OBVIOUS
    <3>5. Roll!Window(s, e) = Nothing BY <2>1, <2>2
    <3>6. {Roll!OverviewScreen(s, e)} \cup {of[g] : g \in Groups}
            \cup {boards[n] : n \in Roll!Limits} \cup {names[n] : n \in Roll!Limits}
            \cup UNION {{shown[m][g] : g \in Groups} : m \in Roll!Limits} = {Roll!Refused}
      BY ONLY <1>2, <3>1, <3>2, <3>3, <3>4, <3>5
    <3>7. s = asked[1] /\ e = asked[2] BY <2>1
    <3> QED BY ONLY <3>1, <3>2, <3>3, <3>4, <3>5, <3>6, <3>7
  <2>3. CASE w # Nothing
    <3>1. IsWindow(w)
      <4>1. reportDay \in Nat BY DEF RollInv
      <4> QED BY <1>4, <2>1, <2>3, <4>1, WindowsAre
    <3> QED BY <1>3, <2>1, <2>3, <3>1
  <2> QED BY <2>2, <2>3
<1> QED BY <1>4 DEF Roll!ScreensAgree, Boards, Names, Shown

\* For any groups, users, events and nights, every window and every length that can be
\* asked for: the operator's screens are the sums, the union and the bound of the groups'
\* own, and what a limit cuts off is nowhere busier than what it shows.
THEOREM ScreensDrawAlike ==
  ASSUME Roll!StatisticsAssumption
  PROVE  Roll!Spec => []Roll!ScreensAgree
BY RollInvInit, RollInvNext, ScreensDraw, PTL DEF Roll!Spec

-----------------------------------------------------------------------------
(* Cooldowns.                                                              *)
(*                                                                         *)
(* What a limiter has in memory is told by the calls it has answered: a    *)
(* bucket is as empty as the calls since any time made it, the ledger has  *)
(* the grants of its day, the key in Valkey those since its window began,  *)
(* and the stamps are the last calls.                                      *)
CONSTANTS Limiters, Ceiling, Refill, Span, Callers, Horizon, MaxCalls
VARIABLES limiter, instant, filling, filledAt, stamps, taken, takenOn, bumps, endsAt, replied, log

Lim == INSTANCE Cooldowns WITH
  Kinds <- Limiters, Limit <- Ceiling, Rate <- Refill, Window <- Span, Keys <- Callers,
  MaxTime <- Horizon, kind <- limiter, now <- instant, tokens <- filling, last <- filledAt,
  used <- taken, day <- takenOn, count <- bumps, expiry <- endsAt, answer <- replied,
  calls <- log

Logged == [at : Nat, key : Callers, ok : BOOLEAN]
Granted(s, e) == {c \in Logged : c.ok /\ c.at \in s..e}
GrantedOf(k, d) == {c \in Logged : c.ok /\ c.key = k /\ c.at \div Span = d}
GrantedFrom(s) == {c \in Logged : c.ok /\ s <= c.at}
Since(t) == {c \in Logged : c.at + Span > t}
Number(cs, T) == Cardinality({i \in DOMAIN cs : cs[i] \in T})

BucketInv(cs, level, at) ==
  /\ level \in 0..Ceiling /\ at \in Nat
  /\ \A i \in DOMAIN cs : cs[i].at <= at
  /\ \A s \in 0..at : Number(cs, Granted(s, at)) + level <= Ceiling + (at - s) * Refill
  /\ \A s, e \in Nat : s <= e => Number(cs, Granted(s, e)) <= Ceiling + (e - s) * Refill

LedgerInv(cs, have, d) ==
  /\ have \in [Callers -> 0..Ceiling] /\ d \in Nat
  /\ \A i \in DOMAIN cs : cs[i].at \div Span <= d
  /\ \A k \in Callers : Number(cs, GrantedOf(k, d)) <= have[k]
  /\ \A k \in Callers, e \in Nat : Number(cs, GrantedOf(k, e)) <= Ceiling

\* A window that ends at t began at t - Span, with a call that was let pass.
WindowInv(cs, n, t) ==
  /\ n \in Nat /\ t \in Nat
  /\ n = 0 => cs = <<>>
  /\ n > 0 => /\ t >= Span
              /\ \A i \in DOMAIN cs : cs[i].at < t
              /\ \E j \in DOMAIN cs : cs[j].ok /\ cs[j].at + Span = t
              /\ Number(cs, GrantedFrom(t - Span)) <= n
              /\ Number(cs, GrantedFrom(t - Span)) <= Ceiling
              /\ \A s \in Nat : s + Span > t - Span =>
                   Number(cs, Granted(s, t - Span - 1)) <= Ceiling
  /\ \A s \in Nat : Number(cs, Granted(s, s + Span - 1)) <= 2 * Ceiling
  /\ \A i \in DOMAIN cs : ~cs[i].ok =>
       \E j \in 1..i : cs[j].ok /\ cs[j].at + Span > cs[i].at

StampsInv(cs, st, reply) ==
  /\ st \in Seq(Nat) /\ Len(st) <= Len(cs) /\ Len(st) <= 4 * Ceiling
  /\ \A i \in 1..Len(st) : st[i] = cs[Len(cs) - Len(st) + i].at
  /\ cs # <<>> =>
       /\ reply = Len(st)
       /\ \A i \in 1..Len(st) : st[i] + Span > cs[Len(cs)].at
       /\ Len(st) = 4 * Ceiling
            \/ \A i \in 1..(Len(cs) - Len(st)) : cs[i].at + Span <= cs[Len(cs)].at

InOrder(cs, t) ==
  /\ t \in Nat /\ cs \in Seq(Logged)
  /\ \A i \in DOMAIN cs : cs[i].at <= t
  /\ \A i, j \in DOMAIN cs : i <= j => cs[i].at <= cs[j].at

LimInv ==
  /\ InOrder(log, instant)
  /\ limiter = "bucket" => BucketInv(log, filling, filledAt) /\ filledAt <= instant
  /\ limiter = "window" => StampsInv(log, stamps, replied)
  /\ limiter = "ledger" => LedgerInv(log, taken, takenOn) /\ takenOn <= instant \div Span
  /\ limiter = "valkey" => WindowInv(log, bumps, endsAt) /\ (bumps > 0 => endsAt <= instant + Span)

LEMMA LimitsAre ==
  ASSUME Lim!CooldownAssumption
  PROVE  /\ Ceiling \in Nat /\ Ceiling > 0 /\ Span \in Nat /\ Span > 0 /\ Refill \in Nat
         /\ Horizon \in Nat
BY DEF Lim!CooldownAssumption

\* One call more, counted among those of T if it is one.
LEMMA NumberIs ==
  ASSUME NEW cs \in Seq(Logged), NEW T
  PROVE  /\ IsFiniteSet({i \in DOMAIN cs : cs[i] \in T}) /\ Number(cs, T) \in Nat
<1>1. DOMAIN cs = 1..Len(cs) /\ Len(cs) \in Nat OBVIOUS
<1>2. IsFiniteSet(1..Len(cs)) BY <1>1, FS_Interval
<1>3. IsFiniteSet({i \in DOMAIN cs : cs[i] \in T}) BY <1>1, <1>2, FS_Subset
<1> QED BY <1>3, FS_CardinalityType DEF Number

LEMMA NumberAppend ==
  ASSUME NEW cs \in Seq(Logged), NEW c \in Logged, NEW T
  PROVE  /\ Number(Append(cs, c), T) = Number(cs, T) + (IF c \in T THEN 1 ELSE 0)
         /\ Number(cs, T) \in Nat
<1> DEFINE old == {i \in DOMAIN cs : cs[i] \in T}
           new == {i \in DOMAIN Append(cs, c) : Append(cs, c)[i] \in T}
<1>1. /\ DOMAIN cs = 1..Len(cs) /\ Len(cs) \in Nat
      /\ DOMAIN Append(cs, c) = 1..(Len(cs) + 1)
      /\ \A i \in DOMAIN cs : Append(cs, c)[i] = cs[i]
      /\ Append(cs, c)[Len(cs) + 1] = c
  OBVIOUS
<1>2. IsFiniteSet(old) /\ Cardinality(old) \in Nat BY NumberIs DEF Number
<1>3. Len(cs) + 1 \notin old BY <1>1
<1>4. CASE c \in T
  <2>1. new = old \cup {Len(cs) + 1} BY <1>1, <1>4
  <2> HIDE DEF old, new
  <2>2. Cardinality(new) = Cardinality(old) + 1 BY <1>2, <1>3, <2>1, FS_AddElement
  <2> QED BY <1>2, <1>4, <2>2 DEF Number, old, new
<1>5. CASE c \notin T
  <2>1. new = old BY <1>1, <1>5
  <2> HIDE DEF old, new
  <2>2. Cardinality(new) = Cardinality(old) + 0 BY <1>2, <2>1
  <2> QED BY <1>2, <1>5, <2>2 DEF Number, old, new
<1> QED BY <1>4, <1>5

LEMMA NumberWithin ==
  ASSUME NEW cs \in Seq(Logged), NEW T, NEW U, \A i \in DOMAIN cs : cs[i] \in T => cs[i] \in U
  PROVE  Number(cs, T) <= Number(cs, U) /\ Number(cs, T) \in Nat /\ Number(cs, U) \in Nat
<1> DEFINE small == {i \in DOMAIN cs : cs[i] \in T}
           large == {i \in DOMAIN cs : cs[i] \in U}
<1>1. small \subseteq large OBVIOUS
<1>2. IsFiniteSet(large) /\ Number(cs, T) \in Nat /\ Number(cs, U) \in Nat BY NumberIs
<1> HIDE DEF small, large
<1>3. Cardinality(small) <= Cardinality(large) BY <1>1, <1>2, FS_Subset
<1> QED BY <1>2, <1>3 DEF Number, small, large

LEMMA NumberOfBoth ==
  ASSUME NEW cs \in Seq(Logged), NEW T, NEW U, NEW V,
         \A i \in DOMAIN cs : cs[i] \in T => cs[i] \in U \/ cs[i] \in V
  PROVE  /\ Number(cs, T) <= Number(cs, U) + Number(cs, V)
         /\ Number(cs, T) \in Nat /\ Number(cs, U) \in Nat /\ Number(cs, V) \in Nat
<1> DEFINE all == {i \in DOMAIN cs : cs[i] \in T}
           one == {i \in DOMAIN cs : cs[i] \in U}
           two == {i \in DOMAIN cs : cs[i] \in V}
<1>1. all \subseteq one \cup two OBVIOUS
<1>2. /\ IsFiniteSet(one) /\ IsFiniteSet(two)
      /\ Number(cs, T) \in Nat /\ Number(cs, U) \in Nat /\ Number(cs, V) \in Nat
  BY NumberIs
<1>3. Number(cs, T) = Cardinality(all) /\ Number(cs, U) = Cardinality(one) /\ Number(cs, V) = Cardinality(two)
  BY DEF Number
<1> HIDE DEF all, one, two
<1>4. PICK b \in Nat : b = Cardinality(one \cap two)
  <2>1. IsFiniteSet(one \cap two) BY <1>2, FS_Subset
  <2> QED BY <2>1, FS_CardinalityType
<1>5. /\ IsFiniteSet(one \cup two)
      /\ Cardinality(one \cup two) = Cardinality(one) + Cardinality(two) - Cardinality(one \cap two)
  BY <1>2, FS_Union
<1>6. Cardinality(all) <= Cardinality(one \cup two) BY <1>1, <1>5, FS_Subset
<1> QED BY <1>2, <1>3, <1>4, <1>5, <1>6

LEMMA NumberOfNone ==
  ASSUME NEW cs \in Seq(Logged), NEW T, \A i \in DOMAIN cs : cs[i] \notin T
  PROVE  Number(cs, T) = 0
<1>1. {i \in DOMAIN cs : cs[i] \in T} = {} OBVIOUS
<1> QED BY <1>1, FS_EmptySet DEF Number

LEMMA OneMoreCall ==
  ASSUME NEW cs, NEW t, InOrder(cs, t), NEW c \in Logged, c.at = t
  PROVE  /\ cs \in Seq(Logged) /\ InOrder(Append(cs, c), t) /\ t \in Nat
         /\ DOMAIN cs = 1..Len(cs) /\ Len(cs) \in Nat
         /\ DOMAIN Append(cs, c) = 1..(Len(cs) + 1) /\ Append(cs, c)[Len(cs) + 1] = c
         /\ \A i \in DOMAIN cs : Append(cs, c)[i] = cs[i] /\ cs[i] \in Logged
         /\ Len(Append(cs, c)) = Len(cs) + 1
<1>1. /\ cs \in Seq(Logged) /\ t \in Nat
      /\ \A i \in DOMAIN cs : cs[i].at <= t
      /\ \A i, j \in DOMAIN cs : i <= j => cs[i].at <= cs[j].at
  BY DEF InOrder
<1>2. /\ DOMAIN cs = 1..Len(cs) /\ Len(cs) \in Nat
      /\ DOMAIN Append(cs, c) = 1..(Len(cs) + 1) /\ Append(cs, c)[Len(cs) + 1] = c
      /\ \A i \in DOMAIN cs : Append(cs, c)[i] = cs[i] /\ cs[i] \in Logged
      /\ Append(cs, c) \in Seq(Logged) /\ Len(Append(cs, c)) = Len(cs) + 1
  BY <1>1
<1>3. \A i \in DOMAIN Append(cs, c) : i \in DOMAIN cs \/ i = Len(cs) + 1 BY <1>2
<1>4. \A i \in DOMAIN Append(cs, c) : Append(cs, c)[i].at <= t
  BY <1>1, <1>2, <1>3
<1>5. \A i, j \in DOMAIN Append(cs, c) : i <= j => Append(cs, c)[i].at <= Append(cs, c)[j].at
  <2> SUFFICES ASSUME NEW i \in DOMAIN Append(cs, c), NEW j \in DOMAIN Append(cs, c), i <= j
               PROVE  Append(cs, c)[i].at <= Append(cs, c)[j].at
    OBVIOUS
  <2>1. CASE j = Len(cs) + 1 BY <1>2, <1>4, <2>1
  <2>2. CASE j # Len(cs) + 1
    <3>1. i \in DOMAIN cs /\ j \in DOMAIN cs BY <1>2, <2>2
    <3> QED BY <1>1, <1>2, <3>1
  <2> QED BY <2>1, <2>2
<1> QED BY <1>1, <1>2, <1>4, <1>5 DEF InOrder

LEMMA Inflow ==
  ASSUME NEW a \in Nat, NEW b \in Nat, NEW r \in Nat
  PROVE  /\ a * r \in Nat /\ b * r \in Nat /\ (a + b) * r = a * r + b * r
         /\ a <= b => a * r <= b * r
<1>1. a * r \in Nat /\ b * r \in Nat /\ (a + b) * r = a * r + b * r OBVIOUS
<1>2. ASSUME a <= b PROVE a * r <= b * r
  <2>1. PICK d \in Nat : d = b - a BY <1>2
  <2>2. b = a + d BY <2>1
  <2>3. b * r = a * r + d * r /\ d * r \in Nat BY <2>2
  <2> QED BY <1>1, <2>3
<1> QED BY <1>1, <1>2

LEMMA BucketStep ==
  ASSUME Lim!CooldownAssumption, NEW cs, NEW t, InOrder(cs, t), NEW level, NEW at,
         BucketInv(cs, level, at), at <= t, NEW c \in Logged, c.at = t,
         NEW filled, filled = Lim!Least(level + (t - at) * Refill, Ceiling), (c.ok <=> filled >= 1)
  PROVE  BucketInv(Append(cs, c), IF filled >= 1 THEN filled - 1 ELSE filled, t)
<1>1. /\ Ceiling \in Nat /\ Refill \in Nat /\ t \in Nat /\ at \in Nat /\ level \in 0..Ceiling
      /\ cs \in Seq(Logged) /\ \A i \in DOMAIN cs : cs[i].at <= at
  BY LimitsAre, OneMoreCall DEF BucketInv
<1>2. PICK meanwhile \in Nat, r \in Nat : meanwhile = t - at /\ r = meanwhile * Refill
  <2>1. t - at \in Nat BY <1>1
  <2>2. (t - at) * Refill \in Nat BY <1>1, <2>1
  <2> QED BY <2>1, <2>2
<1>3. /\ filled \in Nat /\ filled <= Ceiling /\ filled <= level + r
  BY <1>1, <1>2 DEF Lim!Least
<1>4. PICK inc \in {0, 1} : inc = IF filled >= 1 THEN 1 ELSE 0 OBVIOUS
<1>4a. inc = IF c.ok THEN 1 ELSE 0 BY <1>4
<1>5. PICK left \in Nat : left = (IF filled >= 1 THEN filled - 1 ELSE filled) /\ left + inc = filled
  <2>1. CASE filled >= 1 BY <1>3, <1>4, <2>1
  <2>2. CASE ~(filled >= 1) BY <1>3, <1>4, <2>2
  <2> QED BY <2>1, <2>2
<1>6. ASSUME NEW s \in 0..t
      PROVE  Number(Append(cs, c), Granted(s, t)) + left <= Ceiling + (t - s) * Refill
  <2>1. c \in Granted(s, t) <=> c.ok BY <1>1 DEF Granted
  <2>2. PICK n \in Nat, m \in Nat :
          /\ n = Number(cs, Granted(s, t)) /\ m = Number(Append(cs, c), Granted(s, t)) /\ m = n + inc
    <3>1. Number(Append(cs, c), Granted(s, t)) = Number(cs, Granted(s, t)) + (IF c \in Granted(s, t) THEN 1 ELSE 0)
      BY <1>1, NumberAppend
    <3>2. Number(cs, Granted(s, t)) \in Nat BY <1>1, NumberAppend
    <3> QED BY <1>4a, <2>1, <3>1, <3>2
  <2>3. CASE s <= at
    <3>1. \A i \in DOMAIN cs : cs[i] \in Granted(s, t) => cs[i] \in Granted(s, at)
      BY <1>1 DEF Granted, Logged
    <3>2. n <= Number(cs, Granted(s, at)) /\ Number(cs, Granted(s, at)) \in Nat
      BY <1>1, <2>2, <3>1, NumberWithin
    <3>3. PICK a \in Nat : a = at - s BY <1>1, <2>3
    <3>4. Number(cs, Granted(s, at)) + level <= Ceiling + a * Refill
      BY <1>1, <2>3, <3>3 DEF BucketInv
    <3>5. t - s = a + meanwhile BY <1>1, <1>2, <3>3
    <3>6. (a + meanwhile) * Refill = a * Refill + r /\ a * Refill \in Nat BY <1>1, <1>2, Inflow
    <3>7. PICK x \in Nat, y \in Nat : x = a * Refill /\ y = Number(cs, Granted(s, at)) BY <3>2, <3>6
    <3>8. PICK v \in Nat : v = level BY <1>1
    <3>9. n <= y /\ y + v <= Ceiling + x /\ filled <= v + r BY <1>3, <3>2, <3>4, <3>7, <3>8
    <3>10. m + left <= Ceiling + (x + r)
      <4>1. inc \in Nat /\ filled \in Nat /\ Ceiling \in Nat BY <1>1, <1>3
      <4>2. m = n + inc /\ left + inc = filled BY <1>5, <2>2
      <4>3. m + left = n + filled BY <4>1, <4>2
      <4> QED BY <3>9, <4>1, <4>3
    <3> QED BY <2>2, <3>5, <3>6, <3>7, <3>10
  <2>4. CASE at < s
    <3>1. \A i \in DOMAIN cs : cs[i] \notin Granted(s, t) BY <1>1, <2>4 DEF Granted, Logged
    <3>2. n = 0 BY <1>1, <2>2, <3>1, NumberOfNone
    <3>3. PICK x \in Nat : x = (t - s) * Refill
      <4>1. t - s \in Nat BY <1>1
      <4> QED BY <1>1, <4>1
    <3>4. m + left <= Ceiling + x BY <1>1, <1>3, <1>5, <2>2, <3>2
    <3> QED BY <2>2, <3>3, <3>4
  <2> QED BY <1>1, <2>3, <2>4
<1>7. ASSUME NEW s \in Nat, NEW e \in Nat, s <= e
      PROVE  Number(Append(cs, c), Granted(s, e)) <= Ceiling + (e - s) * Refill
  <2>1. CASE s <= t /\ t <= e
    <3>1. Append(cs, c) \in Seq(Logged) /\ \A i \in DOMAIN Append(cs, c) : Append(cs, c)[i].at <= t
      BY OneMoreCall DEF InOrder
    <3>2. \A i \in DOMAIN Append(cs, c) :
            Append(cs, c)[i] \in Granted(s, e) => Append(cs, c)[i] \in Granted(s, t)
      BY <1>1, <3>1 DEF Granted, Logged
    <3>3. PICK n \in Nat, m \in Nat :
            n = Number(Append(cs, c), Granted(s, e)) /\ m = Number(Append(cs, c), Granted(s, t)) /\ n <= m
      BY <3>1, <3>2, NumberWithin
    <3>4. PICK x \in Nat, y \in Nat : x = (t - s) * Refill /\ y = (e - s) * Refill /\ x <= y
      <4>1. PICK a \in Nat, b \in Nat : a = t - s /\ b = e - s /\ a <= b BY <1>1, <2>1
      <4>2. a * Refill \in Nat /\ b * Refill \in Nat /\ a * Refill <= b * Refill BY <1>1, <4>1, Inflow
      <4> QED BY <4>1, <4>2
    <3>5. m + left <= Ceiling + x
      <4>1. s \in 0..t BY <1>1, <2>1
      <4>2. Number(Append(cs, c), Granted(s, t)) + left <= Ceiling + (t - s) * Refill BY <1>6, <4>1
      <4> QED BY <3>3, <3>4, <4>2
    <3>6. n <= Ceiling + y
      <4>1. n <= m /\ x <= y /\ left \in Nat /\ Ceiling \in Nat BY <1>1, <1>5, <3>3, <3>4
      <4> QED BY <3>5, <4>1
    <3> QED BY <3>3, <3>4, <3>6
  <2>2. CASE ~(s <= t /\ t <= e)
    <3>1. c \notin Granted(s, e) BY <1>1, <2>2 DEF Granted
    <3>2. Number(Append(cs, c), Granted(s, e)) = Number(cs, Granted(s, e)) + 0 /\ Number(cs, Granted(s, e)) \in Nat
      BY <1>1, <3>1, NumberAppend
    <3>3. Number(cs, Granted(s, e)) <= Ceiling + (e - s) * Refill BY <1>7 DEF BucketInv
    <3>4. PICK n \in Nat : n = Number(cs, Granted(s, e)) BY <3>2
    <3> QED BY <3>2, <3>3, <3>4
  <2> QED BY <2>1, <2>2
<1>8. \A i \in DOMAIN Append(cs, c) : Append(cs, c)[i].at <= t BY OneMoreCall DEF InOrder
<1>9. left \in 0..Ceiling BY <1>1, <1>3, <1>4, <1>5
<1>10. BucketInv(Append(cs, c), left, t) BY <1>1, <1>6, <1>7, <1>8, <1>9 DEF BucketInv
<1> QED BY <1>5, <1>10

\* Days do not go back.
LEMMA DaysFollow ==
  ASSUME Lim!CooldownAssumption
  PROVE  /\ \A a \in Nat : a \div Span \in Nat
         /\ \A a, b \in Nat : a <= b => a \div Span <= b \div Span
<1>1. Span \in Nat /\ Span > 0 BY LimitsAre
<1>2. ASSUME NEW a \in Nat PROVE a \div Span \in Nat BY <1>1
<1>3. ASSUME NEW a \in Nat, NEW b \in Nat, a <= b PROVE a \div Span <= b \div Span
  BY <1>1, <1>3
<1> QED BY <1>2, <1>3

LEMMA LedgerStep ==
  ASSUME Lim!CooldownAssumption, NEW cs, NEW t, InOrder(cs, t), NEW have, NEW d,
         LedgerInv(cs, have, d), d <= t \div Span, NEW k \in Callers, NEW c \in Logged,
         c.at = t, c.key = k, NEW base, NEW thatDay, thatDay = t \div Span,
         base = (IF thatDay # d THEN [u \in Callers |-> 0] ELSE have),
         (c.ok <=> base[k] + 1 <= Ceiling)
  PROVE  LedgerInv(Append(cs, c), IF base[k] + 1 > Ceiling THEN base ELSE [base EXCEPT ![k] = @ + 1], thatDay)
<1>1. /\ Ceiling \in Nat /\ t \in Nat /\ cs \in Seq(Logged) /\ d \in Nat /\ have \in [Callers -> 0..Ceiling]
      /\ \A i \in DOMAIN cs : cs[i].at \div Span <= d
      /\ \A i \in DOMAIN cs : cs[i] \in Logged
  BY LimitsAre, OneMoreCall DEF LedgerInv
<1>2. thatDay \in Nat /\ d <= thatDay BY <1>1, DaysFollow
<1>3. base \in [Callers -> 0..Ceiling] BY <1>1
<1>4. PICK bk \in Nat : bk = base[k] /\ bk <= Ceiling BY <1>3
<1> DEFINE after == IF base[k] + 1 > Ceiling THEN base ELSE [base EXCEPT ![k] = @ + 1]
<1>5. /\ after \in [Callers -> 0..Ceiling]
      /\ \A u \in Callers : after[u] = base[u] + (IF u = k /\ c.ok THEN 1 ELSE 0)
  <2>1. CASE bk + 1 > Ceiling
    <3>1. after = base BY <1>4, <2>1
    <3>1a. ~c.ok BY <1>1, <1>4, <2>1
    <3>2. \A u \in Callers : base[u] = base[u] + 0 BY <1>3
    <3> HIDE DEF after
    <3> QED BY <1>3, <3>1, <3>1a, <3>2
  <2>2. CASE bk + 1 <= Ceiling
    <3>1. after = [base EXCEPT ![k] = bk + 1]
      <4>1. ~(bk + 1 > Ceiling) BY <1>1, <1>4, <2>2
      <4> QED BY <1>4, <4>1
    <3>1a. c.ok BY <1>4, <2>2
    <3>2. bk + 1 \in 0..Ceiling BY <1>1, <2>2
    <3>3. \A u \in Callers : u # k => base[u] = base[u] + 0 BY <1>3
    <3> HIDE DEF after
    <3> QED BY <1>3, <1>4, <3>1, <3>1a, <3>2, <3>3
  <2>3. bk + 1 > Ceiling \/ bk + 1 <= Ceiling BY <1>1, <1>4
  <2> HIDE DEF after
  <2> QED BY <2>1, <2>2, <2>3
<1>6. \A u \in Callers : Number(cs, GrantedOf(u, thatDay)) <= base[u] /\ Number(cs, GrantedOf(u, thatDay)) \in Nat
  <2> SUFFICES ASSUME NEW u \in Callers
               PROVE  Number(cs, GrantedOf(u, thatDay)) <= base[u] /\ Number(cs, GrantedOf(u, thatDay)) \in Nat
    OBVIOUS
  <2>1. Number(cs, GrantedOf(u, thatDay)) \in Nat BY <1>1, NumberIs
  <2>2. CASE thatDay = d BY <2>1, <2>2 DEF LedgerInv
  <2>3. CASE thatDay # d
    <3>1. ASSUME NEW i \in DOMAIN cs PROVE cs[i] \notin GrantedOf(u, thatDay)
      <4>1. PICK x \in Nat : x = cs[i].at \div Span /\ x <= d BY <1>1, DaysFollow DEF Logged
      <4>2. x # thatDay BY <1>1, <1>2, <2>3, <4>1
      <4> QED BY <4>1, <4>2 DEF GrantedOf
    <3>2. Number(cs, GrantedOf(u, thatDay)) = 0 BY <1>1, <3>1, NumberOfNone
    <3>3. base[u] = 0 BY <2>3
    <3> QED BY <2>1, <3>2, <3>3
  <2> QED BY <2>2, <2>3
<1>7. ASSUME NEW u \in Callers, NEW e \in Nat
      PROVE  /\ Number(Append(cs, c), GrantedOf(u, e))
                  = Number(cs, GrantedOf(u, e)) + (IF u = k /\ c.ok /\ e = thatDay THEN 1 ELSE 0)
             /\ Number(cs, GrantedOf(u, e)) \in Nat
  <2>1. c \in GrantedOf(u, e) <=> (u = k /\ c.ok /\ e = thatDay) BY DEF GrantedOf
  <2> QED BY <1>1, <2>1, NumberAppend
<1> HIDE DEF after
<1>8. ASSUME NEW u \in Callers PROVE Number(Append(cs, c), GrantedOf(u, thatDay)) <= after[u]
  <2>1. PICK n \in Nat, m \in Nat, b \in Nat :
          /\ n = Number(cs, GrantedOf(u, thatDay)) /\ m = Number(Append(cs, c), GrantedOf(u, thatDay))
          /\ b = base[u]
    <3>1. Number(cs, GrantedOf(u, thatDay)) \in Nat BY <1>6
    <3>2. Number(Append(cs, c), GrantedOf(u, thatDay)) \in Nat BY <1>2, <1>7, <3>1
    <3> QED BY <1>3, <3>1, <3>2
  <2>2. n <= b BY <1>6, <2>1
  <2>3. CASE u = k /\ c.ok
    <3>1. m = n + 1 BY <1>2, <1>7, <2>1, <2>3
    <3>2. after[u] = b + 1 BY <1>5, <2>1, <2>3
    <3> QED BY <2>1, <2>2, <3>1, <3>2
  <2>4. CASE ~(u = k /\ c.ok)
    <3>1. m = n + 0 BY <1>2, <1>7, <2>1, <2>4
    <3>2. after[u] = b + 0 BY <1>5, <2>1, <2>4
    <3> QED BY <2>1, <2>2, <3>1, <3>2
  <2> QED BY <2>3, <2>4
<1>9. ASSUME NEW u \in Callers, NEW e \in Nat PROVE Number(Append(cs, c), GrantedOf(u, e)) <= Ceiling
  <2>1. CASE e = thatDay
    <3>1. PICK a \in Nat : a = after[u] /\ a <= Ceiling BY <1>5
    <3>2. Number(Append(cs, c), GrantedOf(u, e)) <= a BY <1>8, <2>1, <3>1
    <3>3. Number(Append(cs, c), GrantedOf(u, e)) \in Nat
      <4>1. Append(cs, c) \in Seq(Logged) BY OneMoreCall DEF InOrder
      <4> QED BY <4>1, NumberIs
    <3> QED BY <1>1, <3>1, <3>2, <3>3
  <2>2. CASE e # thatDay
    <3>1. Number(Append(cs, c), GrantedOf(u, e)) = Number(cs, GrantedOf(u, e)) + 0 BY <1>7, <2>2
    <3>2. PICK n \in Nat : n = Number(cs, GrantedOf(u, e)) BY <1>7
    <3>3. n <= Ceiling BY <3>2 DEF LedgerInv
    <3> QED BY <3>1, <3>2, <3>3
  <2> QED BY <2>1, <2>2
<1>10. ASSUME NEW i \in DOMAIN Append(cs, c) PROVE Append(cs, c)[i].at \div Span <= thatDay
  <2>1. CASE i \in DOMAIN cs
    <3>1. Append(cs, c)[i] = cs[i] BY <2>1, OneMoreCall
    <3>2. PICK x \in Nat : x = cs[i].at \div Span /\ x <= d BY <1>1, <2>1, DaysFollow DEF Logged
    <3>3. x <= thatDay BY <1>1, <1>2, <3>2
    <3> QED BY <3>1, <3>2, <3>3
  <2>2. CASE i \notin DOMAIN cs
    <3>1. Append(cs, c)[i] = c BY <2>2, OneMoreCall
    <3> QED BY <1>2, <3>1
  <2> QED BY <2>1, <2>2
<1>11. LedgerInv(Append(cs, c), after, thatDay) BY <1>2, <1>5, <1>8, <1>9, <1>10 DEF LedgerInv
<1> QED BY <1>11 DEF after

LEMMA WindowStep ==
  ASSUME Lim!CooldownAssumption, NEW cs, NEW t, InOrder(cs, t), NEW n, NEW e,
         WindowInv(cs, n, e), n > 0 => e <= t + Span, NEW c \in Logged, c.at = t, NEW m, NEW f,
         n = 0 \/ e <= t => m = 1 /\ f = t + Span,
         ~(n = 0 \/ e <= t) => m = n + 1 /\ f = e,
         c.ok <=> m <= Ceiling
  PROVE  WindowInv(Append(cs, c), m, f) /\ f <= t + Span
<1> DEFINE new == Append(cs, c)
           begun == f - Span
<1>0. /\ Ceiling \in Nat /\ Ceiling > 0 /\ Span \in Nat /\ Span > 0 /\ t \in Nat
      /\ n \in Nat /\ e \in Nat /\ (n > 0 => e >= Span) /\ (n = 0 => cs = <<>>)
  <2>1. n \in Nat /\ e \in Nat /\ (n > 0 => e >= Span) /\ (n = 0 => cs = <<>>) BY DEF WindowInv
  <2> QED BY <2>1, LimitsAre DEF InOrder
<1>1. /\ Ceiling \in Nat /\ Ceiling > 0 /\ Span \in Nat /\ Span > 0 /\ t \in Nat /\ n \in Nat /\ e \in Nat
      /\ cs \in Seq(Logged) /\ new \in Seq(Logged)
      /\ DOMAIN cs = 1..Len(cs) /\ Len(cs) \in Nat /\ DOMAIN new = 1..(Len(cs) + 1)
      /\ new[Len(cs) + 1] = c /\ \A i \in DOMAIN cs : new[i] = cs[i] /\ cs[i] \in Logged
      /\ \A i \in DOMAIN cs : cs[i].at <= t
  <2>1. /\ cs \in Seq(Logged) /\ InOrder(new, t)
        /\ DOMAIN cs = 1..Len(cs) /\ Len(cs) \in Nat /\ DOMAIN new = 1..(Len(cs) + 1)
        /\ new[Len(cs) + 1] = c /\ \A i \in DOMAIN cs : new[i] = cs[i] /\ cs[i] \in Logged
    BY OneMoreCall
  <2>2. new \in Seq(Logged) /\ \A i \in DOMAIN cs : cs[i].at <= t BY <2>1 DEF InOrder
  <2> QED BY <1>0, <2>1, <2>2
<1>2. /\ m \in Nat /\ m > 0 /\ f \in Nat /\ f >= Span /\ t < f /\ f <= t + Span
      /\ begun \in Nat /\ begun <= t
  <2>1. CASE n = 0 \/ e <= t BY <1>0, <2>1
  <2>2. CASE ~(n = 0 \/ e <= t) BY <1>0, <2>2
  <2> QED BY <2>1, <2>2
<1>3. \A T : /\ Number(new, T) = Number(cs, T) + (IF c \in T THEN 1 ELSE 0)
             /\ Number(cs, T) \in Nat /\ Number(new, T) \in Nat
  <2> SUFFICES ASSUME NEW T
               PROVE  /\ Number(new, T) = Number(cs, T) + (IF c \in T THEN 1 ELSE 0)
                      /\ Number(cs, T) \in Nat /\ Number(new, T) \in Nat
    OBVIOUS
  <2> QED BY <1>1, NumberAppend, NumberIs
<1> HIDE DEF new, begun
\* The window that has just begun has nothing in it yet, the last one all within Span.
<1>4. Number(cs, GrantedFrom(begun)) + 1 <= m /\ Number(cs, GrantedFrom(begun)) <= Ceiling
  <2>1. CASE n = 0 \/ e <= t
    <3>1. begun = t BY <1>1, <2>1 DEF begun
    <3>2. ASSUME NEW i \in DOMAIN cs PROVE cs[i] \notin GrantedFrom(t)
      <4>1. n > 0 BY <1>0
      <4>2. cs[i].at < e BY <4>1 DEF WindowInv
      <4>3. cs[i].at < t BY <1>0, <1>1, <2>1, <4>1, <4>2 DEF Logged
      <4> QED BY <1>1, <4>3 DEF GrantedFrom, Logged
    <3>3. Number(cs, GrantedFrom(t)) = 0 BY <1>1, <3>2, NumberOfNone
    <3> QED BY <1>1, <2>1, <3>1, <3>3
  <2>2. CASE ~(n = 0 \/ e <= t)
    <3>1. begun = e - Span /\ n > 0 /\ m = n + 1 BY <1>1, <2>2 DEF begun
    <3>2. Number(cs, GrantedFrom(e - Span)) <= n /\ Number(cs, GrantedFrom(e - Span)) <= Ceiling
      BY <3>1 DEF WindowInv
    <3>3. PICK x \in Nat : x = Number(cs, GrantedFrom(begun)) BY <1>3
    <3> QED BY <1>1, <3>1, <3>2, <3>3
  <2> QED BY <2>1, <2>2
<1>5. ASSUME NEW s \in Nat, s + Span > begun
      PROVE  Number(cs, Granted(s, begun - 1)) <= Ceiling
  <2>1. CASE n = 0 \/ e <= t
    <3>1. begun = t BY <1>1, <2>1 DEF begun
    <3>2. CASE n = 0
      <4>1. \A i \in DOMAIN cs : cs[i] \notin Granted(s, begun - 1) BY <1>0, <1>1, <3>2
      <4> QED BY <1>1, <4>1, NumberOfNone
    <3>3. CASE n > 0
      <4>1. e - Span <= s BY <1>1, <1>5, <2>1, <3>1, <3>3
      <4>2. \A i \in DOMAIN cs : cs[i] \in Granted(s, begun - 1) => cs[i] \in GrantedFrom(e - Span)
        <5> SUFFICES ASSUME NEW i \in DOMAIN cs, cs[i] \in Granted(s, begun - 1)
                     PROVE  cs[i] \in GrantedFrom(e - Span)
          OBVIOUS
        <5>1. cs[i] \in Logged /\ cs[i].ok /\ cs[i].at \in Nat /\ s <= cs[i].at
          BY <1>1, <1>2 DEF Granted, Logged
        <5>2. e - Span <= cs[i].at BY <1>1, <4>1, <5>1
        <5> QED BY <5>1, <5>2 DEF GrantedFrom
      <4>3. Number(cs, GrantedFrom(e - Span)) <= Ceiling BY <3>3 DEF WindowInv
      <4>4. PICK x \in Nat, y \in Nat :
              x = Number(cs, Granted(s, begun - 1)) /\ y = Number(cs, GrantedFrom(e - Span)) /\ x <= y
        BY <1>1, <4>2, NumberWithin
      <4> QED BY <1>1, <4>3, <4>4
    <3> QED BY <1>1, <3>2, <3>3
  <2>2. CASE ~(n = 0 \/ e <= t)
    <3>1. begun = e - Span /\ n > 0 BY <1>1, <2>2 DEF begun
    <3> QED BY <1>5, <3>1 DEF WindowInv
  <2> QED BY <2>1, <2>2
<1>6. c \in GrantedFrom(begun) <=> c.ok BY <1>1, <1>2 DEF GrantedFrom
<1>7. Number(new, GrantedFrom(begun)) <= m /\ Number(new, GrantedFrom(begun)) <= Ceiling
  <2>1. PICK x \in Nat, y \in Nat :
          x = Number(cs, GrantedFrom(begun)) /\ y = Number(new, GrantedFrom(begun))
    BY <1>3
  <2>2. CASE c.ok
    <3>1. y = x + 1 BY <1>3, <1>6, <2>1, <2>2
    <3>2. x + 1 <= m /\ m <= Ceiling BY <1>4, <2>1, <2>2
    <3> QED BY <1>1, <1>2, <2>1, <3>1, <3>2
  <2>3. CASE ~c.ok
    <3>1. y = x + 0 BY <1>3, <1>6, <2>1, <2>3
    <3> QED BY <1>1, <1>2, <1>4, <2>1, <3>1
  <2> QED BY <2>2, <2>3
<1>8. ASSUME NEW s \in Nat, s + Span > begun
      PROVE  Number(new, Granted(s, begun - 1)) <= Ceiling
  <2>1. c \notin Granted(s, begun - 1) BY <1>1, <1>2 DEF Granted
  <2>2. Number(new, Granted(s, begun - 1)) = Number(cs, Granted(s, begun - 1)) + 0 BY <1>3, <2>1
  <2>3. PICK x \in Nat : x = Number(cs, Granted(s, begun - 1)) BY <1>3
  <2> QED BY <1>5, <1>8, <2>2, <2>3
<1>9. ASSUME NEW s \in Nat PROVE Number(new, Granted(s, s + Span - 1)) <= 2 * Ceiling
  <2>1. CASE s <= t /\ t <= s + Span - 1
    <3>1. ASSUME NEW i \in DOMAIN new, new[i] \in Granted(s, s + Span - 1)
          PROVE  new[i] \in Granted(s, begun - 1) \/ new[i] \in GrantedFrom(begun)
      <4>1. PICK a \in Nat : a = new[i].at /\ s <= a BY <1>1, <3>1 DEF Granted, Logged
      <4>2. new[i] \in Logged /\ new[i].ok BY <3>1 DEF Granted
      <4>3. CASE begun <= a BY <4>1, <4>2, <4>3 DEF GrantedFrom
      <4>4. CASE a < begun
        <5>1. a \in s..(begun - 1) BY <1>2, <4>1, <4>4
        <5> QED BY <4>1, <4>2, <5>1 DEF Granted
      <4> QED BY <1>2, <4>1, <4>3, <4>4
    <3>2. PICK x \in Nat, y \in Nat, z \in Nat :
            /\ x = Number(new, Granted(s, s + Span - 1)) /\ y = Number(new, Granted(s, begun - 1))
            /\ z = Number(new, GrantedFrom(begun)) /\ x <= y + z
      BY <1>1, <3>1, NumberOfBoth
    <3>3. s + Span > begun BY <1>1, <1>2, <2>1
    <3>4. y <= Ceiling /\ z <= Ceiling BY <1>7, <1>8, <3>2, <3>3
    <3>5. x <= 2 * Ceiling BY <1>1, <3>2, <3>4
    <3> QED BY <3>2, <3>5
  <2>2. CASE ~(s <= t /\ t <= s + Span - 1)
    <3>1. c \notin Granted(s, s + Span - 1) BY <1>1, <2>2 DEF Granted
    <3>2. Number(new, Granted(s, s + Span - 1)) = Number(cs, Granted(s, s + Span - 1)) + 0 BY <1>3, <3>1
    <3>3. PICK x \in Nat : x = Number(cs, Granted(s, s + Span - 1)) BY <1>3
    <3>4. x <= 2 * Ceiling BY <3>3 DEF WindowInv
    <3> QED BY <3>2, <3>3, <3>4
  <2> QED BY <2>1, <2>2
<1>10. \E j \in DOMAIN new : new[j].ok /\ new[j].at + Span = f
  <2>1. CASE n = 0 \/ e <= t
    <3>1. c.ok /\ c.at + Span = f BY <1>1, <2>1
    <3>2. Len(cs) + 1 \in DOMAIN new BY <1>1
    <3> QED BY <1>1, <3>1, <3>2
  <2>2. CASE ~(n = 0 \/ e <= t)
    <3>1. n > 0 BY <1>1, <2>2
    <3>2. PICK j \in DOMAIN cs : cs[j].ok /\ cs[j].at + Span = e BY <3>1 DEF WindowInv
    <3>3. j \in DOMAIN new /\ new[j] = cs[j] BY <1>1, <3>2
    <3> QED BY <2>2, <3>2, <3>3
  <2> QED BY <2>1, <2>2
<1>11. ASSUME NEW i \in DOMAIN new, ~new[i].ok
       PROVE  \E j \in 1..i : new[j].ok /\ new[j].at + Span > new[i].at
  <2>1. CASE i \in DOMAIN cs
    <3>1. PICK j \in 1..i : cs[j].ok /\ cs[j].at + Span > cs[i].at BY <1>1, <1>11, <2>1 DEF WindowInv
    <3>2. j \in DOMAIN cs BY <1>1, <2>1, <3>1
    <3> QED BY <1>1, <2>1, <3>1, <3>2
  <2>2. CASE i \notin DOMAIN cs
    <3>1. i = Len(cs) + 1 BY <1>1, <2>2
    <3>2. PICK j \in DOMAIN new : new[j].ok /\ new[j].at + Span = f BY <1>10
    <3>3. j \in 1..i BY <1>1, <3>1, <3>2
    <3>4. new[i].at = t BY <1>1, <3>1
    <3>5. new[j].at + Span > new[i].at BY <1>2, <3>2, <3>4
    <3> QED BY <3>2, <3>3, <3>5
  <2> QED BY <2>1, <2>2
<1>12. ASSUME NEW i \in DOMAIN new PROVE new[i].at < f
  <2>1. CASE i \in DOMAIN cs
    <3>1. cs[i].at \in Nat /\ cs[i].at <= t BY <1>1, <2>1 DEF Logged
    <3> QED BY <1>1, <1>2, <2>1, <3>1
  <2>2. CASE i \notin DOMAIN cs
    <3>1. i = Len(cs) + 1 BY <1>1, <2>2
    <3> QED BY <1>1, <1>2, <3>1
  <2> QED BY <2>1, <2>2
<1>13. WindowInv(new, m, f)
  <2>1. m > 0 => /\ f >= Span
                 /\ \A i \in DOMAIN new : new[i].at < f
                 /\ \E j \in DOMAIN new : new[j].ok /\ new[j].at + Span = f
                 /\ Number(new, GrantedFrom(f - Span)) <= m
                 /\ Number(new, GrantedFrom(f - Span)) <= Ceiling
                 /\ \A s \in Nat : s + Span > f - Span =>
                      Number(new, Granted(s, f - Span - 1)) <= Ceiling
    BY <1>2, <1>7, <1>8, <1>10, <1>12 DEF begun
  <2>2. m \in Nat /\ f \in Nat /\ m # 0 BY <1>2
  <2> QED BY <1>9, <1>11, <2>1, <2>2 DEF WindowInv
<1> QED BY <1>2, <1>13 DEF new

\* The loop of SlidingWindow.hit stops somewhere.
LEMMA DropStops ==
  ASSUME NEW st \in Seq(Nat), NEW P, P \subseteq Nat
  PROVE  \E n \in 0..Len(st) : (\A i \in 1..n : st[i] \in P) /\ (n < Len(st) => st[n + 1] \notin P)
<1>1. Len(st) \in Nat OBVIOUS
<1> DEFINE T == {n \in 0..Len(st) : n < Len(st) => st[n + 1] \notin P}
<1>2. T \subseteq Nat /\ Len(st) \in T BY <1>1
<1>3. PICK x \in T : \A y \in T : ~(y < x)
  <2> DEFINE R == OpToRel(<, Nat)
  <2>1. T # {} BY <1>2
  <2> HIDE DEF T
  <2>2. \E x \in T : \A y \in T : <<y, x>> \notin R BY <1>2, <2>1, NatLessThanWellFounded, WFMin
  <2>3. \A x, y \in Nat : y < x => <<y, x>> \in R BY DEF OpToRel
  <2> HIDE DEF R
  <2> QED BY <1>2, <2>2, <2>3
<1>4. x \in 0..Len(st) /\ (x < Len(st) => st[x + 1] \notin P) OBVIOUS
<1>5. ASSUME NEW i \in 1..x PROVE st[i] \in P
  <2>1. i - 1 \in 0..Len(st) /\ i - 1 < x /\ i - 1 < Len(st) /\ (i - 1) + 1 = i BY <1>1, <1>4, <1>5
  <2>2. i - 1 \notin T BY <1>3, <2>1
  <2> QED BY <2>1, <2>2
<1> QED BY <1>4, <1>5

\* SlidingWindow.hit: the first d stamps go, t comes, and the last are kept.
Hits(st, t, d, all, kept) ==
  /\ d \in 0..Len(st)
  /\ \A i \in 1..d : st[i] + Span <= t
  /\ d < Len(st) => ~(st[d + 1] + Span <= t)
  /\ all = Append(SubSeq(st, d + 1, Len(st)), t)
  /\ Len(all) > 4 * Ceiling => kept = SubSeq(all, Len(all) - 4 * Ceiling + 1, Len(all))
  /\ ~(Len(all) > 4 * Ceiling) => kept = all

LEMMA StampsStep ==
  ASSUME Lim!CooldownAssumption, NEW cs, NEW t, InOrder(cs, t), NEW st, NEW reply,
         StampsInv(cs, st, reply), NEW c \in Logged, c.at = t, NEW d, NEW all, NEW kept,
         Hits(st, t, d, all, kept)
  PROVE  StampsInv(Append(cs, c), kept, Len(kept))
<1> DEFINE new == Append(cs, c)
<1>1. PICK N \in Nat, n \in Nat, cap \in Nat : N = Len(cs) /\ n = Len(st) /\ cap = 4 * Ceiling
  BY LimitsAre DEF InOrder, StampsInv
<1>2. Span \in Nat /\ Span > 0 /\ t \in Nat /\ cap > 0 /\ d \in Nat /\ d <= n /\ n <= N /\ n <= cap
  BY <1>1, LimitsAre DEF InOrder, StampsInv, Hits
<1>2a. /\ new \in Seq(Logged) /\ cs \in Seq(Logged) /\ DOMAIN cs = 1..N
       /\ DOMAIN new = 1..(N + 1) /\ Len(new) = N + 1 /\ new[N + 1] = c
       /\ \A i \in 1..N : new[i] = cs[i] /\ cs[i] \in Logged
  BY <1>1, OneMoreCall DEF InOrder
<1>2b. /\ \A i \in 1..N : cs[i].at \in Nat /\ cs[i].at <= t
       /\ \A i, j \in 1..N : i <= j => cs[i].at <= cs[j].at
  <2>1. \A i \in 1..N : cs[i].at \in Nat BY <1>2a DEF Logged
  <2> QED BY <1>2a, <2>1 DEF InOrder
<1>2c. st \in Seq(Nat) /\ \A i \in 1..n : st[i] \in Nat /\ st[i] = cs[N - n + i].at
  <2>1. st \in Seq(Nat) /\ \A i \in 1..n : st[i] = cs[N - n + i].at BY <1>1 DEF StampsInv
  <2>2. \A i \in 1..n : st[i] \in Nat BY <1>1, <2>1
  <2> QED BY <2>1, <2>2
<1> HIDE DEF new
<1>3. PICK rest : rest = SubSeq(st, d + 1, n) OBVIOUS
<1>4. /\ rest \in Seq(Nat) /\ Len(rest) = n - d
      /\ \A i \in 1..(n - d) : rest[i] = st[d + i]
  <2>1. \A i \in (d + 1)..n : i \in 1..n BY <1>2
  <2>2. \A i \in (d + 1)..n : st[i] \in Nat BY <1>2c, <2>1
  <2>3. d + 1 \in Int /\ n \in Int BY <1>2
  <2>4. /\ rest \in Seq(Nat)
        /\ Len(rest) = IF d + 1 <= n THEN n - (d + 1) + 1 ELSE 0
        /\ \A i \in 1..(n - (d + 1) + 1) : rest[i] = st[d + 1 + i - 1]
    BY <1>3, <2>2, <2>3, SubSeqProperties
  <2>5. /\ n - (d + 1) + 1 = n - d /\ (IF d + 1 <= n THEN n - d ELSE 0) = n - d
        /\ \A i \in 1..(n - d) : d + 1 + i - 1 = d + i
    BY <1>2
  <2> QED BY <2>4, <2>5
<1>5. all = Append(rest, t) BY <1>1, <1>3 DEF Hits
<1>5a. PICK w \in Nat : w = n - d /\ d + w = n BY <1>2
\* The stamps before the cap are those of the calls after the first N - n + d.
<1>6. /\ all \in Seq(Nat) /\ Len(all) = w + 1
      /\ \A i \in 1..(w + 1) : all[i] \in Nat /\ all[i] = new[N - w + i].at
  <2>1. /\ all \in Seq(Nat) /\ Len(all) = w + 1 /\ all[w + 1] = t
        /\ \A i \in 1..w : all[i] = rest[i]
    <3>1. rest \in Seq(Nat) /\ Len(rest) = w /\ t \in Nat BY <1>2, <1>4, <1>5a
    <3> QED BY <1>5, <3>1
  <2>2. ASSUME NEW i \in 1..w PROVE all[i] \in Nat /\ all[i] = new[N - w + i].at
    <3>1. PICK j \in 1..n : j = d + i BY <1>2, <1>5a
    <3>2. PICK k \in 1..N : k = N - n + j /\ k = N - w + i BY <1>2, <1>5a, <3>1
    <3>3. st[j] \in Nat /\ st[j] = cs[k].at BY <1>2c, <3>1, <3>2
    <3>4. all[i] = st[j] BY <1>4, <1>5a, <2>1, <3>1
    <3>5. new[k] = cs[k] BY <1>2a, <3>2
    <3> QED BY <3>2, <3>3, <3>4, <3>5
  <2>3. N - w + (w + 1) = N + 1 BY <1>5a
  <2>4. all[w + 1] \in Nat /\ all[w + 1] = new[N - w + (w + 1)].at BY <1>2, <1>2a, <2>1, <2>3
  <2>5. \A i \in 1..(w + 1) : i \in 1..w \/ i = w + 1 BY <1>5a
  <2> QED BY <2>1, <2>2, <2>4, <2>5
<1>6a. ASSUME w + 1 > cap
       PROVE  kept \in Seq(Nat) /\ Len(kept) = cap /\ \A i \in 1..cap : kept[i] = new[N + 1 - cap + i].at
  <2>1. PICK x \in Nat : x = w + 1 - cap BY <1>6a
  <2>2. kept = SubSeq(all, x + 1, w + 1)
    <3>1. Len(all) = w + 1 /\ 4 * Ceiling = cap BY <1>1, <1>6
    <3>2. Len(all) - 4 * Ceiling + 1 = x + 1 /\ Len(all) > 4 * Ceiling BY <1>6a, <2>1, <3>1
    <3> QED BY <3>1, <3>2 DEF Hits
  <2>3. \A i \in (x + 1)..(w + 1) : all[i] \in Nat BY <1>6, <2>1
  <2>4. x + 1 \in Int /\ w + 1 \in Int BY <2>1
  <2>5. /\ kept \in Seq(Nat)
        /\ Len(kept) = IF x + 1 <= w + 1 THEN w + 1 - (x + 1) + 1 ELSE 0
        /\ \A i \in 1..(w + 1 - (x + 1) + 1) : kept[i] = all[x + 1 + i - 1]
    <3>1. /\ SubSeq(all, x + 1, w + 1) \in Seq(Nat)
          /\ Len(SubSeq(all, x + 1, w + 1)) = IF x + 1 <= w + 1 THEN w + 1 - (x + 1) + 1 ELSE 0
          /\ \A i \in 1..(w + 1 - (x + 1) + 1) :
               SubSeq(all, x + 1, w + 1)[i] = all[x + 1 + i - 1]
      BY <2>3, <2>4, SubSeqProperties
    <3> QED BY <2>2, <3>1
  <2>6. w + 1 - (x + 1) + 1 = cap /\ x + 1 <= w + 1 BY <1>2, <2>1
  <2>7. Len(kept) = cap /\ \A i \in 1..cap : kept[i] = all[x + 1 + i - 1] BY <2>5, <2>6
  <2>8. ASSUME NEW i \in 1..cap PROVE kept[i] = new[N + 1 - cap + i].at
    <3>1. PICK j \in 1..(w + 1) : j = x + 1 + i - 1 /\ N - w + j = N + 1 - cap + i
      BY <1>2, <1>6a, <2>1
    <3>2. kept[i] = all[j] BY <2>7, <3>1
    <3> QED BY <1>6, <3>1, <3>2
  <2> QED BY <2>5, <2>7, <2>8
<1>6b. ASSUME w + 1 <= cap
       PROVE  /\ kept \in Seq(Nat) /\ Len(kept) = w + 1
              /\ \A i \in 1..(w + 1) : kept[i] = new[N + 1 - (w + 1) + i].at
  <2>1. kept = all
    <3>1. Len(all) = w + 1 /\ 4 * Ceiling = cap BY <1>1, <1>6
    <3>2. ~(Len(all) > 4 * Ceiling) BY <1>6b, <3>1
    <3> QED BY <3>2 DEF Hits
  <2>2. ASSUME NEW i \in 1..(w + 1) PROVE kept[i] = new[N + 1 - (w + 1) + i].at
    <3>1. N + 1 - (w + 1) + i = N - w + i BY <1>2, <1>5a
    <3> QED BY <1>6, <2>1, <3>1
  <2> QED BY <1>6, <2>1, <2>2
<1>7. PICK m \in Nat : m = IF w + 1 > cap THEN cap ELSE w + 1 OBVIOUS
<1>8. /\ kept \in Seq(Nat) /\ Len(kept) = m
      /\ \A i \in 1..m : kept[i] = new[N + 1 - m + i].at
  <2>1. CASE w + 1 > cap
    <3>1. m = cap BY <1>7, <2>1
    <3> QED BY <1>6a, <2>1, <3>1
  <2>2. CASE w + 1 <= cap
    <3>1. m = w + 1 BY <1>7, <2>2
    <3> QED BY <1>6b, <2>2, <3>1
  <2> QED BY <2>1, <2>2
<1>9. m <= N + 1 /\ m <= cap /\ m <= w + 1 /\ (m = cap \/ m = w + 1) BY <1>2, <1>5a, <1>7
<1>10. ASSUME NEW i \in 1..m PROVE kept[i] + Span > t
  <2>1. PICK j \in 1..(N + 1) : j = N + 1 - m + i /\ N - w + 1 <= j BY <1>2, <1>5a, <1>9
  <2>2. kept[i] = new[j].at BY <1>8, <2>1
  <2>3. CASE j = N + 1
    <3>1. new[j].at = t BY <1>2a, <2>3
    <3>2. t + Span > t BY <1>2
    <3> QED BY <2>2, <3>1, <3>2
  <2>4. CASE j # N + 1
    <3>1. j \in 1..N /\ d < n /\ d + 1 \in 1..n BY <1>2, <1>5a, <2>1, <2>4
    <3>2. PICK k \in 1..N : k = N - n + (d + 1) /\ k <= j BY <1>2, <1>5a, <2>1, <3>1
    <3>3. cs[k].at <= cs[j].at /\ st[d + 1] = cs[k].at BY <1>2b, <1>2c, <3>1, <3>2
    <3>4. PICK a \in Nat, b \in Nat : a = cs[k].at /\ b = cs[j].at /\ a <= b
      BY <1>2b, <3>1, <3>2, <3>3
    <3>5. ~(a + Span <= t) BY <1>1, <3>1, <3>3, <3>4 DEF Hits
    <3>5a. Span \in Nat /\ t \in Nat BY <1>2
    <3>6. b + Span > t BY <3>4, <3>5, <3>5a
    <3>7. new[j] = cs[j] BY <1>2a, <3>1
    <3> QED BY <2>2, <3>4, <3>6, <3>7
  <2> QED BY <2>3, <2>4
<1>11. ASSUME m # cap, NEW i \in 1..(N + 1 - m) PROVE new[i].at + Span <= t
  <2>1. m = w + 1 /\ i \in 1..(N - w) /\ i \in 1..N /\ w < cap BY <1>2, <1>5a, <1>9, <1>11
  <2>2. PICK a \in Nat : a = cs[i].at /\ new[i].at = a BY <1>2a, <1>2b, <2>1
  <2>3. CASE d > 0
    <3>1. d \in 1..n BY <1>2, <2>3
    <3>2. PICK k \in 1..N : k = N - n + d /\ i <= k BY <1>2, <1>5a, <2>1, <3>1
    <3>3. cs[i].at <= cs[k].at /\ st[d] = cs[k].at BY <1>2b, <1>2c, <2>1, <3>1, <3>2
    <3>4. d \in 1..d BY <1>2, <2>3
    <3>5. PICK b \in Nat : b = cs[k].at /\ a <= b BY <1>2b, <2>2, <3>2, <3>3
    <3>6. b + Span <= t BY <3>3, <3>4, <3>5 DEF Hits
    <3>7. a + Span <= t BY <1>2, <3>5, <3>6
    <3> QED BY <2>2, <3>7
  <2>4. CASE d = 0
    <3>1. n # cap /\ i \in 1..(N - n) /\ N \in 1..N BY <1>2, <1>5a, <2>1, <2>4
    <3>2. cs # <<>> BY <1>1, <3>1
    <3>3. \A k \in 1..(N - n) : cs[k].at + Span <= cs[N].at BY <1>1, <3>1, <3>2 DEF StampsInv
    <3>4. PICK b \in Nat : b = cs[N].at /\ b <= t BY <1>2b, <3>1
    <3>5. a + Span <= b BY <2>2, <3>1, <3>3, <3>4
    <3>6. a + Span <= t BY <1>2, <3>4, <3>5
    <3> QED BY <2>2, <3>6
  <2> QED BY <1>2, <2>3, <2>4
<1>12. new[N + 1].at = t BY <1>2a
<1>13. /\ Len(kept) = m /\ Len(new) = N + 1 /\ 4 * Ceiling = cap /\ Len(kept) <= Len(new)
  BY <1>1, <1>2a, <1>8, <1>9
<1>14. m = cap \/ \A i \in 1..(N + 1 - m) : new[i].at + Span <= t BY <1>11
<1>15. StampsInv(new, kept, m)
  BY <1>8, <1>9, <1>10, <1>12, <1>13, <1>14 DEF StampsInv
<1> QED BY <1>8, <1>15 DEF new

LEMMA LimInvInit == ASSUME Lim!CooldownAssumption, Lim!Init PROVE LimInv
<1>1. /\ log = <<>> /\ instant = 0 /\ filling = Ceiling /\ filledAt = 0 /\ stamps = <<>>
      /\ taken = [k \in Callers |-> 0] /\ takenOn = 0 /\ bumps = 0 /\ endsAt = 0
  BY DEF Lim!Init
<1>2. Ceiling \in Nat /\ Span \in Nat /\ Span > 0 /\ Refill \in Nat BY LimitsAre
<1>3. log \in Seq(Logged) /\ DOMAIN log = {} /\ Len(log) = 0 BY <1>1
<1>4. \A T : Number(log, T) = 0 BY <1>3, NumberOfNone
<1>5. InOrder(log, instant) BY <1>1, <1>3 DEF InOrder
<1>6. BucketInv(log, filling, filledAt)
  <2>1. \A s \in 0..filledAt : Number(log, Granted(s, filledAt)) + filling <= Ceiling + (filledAt - s) * Refill
    <3> SUFFICES ASSUME NEW s \in 0..filledAt
                 PROVE  Number(log, Granted(s, filledAt)) + filling <= Ceiling + (filledAt - s) * Refill
      OBVIOUS
    <3>1. s = 0 /\ filledAt = 0 BY <1>1
    <3>2. (filledAt - s) * Refill = 0 BY <1>2, <3>1
    <3> QED BY <1>1, <1>2, <1>4, <3>2
  <2>2. ASSUME NEW s \in Nat, NEW e \in Nat, s <= e
        PROVE  Number(log, Granted(s, e)) <= Ceiling + (e - s) * Refill
    <3>1. PICK b \in Nat : b = e - s BY <2>2
    <3>2. PICK x \in Nat : x = b * Refill BY <1>2, Inflow
    <3>3. Number(log, Granted(s, e)) = 0 BY <1>4
    <3>4. 0 <= Ceiling + x BY <1>2
    <3> QED BY <3>1, <3>2, <3>3, <3>4
  <2> QED BY <1>1, <1>2, <1>3, <2>1, <2>2 DEF BucketInv
<1>7. StampsInv(log, stamps, replied)
  <2>1. stamps \in Seq(Nat) /\ Len(stamps) = 0 /\ 4 * Ceiling >= 0 BY <1>1, <1>2
  <2> QED BY <1>1, <1>3, <2>1 DEF StampsInv
<1>8. LedgerInv(log, taken, takenOn)
  <2>1. taken \in [Callers -> 0..Ceiling] /\ \A k \in Callers : taken[k] = 0 BY <1>1, <1>2
  <2> QED BY <1>1, <1>2, <1>3, <1>4, <2>1 DEF LedgerInv
<1>9. WindowInv(log, bumps, endsAt)
  <2>1. 0 <= 2 * Ceiling BY <1>2
  <2> QED BY <1>1, <1>3, <1>4, <2>1 DEF WindowInv
<1>10. instant \div Span \in Nat /\ filledAt <= instant /\ takenOn = 0 BY <1>1, DaysFollow
<1> QED BY <1>1, <1>5, <1>6, <1>7, <1>8, <1>9, <1>10 DEF LimInv

\* A call that is logged at the time it comes.
LEMMA LoggedNow ==
  ASSUME LimInv, NEW k \in Callers, NEW ok \in BOOLEAN
  PROVE  /\ [at |-> instant, key |-> k, ok |-> ok] \in Logged
         /\ InOrder(log, instant) /\ instant \in Nat
         /\ InOrder(Append(log, [at |-> instant, key |-> k, ok |-> ok]), instant)
<1>1. InOrder(log, instant) /\ instant \in Nat BY DEF LimInv, InOrder
<1>2. PICK c : c = [at |-> instant, key |-> k, ok |-> ok] OBVIOUS
<1>3. c \in Logged /\ c.at = instant BY <1>1, <1>2 DEF Logged
<1>4. InOrder(Append(log, c), instant) BY <1>1, <1>3, OneMoreCall
<1> QED BY <1>1, <1>2, <1>3, <1>4

LEMMA LimInvNext ==
  ASSUME Lim!CooldownAssumption, LimInv, [Lim!Next]_(Lim!vars)
  PROVE  LimInv'
<1>0. Ceiling \in Nat /\ Span \in Nat /\ Span > 0 BY LimitsAre
<1>1. CASE Lim!Tick
  <2>1. /\ instant' = instant + 1 /\ log' = log
        /\ UNCHANGED <<limiter, filling, filledAt, stamps, taken, takenOn, bumps, endsAt, replied>>
    BY <1>1 DEF Lim!Tick
  <2>2. instant \in Nat /\ instant' \in Nat BY <2>1 DEF LimInv, InOrder
  <2>3. InOrder(log', instant')
    <3>1. log \in Seq(Logged) /\ \A i \in DOMAIN log : log[i] \in Logged /\ log[i].at <= instant
      BY DEF LimInv, InOrder
    <3>2. \A i \in DOMAIN log : log[i].at <= instant + 1 BY <2>2, <3>1 DEF Logged
    <3> QED BY <2>1, <2>2, <3>2 DEF LimInv, InOrder
  <2>4. limiter = "bucket" => filledAt <= instant'
    BY <2>1, <2>2 DEF LimInv, BucketInv
  <2>5. limiter = "ledger" => takenOn <= instant' \div Span
    <3>1. PICK x \in Nat, y \in Nat : x = instant \div Span /\ y = (instant + 1) \div Span /\ x <= y
      BY <2>1, <2>2, DaysFollow
    <3> QED BY <2>1, <3>1 DEF LimInv, LedgerInv
  <2>6. limiter = "valkey" => (bumps > 0 => endsAt <= instant' + Span)
    BY <1>0, <2>1, <2>2 DEF LimInv, WindowInv
  <2> QED BY <2>1, <2>3, <2>4, <2>5, <2>6 DEF LimInv
<1>2. ASSUME NEW k \in Callers, Lim!Allow(k) PROVE LimInv'
  <2>1. PICK filled : filled = Lim!Least(filling + (instant - filledAt) * Refill, Ceiling) OBVIOUS
  <2>2. PICK ok \in BOOLEAN : ok <=> filled >= 1 OBVIOUS
  <2>3. PICK c : c = [at |-> instant, key |-> k, ok |-> ok] OBVIOUS
  <2>4. /\ limiter = "bucket" /\ limiter' = limiter /\ instant' = instant /\ filledAt' = instant
        /\ filling' = IF filled >= 1 THEN filled - 1 ELSE filled
    BY <1>2, <2>1 DEF Lim!Allow
  <2>5. log' = Append(log, c) BY <1>2, <2>1, <2>2, <2>3 DEF Lim!Allow, Lim!Called
  <2>6. c \in Logged /\ c.at = instant /\ (c.ok <=> filled >= 1) /\ InOrder(log, instant)
        /\ InOrder(log', instant')
    BY <2>2, <2>3, <2>4, <2>5, LoggedNow
  <2>7. BucketInv(log, filling, filledAt) /\ filledAt <= instant BY <2>4 DEF LimInv
  <2>8. BucketInv(Append(log, c), IF filled >= 1 THEN filled - 1 ELSE filled, instant)
    BY <2>1, <2>6, <2>7, BucketStep
  <2>9. BucketInv(log', filling', filledAt') BY <2>4, <2>5, <2>8
  <2>10. filledAt' <= instant' BY <2>4 DEF LimInv, InOrder
  <2> QED BY <2>4, <2>6, <2>9, <2>10 DEF LimInv
<1>3. ASSUME NEW k \in Callers, Lim!Hit(k) PROVE LimInv'
  <2>1. PICK all : all = Append(Lim!Recent, instant) OBVIOUS
  <2>2. PICK kept : kept = IF Len(all) > 4 * Ceiling
                           THEN SubSeq(all, Len(all) - 4 * Ceiling + 1, Len(all)) ELSE all
    OBVIOUS
  <2>3. PICK ok \in BOOLEAN : ok <=> Len(kept) <= Ceiling OBVIOUS
  <2>4. PICK c : c = [at |-> instant, key |-> k, ok |-> ok] OBVIOUS
  <2>5. /\ limiter = "window" /\ limiter' = limiter /\ instant' = instant
        /\ stamps' = kept /\ replied' = Len(kept)
    BY <1>3, <2>1, <2>2 DEF Lim!Hit
  <2>6. log' = Append(log, c)
    <3>1. Lim!Called(k, Len(kept) <= Ceiling) BY <1>3, <2>1, <2>2 DEF Lim!Hit
    <3>2. (Len(kept) <= Ceiling) = ok BY <2>3
    <3>3. Lim!Called(k, ok) BY <3>1, <3>2
    <3> QED BY <2>4, <3>3 DEF Lim!Called
  <2>7. c \in Logged /\ c.at = instant /\ InOrder(log, instant) /\ InOrder(log', instant') /\ instant \in Nat
    BY <2>4, <2>5, <2>6, LoggedNow
  <2>8. StampsInv(log, stamps, replied) BY <2>5 DEF LimInv
  <2>9. PICK d : d = Lim!Drop OBVIOUS
  <2>10. /\ d \in 0..Len(stamps) /\ \A i \in 1..d : Lim!Old(stamps[i])
         /\ d < Len(stamps) => ~Lim!Old(stamps[d + 1])
    <3> DEFINE P == {x \in Nat : x + Span <= instant}
    <3>1. stamps \in Seq(Nat) BY <2>8 DEF StampsInv
    <3>2. PICK n \in 0..Len(stamps) :
            (\A i \in 1..n : stamps[i] \in P) /\ (n < Len(stamps) => stamps[n + 1] \notin P)
      <4>1. P \subseteq Nat OBVIOUS
      <4> HIDE DEF P
      <4> QED BY <3>1, <4>1, DropStops
    <3>3. /\ \A i \in 1..n : Lim!Old(stamps[i])
          /\ n < Len(stamps) => ~Lim!Old(stamps[n + 1])
      <4>1. n < Len(stamps) => stamps[n + 1] \in Nat BY <3>1
      <4> QED BY <3>2, <4>1 DEF Lim!Old
    <3>4. \E y \in 0..Len(stamps) : (\A i \in 1..y : Lim!Old(stamps[i]))
                                    /\ (y < Len(stamps) => ~Lim!Old(stamps[y + 1]))
      BY <3>3
    <3> QED BY <2>9, <3>4 DEF Lim!Drop
  <2>11. all = Append(SubSeq(stamps, d + 1, Len(stamps)), instant) BY <2>1, <2>9 DEF Lim!Recent
  <2>12. Hits(stamps, instant, d, all, kept) BY <2>2, <2>10, <2>11 DEF Hits, Lim!Old
  <2>13. StampsInv(Append(log, c), kept, Len(kept)) BY <2>7, <2>8, <2>12, StampsStep
  <2>14. StampsInv(log', stamps', replied') BY <2>5, <2>6, <2>13
  <2> QED BY <2>5, <2>7, <2>14 DEF LimInv
<1>4. ASSUME NEW k \in Callers, Lim!Take(k) PROVE LimInv'
  <2>1. PICK base : base = IF takenOn' # takenOn THEN [u \in Callers |-> 0] ELSE taken OBVIOUS
  <2>2. PICK ok \in BOOLEAN : ok <=> base[k] + 1 <= Ceiling OBVIOUS
  <2>3. PICK c : c = [at |-> instant, key |-> k, ok |-> ok] OBVIOUS
  <2>4. /\ limiter = "ledger" /\ limiter' = limiter /\ instant' = instant /\ takenOn' = instant \div Span
        /\ taken' = IF base[k] + 1 > Ceiling THEN base ELSE [base EXCEPT ![k] = @ + 1]
    BY <1>4, <2>1 DEF Lim!Take
  <2>5. log' = Append(log, c) BY <1>4, <2>1, <2>2, <2>3 DEF Lim!Take, Lim!Called
  <2>6. c \in Logged /\ c.at = instant /\ c.key = k /\ (c.ok <=> base[k] + 1 <= Ceiling)
        /\ InOrder(log, instant) /\ InOrder(log', instant')
    BY <2>2, <2>3, <2>4, <2>5, LoggedNow
  <2>7. LedgerInv(log, taken, takenOn) /\ takenOn <= instant \div Span BY <2>4 DEF LimInv
  <2>8. PICK on : on = instant \div Span OBVIOUS
  <2>9. base = IF on # takenOn THEN [u \in Callers |-> 0] ELSE taken BY <2>1, <2>4, <2>8
  <2>10. LedgerInv(Append(log, c), IF base[k] + 1 > Ceiling THEN base ELSE [base EXCEPT ![k] = @ + 1], on)
    BY <2>6, <2>7, <2>8, <2>9, LedgerStep
  <2>11. LedgerInv(log', taken', takenOn') BY <2>4, <2>5, <2>8, <2>10
  <2>12. takenOn' <= instant' \div Span
    <3>1. PICK x \in Nat : x = instant \div Span BY <2>6, LoggedNow, DaysFollow
    <3> QED BY <2>4, <3>1
  <2> QED BY <2>4, <2>6, <2>11, <2>12 DEF LimInv
<1>5. ASSUME NEW k \in Callers, Lim!Bump(k) PROVE LimInv'
  <2>1. PICK m, f : m = bumps' /\ f = endsAt' OBVIOUS
  <2>2. PICK ok \in BOOLEAN : ok <=> m <= Ceiling OBVIOUS
  <2>3. PICK c : c = [at |-> instant, key |-> k, ok |-> ok] OBVIOUS
  <2>4. /\ limiter = "valkey" /\ limiter' = limiter /\ instant' = instant
        /\ (bumps = 0 \/ endsAt <= instant => m = 1 /\ f = instant + Span)
        /\ (~(bumps = 0 \/ endsAt <= instant) => m = bumps + 1 /\ f = endsAt)
    BY <1>5, <2>1 DEF Lim!Bump
  <2>5. log' = Append(log, c) BY <1>5, <2>1, <2>2, <2>3 DEF Lim!Bump, Lim!Called
  <2>6. c \in Logged /\ c.at = instant /\ (c.ok <=> m <= Ceiling)
        /\ InOrder(log, instant) /\ InOrder(log', instant')
    BY <2>2, <2>3, <2>4, <2>5, LoggedNow
  <2>7. WindowInv(log, bumps, endsAt) /\ (bumps > 0 => endsAt <= instant + Span) BY <2>4 DEF LimInv
  <2>8. WindowInv(Append(log, c), m, f) /\ f <= instant + Span
    BY <2>4, <2>6, <2>7, WindowStep
  <2>9. WindowInv(log', bumps', endsAt') /\ (bumps' > 0 => endsAt' <= instant' + Span)
    BY <2>1, <2>4, <2>5, <2>8
  <2> QED BY <2>4, <2>6, <2>9 DEF LimInv
<1>6. CASE UNCHANGED Lim!vars
  <2>1. UNCHANGED <<limiter, instant, filling, filledAt, stamps, taken, takenOn, bumps, endsAt, replied, log>>
    BY <1>6 DEF Lim!vars
  <2> QED BY <2>1 DEF LimInv
<1> QED BY <1>1, <1>2, <1>3, <1>4, <1>5, <1>6 DEF Lim!Next

LEMMA LimInvHolds == ASSUME Lim!CooldownAssumption, LimInv PROVE Lim!LimitsHold
<1>1. /\ log \in Seq(Logged) /\ DOMAIN log = 1..Len(log) /\ Len(log) \in Nat
      /\ \A i \in DOMAIN log : log[i] \in Logged
  BY DEF LimInv, InOrder
<1>2. Ceiling \in Nat /\ Span \in Nat /\ Span > 0 /\ Refill \in Nat /\ Horizon \in Nat BY LimitsAre
<1>3. \A s, e : Cardinality({i \in DOMAIN log : log[i].ok /\ log[i].at \in s..e}) = Number(log, Granted(s, e))
  <2> SUFFICES ASSUME NEW s, NEW e
               PROVE  Cardinality({i \in DOMAIN log : log[i].ok /\ log[i].at \in s..e}) = Number(log, Granted(s, e))
    OBVIOUS
  <2>1. {i \in DOMAIN log : log[i].ok /\ log[i].at \in s..e} = {i \in DOMAIN log : log[i] \in Granted(s, e)}
    BY <1>1 DEF Granted
  <2> QED BY <2>1 DEF Number
<1>4. limiter = "bucket" => \A s, e \in 0..Horizon : s <= e =>
        Cardinality({i \in DOMAIN log : log[i].ok /\ log[i].at \in s..e}) <= Ceiling + (e - s) * Refill
  <2>1. 0..Horizon \subseteq Nat BY <1>2
  <2> QED BY <1>3, <2>1 DEF LimInv, BucketInv
<1>5. limiter = "window" /\ log # <<>> =>
        replied = Lim!Least(4 * Ceiling, Cardinality({i \in DOMAIN log : log[i].at + Span > log[Len(log)].at}))
  <2> SUFFICES ASSUME limiter = "window", log # <<>>
               PROVE  replied = Lim!Least(4 * Ceiling,
                        Cardinality({i \in DOMAIN log : log[i].at + Span > log[Len(log)].at}))
    OBVIOUS
  <2>1. StampsInv(log, stamps, replied) BY DEF LimInv
  <2> DEFINE recent == {i \in DOMAIN log : log[i].at + Span > log[Len(log)].at}
  <2>2. PICK N \in Nat, n \in Nat, cap \in Nat :
          N = Len(log) /\ n = Len(stamps) /\ cap = 4 * Ceiling /\ n <= N /\ n <= cap /\ replied = n
    <3>1. Len(log) \in Nat /\ Len(stamps) \in Nat /\ 4 * Ceiling \in Nat BY <1>1, <1>2, <2>1 DEF StampsInv
    <3>2. Len(stamps) <= Len(log) /\ Len(stamps) <= 4 * Ceiling /\ replied = Len(stamps)
      BY <2>1 DEF StampsInv
    <3> QED BY <3>1, <3>2
  <2>3. ASSUME NEW i \in (N - n + 1)..N PROVE i \in recent
    <3>1. PICK j \in 1..n : i = N - n + j
      <4>1. i - (N - n) \in 1..n /\ i = N - n + (i - (N - n)) BY <2>2
      <4> QED BY <4>1
    <3>2. stamps[j] = log[N - n + j].at /\ stamps[j] + Span > log[N].at BY <2>1, <2>2, <3>1 DEF StampsInv
    <3>3. i \in DOMAIN log BY <1>1, <2>2
    <3> QED BY <2>2, <3>1, <3>2, <3>3
  <2>4. IsFiniteSet(recent) /\ Cardinality(recent) \in Nat
    <3>1. IsFiniteSet(DOMAIN log) BY <1>1, FS_Interval
    <3>2. IsFiniteSet(recent) BY <3>1, FS_Subset
    <3> QED BY <3>2, FS_CardinalityType
  <2>5. Cardinality((N - n + 1)..N) = n
    <3>1. N - n + 1 \in Int /\ N \in Int BY <2>2
    <3>2. Cardinality((N - n + 1)..N) = IF N - n + 1 > N THEN 0 ELSE N - (N - n + 1) + 1
      BY <3>1, FS_Interval
    <3> QED BY <2>2, <3>2
  <2>6. CASE n = cap
    <3>1. (N - n + 1)..N \subseteq recent BY <2>3
    <3> HIDE DEF recent
    <3>2. n <= Cardinality(recent) BY <2>4, <2>5, <3>1, FS_Subset
    <3>3. Lim!Least(cap, Cardinality(recent)) = cap BY <2>2, <2>4, <2>6, <3>2 DEF Lim!Least
    <3> QED BY <2>2, <2>6, <3>3 DEF recent
  <2>7. CASE n # cap
    <3>1. \A i \in 1..(N - n) : log[i].at + Span <= log[N].at BY <2>1, <2>2, <2>7 DEF StampsInv
    <3>2. ASSUME NEW i \in recent PROVE i \in (N - n + 1)..N
      <4>1. i \in 1..N /\ log[i].at + Span > log[N].at BY <1>1, <2>2
      <4>2. log[i].at \in Nat /\ log[N].at \in Nat
        <5>1. i \in DOMAIN log /\ N \in DOMAIN log BY <1>1, <2>2, <4>1
        <5> QED BY <1>1, <5>1 DEF Logged
      <4>3. i \notin 1..(N - n) BY <1>2, <3>1, <4>1, <4>2
      <4> QED BY <2>2, <4>1, <4>3
    <3>3. recent = (N - n + 1)..N BY <2>3, <3>2
    <3> HIDE DEF recent
    <3>4. Cardinality(recent) = n BY <2>5, <3>3
    <3>5. Lim!Least(cap, n) = n BY <2>2 DEF Lim!Least
    <3> QED BY <2>2, <3>4, <3>5 DEF recent
  <2> QED BY <2>6, <2>7
<1>6. limiter = "ledger" => \A k \in Callers, d \in 0..(Horizon \div Span) :
        Cardinality({i \in DOMAIN log : log[i].ok /\ (log[i].key = k /\ log[i].at \div Span = d)}) <= Ceiling
  <2> SUFFICES ASSUME limiter = "ledger", NEW k \in Callers, NEW d \in 0..(Horizon \div Span)
               PROVE  Cardinality({i \in DOMAIN log : log[i].ok /\ (log[i].key = k /\ log[i].at \div Span = d)})
                        <= Ceiling
    OBVIOUS
  <2>1. {i \in DOMAIN log : log[i].ok /\ (log[i].key = k /\ log[i].at \div Span = d)}
        = {i \in DOMAIN log : log[i] \in GrantedOf(k, d)}
    BY <1>1 DEF GrantedOf
  <2>2. d \in Nat BY <1>2, DaysFollow
  <2> QED BY <2>1, <2>2 DEF LimInv, LedgerInv, Number
<1>7. limiter = "valkey" =>
        /\ \A s \in 0..Horizon :
             Cardinality({i \in DOMAIN log : log[i].ok /\ log[i].at \in s..(s + Span - 1)}) <= 2 * Ceiling
        /\ \A i \in DOMAIN log : ~log[i].ok =>
             \E j \in 1..i : log[j].ok /\ log[j].at + Span > log[i].at
  <2>1. 0..Horizon \subseteq Nat BY <1>2
  <2> QED BY <1>3, <2>1 DEF LimInv, WindowInv
<1>8. \A S : Lim!Cardinality(S) = Cardinality(S)
  BY DEF Lim!Cardinality, Cardinality, Lim!IsFiniteSet, IsFiniteSet
<1> QED BY <1>4, <1>5, <1>6, <1>7, <1>8 DEF Lim!LimitsHold, Lim!Granted, Lim!Made

\* For any limits, windows, callers and times: each limiter grants what it promises,
\* told by its calls.
THEOREM LimitsStand ==
  ASSUME Lim!CooldownAssumption PROVE Lim!Spec => []Lim!LimitsHold
<1>1. Lim!Init => LimInv BY LimInvInit
<1>2. LimInv /\ [Lim!Next]_(Lim!vars) => LimInv' BY LimInvNext
<1>3. LimInv => Lim!LimitsHold BY LimInvHolds
<1> QED BY <1>1, <1>2, <1>3, PTL DEF Lim!Spec

=============================================================================
