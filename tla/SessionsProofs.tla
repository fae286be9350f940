--------------------------- MODULE SessionsProofs ---------------------------
(***************************************************************************)
(* Proofs about Sessions for any numbers of tokens, families and requests. *)
(***************************************************************************)
EXTENDS Sessions, TLAPS

(* The inductive invariant.  OneLivePerFamily alone is not inductive: the  *)
(* next token of a family comes from a renewal in progress, so it has to   *)
(* count renewals too, and know that a renewal's token has been spent.     *)
OneRenewalPerFamily ==
  \A r, q \in Requests :
     Renewing(r) /\ Renewing(q) /\ FamilyOf(r) = FamilyOf(q) => r = q

RenewalExcludesLive ==
  \A r \in Requests : Renewing(r) => \A t \in Spendable : family[t] # FamilyOf(r)

\* used_at and revoked_at belong to rows.
MarksHaveRows == used \subseteq Issued /\ revoked \subseteq Issued

\* Past the read, a request holds a token that has a row.
HeldIssued ==
  \A r \in Requests : pc[r] \in {"mark", "kill", "issue"} => tok[r] \in Issued

\* A token being renewed is spent and has no successor yet.
RenewalIsSpent ==
  \A r \in Requests : Renewing(r) => tok[r] \in used /\ \A t \in Tokens : parent[t] # tok[r]

\* Minted tokens have rows, and come from spent ones.
ParentIsSpent ==
  \A t \in Tokens : parent[t] # NoToken => t \in Issued /\ parent[t] \in used

Inv ==
  /\ TypeOK
  /\ MarksHaveRows
  /\ HeldIssued
  /\ RenewalIsSpent
  /\ ParentIsSpent
  /\ OneRenewalPerFamily
  /\ RenewalExcludesLive
  /\ OneLivePerFamily
  /\ SingleUse

-----------------------------------------------------------------------------
(* What moving a request on leaves of the labels and tokens.               *)
LEMMA GotoTypes ==
  ASSUME TypeOK, NEW r \in Requests,
         NEW l \in {"idle", "load", "mark", "kill", "issue"}, Goto(r, l)
  PROVE  /\ pc' \in [Requests -> {"idle", "load", "mark", "kill", "issue"}]
         /\ tok' \in [Requests -> Tokens \cup {NoToken}]
         /\ late' \in [Requests -> BOOLEAN]
         /\ pc'[r] = l
         /\ l # "idle" => tok'[r] = tok[r]
         /\ \A q \in Requests \ {r} : pc'[q] = pc[q] /\ tok'[q] = tok[q]
BY DEF TypeOK, Goto

(* A step that ends requests or moves them among labels other than "issue",*)
(* adds no row and keeps every used or revoked token so, keeps Inv.        *)
LEMMA QuietStep ==
  ASSUME Inv, TypeOK', MarksHaveRows', HeldIssued',
         family' = family, parent' = parent,
         used' = used, revoked \subseteq revoked',
         \A r \in Requests : Renewing(r)' => Renewing(r) /\ tok'[r] = tok[r]
  PROVE  Inv'
<1>1. Spendable' \subseteq Spendable
  BY DEF Spendable, Issued
<1>2. RenewalIsSpent'
  BY DEF Inv, RenewalIsSpent
<1>3. ParentIsSpent'
  BY DEF Inv, ParentIsSpent, Issued
<1>4. OneRenewalPerFamily'
  BY DEF Inv, OneRenewalPerFamily, FamilyOf
<1>5. RenewalExcludesLive'
  BY <1>1 DEF Inv, RenewalExcludesLive, FamilyOf
<1>6. OneLivePerFamily'
  BY <1>1 DEF Inv, OneLivePerFamily
<1>7. SingleUse'
  BY DEF Inv, SingleUse
<1>8. QED
  BY <1>2, <1>3, <1>4, <1>5, <1>6, <1>7 DEF Inv

LEMMA InitInv == Init => Inv
<1> SUFFICES ASSUME Init PROVE Inv
  OBVIOUS
<1>1. TypeOK
  BY DEF Init, TypeOK
<1>2. Issued = {} /\ Spendable = {}
  BY DEF Init, Issued, Spendable
<1>3. \A r \in Requests : pc[r] = "idle"
  BY DEF Init
<1>4. HeldIssued /\ RenewalIsSpent /\ OneRenewalPerFamily /\ RenewalExcludesLive
  BY <1>3 DEF HeldIssued, RenewalIsSpent, OneRenewalPerFamily, RenewalExcludesLive, Renewing
<1>5. ParentIsSpent /\ SingleUse /\ OneLivePerFamily
  BY <1>2 DEF Init, ParentIsSpent, SingleUse, OneLivePerFamily
<1>6. MarksHaveRows
  BY DEF Init, MarksHaveRows
<1>7. QED
  BY <1>1, <1>4, <1>5, <1>6 DEF Inv

LEMMA GrantInv ==
  ASSUME Inv, NEW t \in Tokens, NEW f \in Families, Grant(t, f)
  PROVE  Inv'
<1> USE DEF Grant, reqVars, ghosts
<1>1. TypeOK'
  BY DEF Inv, TypeOK
<1>2. Issued' = Issued \cup {t} /\ \A s \in Issued : family'[s] = family[s]
  BY SentinelsAreNoIds DEF Inv, TypeOK, Issued
<1>3. /\ family'[t] = f
      /\ Spendable' \subseteq Spendable \cup {t}
      /\ \A s \in Tokens : s # t => family'[s] = family[s]
  BY <1>2 DEF Inv, TypeOK, Spendable
<1>4. HeldIssued' /\ RenewalIsSpent' /\ MarksHaveRows'
  BY <1>2 DEF Inv, HeldIssued, RenewalIsSpent, Renewing, MarksHaveRows
<1>5. ParentIsSpent' /\ SingleUse'
  BY <1>2 DEF Inv, ParentIsSpent, SingleUse
<1>6. \A r \in Requests : Renewing(r) => tok[r] \in Issued /\ FamilyOf(r)' = FamilyOf(r) /\ FamilyOf(r) # f
  BY <1>2 DEF Inv, HeldIssued, Renewing, FamilyOf, Issued
<1>7. OneRenewalPerFamily'
  BY <1>6 DEF Inv, OneRenewalPerFamily, Renewing
<1>8. \A s \in Spendable : s # t /\ s \in Tokens
  BY DEF Spendable, Issued
<1>9. RenewalExcludesLive'
  BY <1>3, <1>6, <1>8 DEF Inv, RenewalExcludesLive, Renewing
<1>10. OneLivePerFamily'
  BY <1>3, <1>8 DEF Inv, OneLivePerFamily
<1>11. QED
  BY <1>1, <1>4, <1>5, <1>7, <1>9, <1>10 DEF Inv

LEMMA PresentInv ==
  ASSUME Inv, NEW r \in Requests, NEW t \in Tokens, Present(r, t)
  PROVE  Inv'
<1> USE DEF Present, rowVars, ghosts
<1>1. TypeOK'
  BY DEF Inv, TypeOK
<1>2. HeldIssued' /\ MarksHaveRows'
  BY DEF Inv, TypeOK, HeldIssued, Issued, MarksHaveRows
<1>3. \A q \in Requests : Renewing(q)' => Renewing(q) /\ tok'[q] = tok[q]
  BY DEF Inv, TypeOK, Renewing
<1>4. QED
  BY <1>1, <1>2, <1>3, QuietStep

LEMMA LoadInv ==
  ASSUME Inv, NEW r \in Requests, Load(r)
  PROVE  Inv'
<1> USE DEF Load, rowVars, ghosts
<1>1. AfterLoad(r) \in {"idle", "mark", "kill"} /\ (AfterLoad(r) # "idle" => tok[r] \in Issued)
  BY DEF AfterLoad
<1>2. TypeOK'
  BY <1>1, GotoTypes DEF Inv, TypeOK
<1>3. HeldIssued' /\ MarksHaveRows'
  BY <1>1, GotoTypes DEF Inv, HeldIssued, Issued, MarksHaveRows
<1>4. \A q \in Requests : Renewing(q)' => Renewing(q) /\ tok'[q] = tok[q]
  BY <1>1, GotoTypes DEF Inv, Renewing
<1>5. QED
  BY <1>2, <1>3, <1>4, QuietStep

LEMMA MarkUsedInv ==
  ASSUME Inv, NEW r \in Requests, MarkUsed(r)
  PROVE  Inv'
<1> USE DEF MarkUsed, MarkUsedMatches, ghosts
<1>1. TypeOK'
  BY GotoTypes DEF Inv, TypeOK, Spendable, Issued
<1>2. tok[r] \in Spendable /\ Spendable' = Spendable \ {tok[r]} /\ Issued' = Issued
  BY DEF Inv, TypeOK, Spendable, Issued
<1>3. \A q \in Requests : Renewing(q)' => tok'[q] = tok[q] /\ (q = r \/ Renewing(q))
  BY GotoTypes DEF Inv, Renewing
<1>4. HeldIssued' /\ MarksHaveRows'
  BY <1>2, GotoTypes DEF Inv, HeldIssued, MarksHaveRows, Spendable
<1>5. RenewalIsSpent'
  <2>1. tok[r] # NoToken /\ tok[r] \notin used
    BY <1>2, SentinelsAreNoIds DEF Spendable, Issued
  <2>2. \A t \in Tokens : parent[t] # tok[r]
    BY <2>1 DEF Inv, ParentIsSpent
  <2>3. QED
    BY <1>3, <2>2 DEF Inv, RenewalIsSpent
<1>6. ParentIsSpent' /\ SingleUse'
  BY <1>2 DEF Inv, ParentIsSpent, SingleUse
<1>7. OneRenewalPerFamily'
  BY <1>2, <1>3 DEF Inv, OneRenewalPerFamily, RenewalExcludesLive, FamilyOf
<1>8. RenewalExcludesLive'
  BY <1>2, <1>3 DEF Inv, RenewalExcludesLive, OneLivePerFamily, FamilyOf
<1>9. OneLivePerFamily'
  BY <1>2 DEF Inv, OneLivePerFamily
<1>10. QED
  BY <1>1, <1>4, <1>5, <1>6, <1>7, <1>8, <1>9 DEF Inv

LEMMA MarkNothingInv ==
  ASSUME Inv, NEW r \in Requests, MarkNothing(r)
  PROVE  Inv'
<1> USE DEF MarkNothing, rowVars, ghosts
<1>1. TypeOK'
  BY GotoTypes DEF Inv, TypeOK
<1>2. HeldIssued' /\ MarksHaveRows'
  BY GotoTypes DEF Inv, HeldIssued, Issued, MarksHaveRows
<1>3. \A q \in Requests : Renewing(q)' => Renewing(q) /\ tok'[q] = tok[q]
  BY GotoTypes DEF Inv, Renewing
<1>4. QED
  BY <1>1, <1>2, <1>3, QuietStep

LEMMA RevokeFamilyInv ==
  ASSUME Inv, NEW r \in Requests, RevokeFamily(r)
  PROVE  Inv'
<1> USE DEF RevokeFamily
<1>1. FamilyOf(r) \in Families
  BY DEF Inv, TypeOK, HeldIssued, FamilyOf, Issued
<1>2. TypeOK'
  BY <1>1, GotoTypes DEF Inv, TypeOK, FamilyRows, Issued
<1>3. HeldIssued' /\ MarksHaveRows'
  BY GotoTypes DEF Inv, HeldIssued, Issued, MarksHaveRows, FamilyRows
<1>4. \A q \in Requests : Renewing(q)' => Renewing(q) /\ tok'[q] = tok[q]
  BY GotoTypes DEF Inv, Renewing
<1>5. QED
  BY <1>2, <1>3, <1>4, QuietStep

LEMMA RotateInv ==
  ASSUME Inv, NEW r \in Requests, NEW t \in Tokens, Rotate(r, t)
  PROVE  Inv'
<1> USE DEF Rotate
<1>1. tok[r] \in Issued /\ tok[r] \in Tokens /\ tok[r] # NoToken /\ tok[r] # t /\ tok[r] \in used
  BY SentinelsAreNoIds DEF Inv, HeldIssued, RenewalIsSpent, Renewing, Issued
<1>2. FamilyOf(r) \in Families
  BY <1>1 DEF Inv, TypeOK, FamilyOf, Issued
<1>3. TypeOK'
  BY <1>1, <1>2, GotoTypes DEF Inv, TypeOK
<1>4. Issued' = Issued \cup {t} /\ Spendable' \subseteq Spendable \cup {t}
  BY <1>2, SentinelsAreNoIds DEF Inv, TypeOK, Issued, Spendable
<1>5. /\ family'[t] = FamilyOf(r) /\ parent'[t] = tok[r]
      /\ \A s \in Tokens : s # t => family'[s] = family[s] /\ parent'[s] = parent[s]
  BY DEF Inv, TypeOK
<1>6. \A q \in Requests : Renewing(q)' => Renewing(q) /\ tok'[q] = tok[q] /\ q # r
  BY GotoTypes DEF Inv, Renewing
<1>7. \A q \in Requests : Renewing(q) => tok[q] \in Issued /\ tok[q] \in Tokens /\ tok[q] # t
  BY DEF Inv, HeldIssued, Renewing, Issued
<1>8. \A q \in Requests : Renewing(q)' => FamilyOf(q)' = FamilyOf(q) /\ FamilyOf(q) # FamilyOf(r)
  BY <1>5, <1>6, <1>7 DEF Inv, OneRenewalPerFamily, FamilyOf
<1>9. HeldIssued' /\ MarksHaveRows'
  BY <1>4, GotoTypes DEF Inv, HeldIssued, MarksHaveRows
<1>10. RenewalIsSpent'
  <2>1. \A q \in Requests : Renewing(q)' => tok[q] # tok[r]
    BY <1>6, <1>8 DEF FamilyOf
  <2>2. QED
    BY <1>5, <1>6, <2>1 DEF Inv, RenewalIsSpent
<1>11. ParentIsSpent'
  BY <1>1, <1>4, <1>5 DEF Inv, ParentIsSpent
<1>12. OneRenewalPerFamily'
  BY <1>6, <1>8 DEF Inv, OneRenewalPerFamily
<1>13. \A s \in Spendable : s # t /\ s \in Tokens /\ family[s] # FamilyOf(r)
  BY DEF Inv, RenewalExcludesLive, Spendable, Issued
<1>14. RenewalExcludesLive'
  BY <1>4, <1>5, <1>6, <1>8, <1>13 DEF Inv, RenewalExcludesLive
<1>15. OneLivePerFamily'
  BY <1>4, <1>5, <1>13 DEF Inv, OneLivePerFamily
<1>16. SingleUse'
  <2>1. \A s \in Tokens : parent[s] # tok[r]
    BY DEF Inv, RenewalIsSpent
  <2>2. QED
    BY <1>5, <2>1 DEF Inv, SingleUse
<1>17. QED
  BY <1>3, <1>9, <1>10, <1>11, <1>12, <1>14, <1>15, <1>16 DEF Inv

LEMMA FailInv ==
  ASSUME Inv, NEW r \in Requests, Fail(r)
  PROVE  Inv'
<1> USE DEF Fail, rowVars, ghosts
<1>1. TypeOK'
  BY GotoTypes DEF Inv, TypeOK
<1>2. HeldIssued' /\ MarksHaveRows'
  BY GotoTypes DEF Inv, HeldIssued, Issued, MarksHaveRows
<1>3. \A q \in Requests : Renewing(q)' => Renewing(q) /\ tok'[q] = tok[q]
  BY GotoTypes DEF Inv, Renewing
<1>4. QED
  BY <1>1, <1>2, <1>3, QuietStep

LEMMA RevokeInv ==
  ASSUME Inv, NEW t \in Tokens, Revoke(t)
  PROVE  Inv'
<1> USE DEF Revoke, reqVars, ghosts
<1>1. family[t] \in Families
  BY DEF Inv, TypeOK, Issued
<1>2. TypeOK'
  BY <1>1 DEF Inv, TypeOK
<1>3. HeldIssued' /\ MarksHaveRows'
  BY DEF Inv, HeldIssued, Issued, MarksHaveRows
<1>4. \A q \in Requests : Renewing(q)' => Renewing(q) /\ tok'[q] = tok[q]
  BY DEF Renewing
<1>5. QED
  BY <1>2, <1>3, <1>4, QuietStep

LEMMA ExpireInv ==
  ASSUME Inv, NEW t \in Tokens, Expire(t)
  PROVE  Inv'
<1> USE DEF Expire, reqVars, ghosts
<1>1. TypeOK'
  BY DEF Inv, TypeOK
<1>2. HeldIssued' /\ MarksHaveRows'
  BY DEF Inv, HeldIssued, Issued, MarksHaveRows
<1>3. \A q \in Requests : Renewing(q)' => Renewing(q) /\ tok'[q] = tok[q]
  BY DEF Renewing
<1>4. QED
  BY <1>1, <1>2, <1>3, QuietStep

LEMMA StutterInv == ASSUME Inv, UNCHANGED vars PROVE Inv'
<1>1. /\ UNCHANGED <<family, used, revoked, expired, pc, tok, late>>
      /\ UNCHANGED <<parent, killed>>
  BY DEF vars, rowVars, reqVars, ghosts
<1>2. TypeOK'
  BY <1>1 DEF Inv, TypeOK
<1>3. HeldIssued' /\ MarksHaveRows'
  BY <1>1 DEF Inv, HeldIssued, Issued, MarksHaveRows
<1>4. \A q \in Requests : Renewing(q)' => Renewing(q) /\ tok'[q] = tok[q]
  BY <1>1 DEF Renewing
<1>5. QED
  BY <1>1, <1>2, <1>3, <1>4, QuietStep

LEMMA StepInv == Inv /\ [Next]_vars => Inv'
<1> SUFFICES ASSUME Inv, [Next]_vars PROVE Inv'
  OBVIOUS
<1>1. ASSUME NEW t \in Tokens, NEW f \in Families, Grant(t, f) PROVE Inv'
  BY <1>1, GrantInv
<1>2. ASSUME NEW r \in Requests, NEW t \in Tokens, Present(r, t) \/ Rotate(r, t) PROVE Inv'
  BY <1>2, PresentInv, RotateInv
<1>3. ASSUME NEW r \in Requests,
             Load(r) \/ MarkUsed(r) \/ MarkNothing(r) \/ RevokeFamily(r) \/ Fail(r)
      PROVE  Inv'
  BY <1>3, LoadInv, MarkUsedInv, MarkNothingInv, RevokeFamilyInv, FailInv
<1>4. ASSUME NEW t \in Tokens, Revoke(t) \/ Expire(t) PROVE Inv'
  BY <1>4, RevokeInv, ExpireInv
<1>5. CASE UNCHANGED vars
  BY <1>5, StutterInv
<1>6. QED
  BY <1>1, <1>2, <1>3, <1>4, <1>5 DEF Next

(* Inv holds in every reachable state.                                     *)
THEOREM Invariance == Spec => []Inv
BY InitInv, StepInv, PTL DEF Spec

(* Every variable of the model keeps its type.                             *)
THEOREM TypeCorrect == Spec => []TypeOK
<1>1. Inv => TypeOK
  BY DEF Inv
<1>2. QED
  BY <1>1, Invariance, PTL

(* However many requests race, a family never has two spendable tokens.    *)
THEOREM OneLive == Spec => []OneLivePerFamily
<1>1. Inv => OneLivePerFamily
  BY DEF Inv
<1>2. QED
  BY <1>1, Invariance, PTL

(* No token's redemption is answered with two successors.                  *)
THEOREM RedeemedOnce == Spec => []SingleUse
<1>1. Inv => SingleUse
  BY DEF Inv
<1>2. QED
  BY <1>1, Invariance, PTL

(* A revoked token is never spent later, whatever a request had read.      *)
THEOREM RevokedStaysUnspent == Spec => RevokedNeverSpent
<1>1. ASSUME Inv, [Next]_vars PROVE [\A t \in revoked : t \in used' => t \in used]_vars
  <2>1. ASSUME NEW r \in Requests, MarkUsed(r) PROVE \A t \in revoked : t \in used' => t \in used
    BY <2>1 DEF MarkUsed, MarkUsedMatches, Spendable
  <2>2. CASE UNCHANGED vars
    BY <2>2
  <2>3. CASE used' = used
    BY <2>3
  <2>4. QED
    BY <1>1, <2>1, <2>2, <2>3
       DEF Next, Grant, Present, Rotate, Load, MarkNothing, RevokeFamily, Fail, Revoke, Expire, rowVars
<1>2. QED
  BY <1>1, Invariance, PTL DEF Spec, RevokedNeverSpent

-----------------------------------------------------------------------------
(* The refinement.  Of one family, its status says:                        *)
Mapped == [f \in Families |-> FamilyStatus(f)]

LEMMA StatusCases ==
  ASSUME Inv, NEW f \in Families
  PROVE  /\ FamilyStatus(f) = "unborn" <=> \A t \in Tokens : family[t] # f
         /\ FamilyStatus(f) = "renewing" <=> \E r \in Requests : Renewing(r) /\ FamilyOf(r) = f
         /\ FamilyStatus(f) = "live" <=> \E t \in Spendable : family[t] = f
         /\ FamilyStatus(f) \in {"unborn", "renewing", "live", "dead"}
<1>1. ASSUME NEW r \in Requests, Renewing(r), FamilyOf(r) = f
      PROVE  /\ \E t \in Tokens : family[t] = f
             /\ \A t \in Spendable : family[t] # f
  BY <1>1 DEF Inv, HeldIssued, RenewalExcludesLive, Renewing, FamilyOf, Issued
<1>2. Spendable \subseteq Tokens
  BY DEF Spendable, Issued
<1>3. QED
  BY <1>1, <1>2 DEF FamilyStatus

(* A step that disturbs one family only is a step of the chain if the      *)
(* status of that family takes one of its moves.                           *)
LEMMA OneFamilyMoves ==
  ASSUME NEW f \in Families,
         \A g \in Families \ {f} : FamilyStatus(g)' = FamilyStatus(g),
         \/ FamilyStatus(f)' = FamilyStatus(f)
         \/ FamilyStatus(f) = "unborn" /\ FamilyStatus(f)' = "live"
         \/ FamilyStatus(f) = "live" /\ FamilyStatus(f)' \in {"renewing", "dead"}
         \/ FamilyStatus(f) = "renewing" /\ FamilyStatus(f)' \in {"live", "dead"}
  PROVE  [Chain!Next]_Mapped
<1>1. CASE FamilyStatus(f)' = FamilyStatus(f)
  <2>1. Mapped' = Mapped
    BY <1>1 DEF Mapped
  <2>2. QED
    BY <2>1
<1>2. CASE FamilyStatus(f)' # FamilyStatus(f)
  <2>1. Mapped' = [Mapped EXCEPT ![f] = FamilyStatus(f)'] /\ Mapped[f] = FamilyStatus(f)
    BY DEF Mapped
  <2>2. Chain!Open(f) \/ Chain!Spend(f) \/ Chain!Renew(f) \/ Chain!End(f)
    BY <1>2, <2>1 DEF Chain!Open, Chain!Spend, Chain!Renew, Chain!End, Chain!Move, Mapped
  <2>3. QED
    BY <2>2 DEF Chain!Next
<1>3. QED
  BY <1>1, <1>2

\* The three facts the status of g is computed from.
HasRow(g)      == \E t \in Tokens : family[t] = g
HasSpendable(g) == \E t \in Spendable : family[t] = g
HasRenewal(g)  == \E r \in Requests : Renewing(r) /\ FamilyOf(r) = g

LEMMA SameStatus ==
  ASSUME NEW g \in Families,
         HasRow(g)' = HasRow(g), HasSpendable(g)' = HasSpendable(g), HasRenewal(g)' = HasRenewal(g)
  PROVE  FamilyStatus(g)' = FamilyStatus(g)
BY DEF FamilyStatus, HasRow, HasSpendable, HasRenewal

(* A request that neither was nor becomes a renewal moves no family.       *)
LEMMA RequestMoves ==
  ASSUME Inv, NEW r \in Requests, UNCHANGED rowVars,
         ~ Renewing(r), ~ Renewing(r)',
         \A q \in Requests \ {r} : pc'[q] = pc[q] /\ tok'[q] = tok[q]
  PROVE  [Chain!Next]_Mapped
<1>1. \A g \in Families : FamilyStatus(g)' = FamilyStatus(g)
  <2> TAKE g \in Families
  <2>1. HasRow(g)' = HasRow(g) /\ HasSpendable(g)' = HasSpendable(g)
    BY DEF HasRow, HasSpendable, Spendable, Issued, rowVars
  <2>2. HasRenewal(g)' = HasRenewal(g)
    BY DEF HasRenewal, Renewing, FamilyOf, rowVars
  <2>3. QED
    BY <2>1, <2>2, SameStatus
<1>2. Mapped' = Mapped
  BY <1>1 DEF Mapped
<1>3. QED
  BY <1>2

LEMMA GrantMoves ==
  ASSUME Inv, NEW t \in Tokens, NEW f \in Families, Grant(t, f)
  PROVE  [Chain!Next]_Mapped
<1> USE DEF Grant, reqVars, ghosts
<1>1. Inv'
  BY GrantInv
<1>2. /\ family'[t] = f /\ family[t] = NoFamily /\ f # NoFamily
      /\ \A s \in Tokens : s # t => family'[s] = family[s]
      /\ Issued' = Issued \cup {t}
  BY SentinelsAreNoIds DEF Inv, TypeOK, Issued
<1>3. ASSUME NEW g \in Families \ {f} PROVE FamilyStatus(g)' = FamilyStatus(g)
  <2>1. HasRow(g)' = HasRow(g)
    BY <1>2, SentinelsAreNoIds DEF HasRow
  <2>2. HasSpendable(g)' = HasSpendable(g)
    BY <1>2, SentinelsAreNoIds DEF HasSpendable, Spendable, Issued
  <2>3. HasRenewal(g)' = HasRenewal(g)
    BY <1>2 DEF HasRenewal, Renewing, FamilyOf, Inv, HeldIssued, Issued
  <2>4. QED
    BY <2>1, <2>2, <2>3, SameStatus
<1>4. FamilyStatus(f) = "unborn"
  BY DEF FamilyStatus
<1>5. t \in Spendable'
  BY <1>1, <1>2 DEF Inv, MarksHaveRows, Spendable
<1>6. \A r \in Requests : ~ (Renewing(r)' /\ FamilyOf(r)' = f)
  BY <1>1, <1>2, <1>5 DEF Inv, RenewalExcludesLive
<1>7. FamilyStatus(f)' = "live"
  BY <1>2, <1>5, <1>6 DEF FamilyStatus
<1>8. QED
  BY <1>3, <1>4, <1>7, OneFamilyMoves

LEMMA MarkUsedMoves ==
  ASSUME Inv, NEW r \in Requests, MarkUsed(r)
  PROVE  [Chain!Next]_Mapped
<1> USE DEF MarkUsed, MarkUsedMatches, ghosts
<1>0. PICK f \in Families : f = FamilyOf(r)
  BY DEF Inv, TypeOK, Spendable, Issued, FamilyOf
<1>1. /\ tok[r] \in Spendable /\ tok[r] \in Tokens
      /\ f = family[tok[r]]
      /\ Spendable' = Spendable \ {tok[r]}
  BY <1>0 DEF Inv, TypeOK, Spendable, Issued, FamilyOf
<1>2. Renewing(r)' /\ ~ Renewing(r) /\ tok'[r] = tok[r]
  BY GotoTypes DEF Inv, Renewing
<1>3. \A q \in Requests \ {r} : pc'[q] = pc[q] /\ tok'[q] = tok[q]
  BY GotoTypes DEF Inv
<1>4. ASSUME NEW g \in Families \ {f} PROVE FamilyStatus(g)' = FamilyStatus(g)
  <2>1. HasRow(g)' = HasRow(g)
    BY DEF HasRow
  <2>2. HasSpendable(g)' = HasSpendable(g)
    BY <1>1 DEF HasSpendable
  <2>3. HasRenewal(g)' = HasRenewal(g)
    BY <1>1, <1>2, <1>3 DEF HasRenewal, Renewing, FamilyOf
  <2>4. QED
    BY <2>1, <2>2, <2>3, SameStatus
<1>5. FamilyStatus(f) = "live"
  BY <1>1, StatusCases
<1>6. FamilyStatus(f)' = "renewing"
  BY <1>1, <1>2 DEF FamilyStatus, FamilyOf
<1>7. QED
  BY <1>1, <1>4, <1>5, <1>6, OneFamilyMoves

LEMMA RotateMoves ==
  ASSUME Inv, NEW r \in Requests, NEW t \in Tokens, Rotate(r, t)
  PROVE  [Chain!Next]_Mapped
<1> USE DEF Rotate
<1>0. PICK f \in Families : f = FamilyOf(r)
  BY DEF Inv, TypeOK, HeldIssued, Renewing, Issued, FamilyOf
<1>1. Inv'
  BY RotateInv
<1>2. /\ tok[r] \in Tokens /\ tok[r] # t /\ f = family[tok[r]] /\ f # NoFamily
      /\ family'[t] = f /\ family[t] = NoFamily
      /\ \A s \in Tokens : s # t => family'[s] = family[s]
      /\ t \in Spendable'
  BY <1>0, SentinelsAreNoIds
     DEF Inv, TypeOK, HeldIssued, Renewing, MarksHaveRows, Issued, Spendable, FamilyOf
<1>3. ~ Renewing(r)' /\ \A q \in Requests \ {r} : pc'[q] = pc[q] /\ tok'[q] = tok[q]
  BY GotoTypes DEF Inv, Renewing
<1>4. ASSUME NEW g \in Families \ {f} PROVE FamilyStatus(g)' = FamilyStatus(g)
  <2>1. HasRow(g)' = HasRow(g)
    BY <1>2, SentinelsAreNoIds DEF HasRow
  <2>2. HasSpendable(g)' = HasSpendable(g)
    BY <1>2, SentinelsAreNoIds DEF HasSpendable, Spendable, Issued
  <2>3. HasRenewal(g)' = HasRenewal(g)
    BY <1>2, <1>3 DEF HasRenewal, Renewing, FamilyOf, Inv, HeldIssued, Issued
  <2>4. QED
    BY <2>1, <2>2, <2>3, SameStatus
<1>5. FamilyStatus(f) = "renewing"
  BY <1>2 DEF FamilyStatus, FamilyOf
<1>6. \A q \in Requests : ~ (Renewing(q)' /\ FamilyOf(q)' = f)
  BY <1>1, <1>2 DEF Inv, RenewalExcludesLive
<1>7. FamilyStatus(f)' = "live"
  BY <1>2, <1>6 DEF FamilyStatus
<1>8. QED
  BY <1>2, <1>4, <1>5, <1>7, OneFamilyMoves

(* A request that gives its renewal up ends its family.                    *)
LEMMA FailMoves ==
  ASSUME Inv, NEW r \in Requests, Fail(r)
  PROVE  [Chain!Next]_Mapped
<1> USE DEF Fail, ghosts
<1>1. /\ ~ Renewing(r)'
      /\ \A q \in Requests \ {r} : pc'[q] = pc[q] /\ tok'[q] = tok[q]
  BY GotoTypes DEF Inv, Renewing
<1>2. CASE ~ Renewing(r)
  BY <1>1, <1>2, RequestMoves
<1>3. CASE Renewing(r)
  <2>1. PICK f \in Families : f = FamilyOf(r)
    BY <1>3 DEF Inv, TypeOK, HeldIssued, Renewing, Issued, FamilyOf
  <2>2. Spendable' = Spendable /\ Issued' = Issued /\ family' = family
    BY DEF Spendable, Issued, rowVars
  <2>3. ASSUME NEW g \in Families \ {f} PROVE FamilyStatus(g)' = FamilyStatus(g)
    <3>1. HasRow(g)' = HasRow(g) /\ HasSpendable(g)' = HasSpendable(g)
      BY <2>2 DEF HasRow, HasSpendable
    <3>2. HasRenewal(g)' = HasRenewal(g)
      BY <1>1, <2>1, <2>2 DEF HasRenewal, Renewing, FamilyOf
    <3>3. QED
      BY <3>1, <3>2, SameStatus
  <2>4. FamilyStatus(f) = "renewing"
    BY <1>3, <2>1, StatusCases
  <2>5. \A q \in Requests : ~ (Renewing(q)' /\ FamilyOf(q)' = f)
    BY <1>1, <1>3, <2>1, <2>2 DEF Inv, OneRenewalPerFamily, Renewing, FamilyOf
  <2>6. /\ \A t \in Spendable : family[t] # f
        /\ \E t \in Tokens : family[t] = f
    BY <1>3, <2>1 DEF Inv, RenewalExcludesLive, HeldIssued, Renewing, Issued, FamilyOf
  <2>7. FamilyStatus(f)' = "dead"
    BY <2>2, <2>5, <2>6 DEF FamilyStatus
  <2>8. QED
    BY <2>1, <2>3, <2>4, <2>7, OneFamilyMoves
<1>4. QED
  BY <1>2, <1>3

(* Revoking rows of one family, with no renewal of any family touched.     *)
LEMMA RevocationMoves ==
  ASSUME Inv, NEW f \in Families, family' = family, used' = used,
         revoked \subseteq revoked',
         \A t \in revoked' : t \in revoked \/ family[t] = f,
         \A r \in Requests : Renewing(r)' = Renewing(r),
         \A r \in Requests : Renewing(r) => tok'[r] = tok[r],
         HasRow(f)
  PROVE  [Chain!Next]_Mapped
<1>1. \A g \in Families : HasRenewal(g)' = HasRenewal(g) /\ HasRow(g)' = HasRow(g)
  BY DEF HasRenewal, HasRow, FamilyOf
<1>2. Spendable' \subseteq Spendable /\ \A t \in Spendable : family[t] # f => t \in Spendable'
  BY DEF Spendable, Issued
<1>3. ASSUME NEW g \in Families \ {f} PROVE FamilyStatus(g)' = FamilyStatus(g)
  BY <1>1, <1>2, SameStatus DEF HasSpendable
<1>4. CASE HasSpendable(f)' = HasSpendable(f)
  BY <1>1, <1>3, <1>4, SameStatus, OneFamilyMoves
<1>5. CASE HasSpendable(f) /\ ~ HasSpendable(f)'
  <2>1. FamilyStatus(f) = "live"
    BY <1>5, StatusCases DEF HasSpendable
  <2>2. ~ HasRenewal(f)
    BY <1>5 DEF Inv, RenewalExcludesLive, HasRenewal, HasSpendable
  <2>3. FamilyStatus(f)' = "dead"
    BY <1>1, <1>5, <2>2 DEF FamilyStatus, HasSpendable, HasRenewal, HasRow
  <2>4. QED
    BY <1>3, <2>1, <2>3, OneFamilyMoves
<1>6. QED
  BY <1>2, <1>4, <1>5 DEF HasSpendable

LEMMA StepMoves == Inv /\ [Next]_vars => [Chain!Next]_Mapped
<1> SUFFICES ASSUME Inv, [Next]_vars PROVE [Chain!Next]_Mapped
  OBVIOUS
<1>1. ASSUME NEW t \in Tokens, NEW f \in Families, Grant(t, f) PROVE [Chain!Next]_Mapped
  BY <1>1, GrantMoves
<1>2. ASSUME NEW r \in Requests, NEW t \in Tokens, Present(r, t) PROVE [Chain!Next]_Mapped
  BY <1>2, RequestMoves DEF Present, Inv, TypeOK, Renewing
<1>3. ASSUME NEW r \in Requests, NEW t \in Tokens, Rotate(r, t) PROVE [Chain!Next]_Mapped
  BY <1>3, RotateMoves
<1>4. ASSUME NEW r \in Requests, Load(r) PROVE [Chain!Next]_Mapped
  <2>1. AfterLoad(r) \in {"idle", "mark", "kill"}
    BY DEF AfterLoad
  <2>2. QED
    BY <1>4, <2>1, GotoTypes, RequestMoves DEF Load, Inv, Renewing
<1>5. ASSUME NEW r \in Requests, MarkUsed(r) PROVE [Chain!Next]_Mapped
  BY <1>5, MarkUsedMoves
<1>6. ASSUME NEW r \in Requests, MarkNothing(r) PROVE [Chain!Next]_Mapped
  BY <1>6, GotoTypes, RequestMoves DEF MarkNothing, Inv, Renewing
<1>7. ASSUME NEW r \in Requests, RevokeFamily(r) PROVE [Chain!Next]_Mapped
  <2>1. FamilyOf(r) \in Families /\ HasRow(FamilyOf(r))
    BY <1>7 DEF RevokeFamily, Inv, TypeOK, HeldIssued, FamilyOf, Issued, HasRow
  <2>2. \A q \in Requests : Renewing(q)' = Renewing(q) /\ (Renewing(q) => tok'[q] = tok[q])
    BY <1>7, GotoTypes DEF RevokeFamily, Inv, Renewing
  <2>3. QED
    BY <1>7, <2>1, <2>2, RevocationMoves DEF RevokeFamily, FamilyRows
<1>8. ASSUME NEW r \in Requests, Fail(r) PROVE [Chain!Next]_Mapped
  BY <1>8, FailMoves
<1>9. ASSUME NEW t \in Tokens, Revoke(t) PROVE [Chain!Next]_Mapped
  <2>1. family[t] \in Families /\ HasRow(family[t])
    BY <1>9 DEF Revoke, Inv, TypeOK, Issued, HasRow
  <2>2. QED
    BY <1>9, <2>1, RevocationMoves DEF Revoke, reqVars, Renewing
<1>10. ASSUME NEW t \in Tokens, Expire(t) PROVE [Chain!Next]_Mapped
  <2>1. Mapped' = Mapped
    BY <1>10 DEF Expire, reqVars, Mapped, FamilyStatus, Spendable, Issued, Renewing, FamilyOf
  <2>2. QED
    BY <2>1
<1>11. CASE UNCHANGED vars
  <2>1. Mapped' = Mapped
    BY <1>11 DEF vars, rowVars, reqVars, Mapped, FamilyStatus, Spendable, Issued, Renewing, FamilyOf
  <2>2. QED
    BY <2>1
<1>12. QED
  BY <1>1, <1>2, <1>3, <1>4, <1>5, <1>6, <1>7, <1>8, <1>9, <1>10, <1>11 DEF Next

(* The rows, predicates and racing requests of Sessions implement the      *)
(* one-line life of a session that SessionChain states.                    *)
THEOREM Refinement == Spec => ImplementsChain
<1>1. Init => Chain!Init
  <2>1. ASSUME Init, NEW f \in Families PROVE FamilyStatus(f) = "unborn"
    BY <2>1, SentinelsAreNoIds DEF Init, FamilyStatus
  <2>2. QED
    BY <2>1 DEF Chain!Init
<1>2. Inv /\ [Next]_vars => [Chain!Next]_Mapped
  BY StepMoves
<1>3. QED
  BY <1>1, <1>2, Invariance, PTL DEF Spec, ImplementsChain, Chain!Spec, Mapped

(* A session that is over stays over: in the chain, dead is final.         *)
THEOREM EndedStaysEnded == Spec => EndedForGood
<1> DEFINE DeadIsEnded == \A f \in Families : Ended(f) <=> FamilyStatus(f) = "dead"
<1>1. Inv => DeadIsEnded
  BY StatusCases DEF Ended, FamilyStatus
<1>2. (Inv => DeadIsEnded)'
  BY <1>1, PTL
<1>3. ASSUME Inv, Inv', [Next]_vars PROVE [\A f \in Families : Ended(f) => Ended(f)']_vars
  <2>1. [Chain!Next]_Mapped
    BY <1>3, StepMoves
  <2>2. ASSUME NEW f \in Families, FamilyStatus(f) = "dead" PROVE FamilyStatus(f)' = "dead"
    BY <2>1, <2>2 DEF Mapped, Chain!Next, Chain!Open, Chain!Spend, Chain!Renew, Chain!End, Chain!Move
  <2>3. QED
    BY <1>1, <1>2, <1>3, <2>2
<1>4. QED
  BY <1>3, Invariance, PTL DEF Spec, EndedForGood

=============================================================================
