------------------------------ MODULE Sessions ------------------------------
(***************************************************************************)
(* Refresh tokens of the Mini App API: cb_api/sessions.py and the refresh, *)
(* grant and revoke endpoints of cb_api/routers/oauth.py that call it.     *)
(*                                                                         *)
(* Each database statement is one atomic step; everything between two      *)
(* statements of a request interleaves with the other requests.  A row of  *)
(* refresh_tokens is spread over family, used, revoked and expired.  Time  *)
(* is only what it does to a row: Expire(t) is the clock reaching          *)
(* expires_at of t.                                                        *)
(***************************************************************************)
EXTENDS FiniteSets

CONSTANTS
  Tokens,     \* refresh tokens that can be minted (the row's token_hash)
  Families,   \* family_id values
  Requests,   \* requests being served at once, over all API replicas
  NoToken, NoFamily

ASSUME SentinelsAreNoIds == NoToken \notin Tokens /\ NoFamily \notin Families

VARIABLES
  family,     \* family[t]: family_id of the row of t, NoFamily while there is no row
  used,       \* tokens whose used_at is set
  revoked,    \* tokens whose revoked_at is set
  expired,    \* tokens past their expires_at
  pc,         \* where each request to /oauth2/token (refresh grant) is
  tok,        \* the token that request presented
  late,       \* had that token expired when `reference = now` was read
  parent,     \* ghost: the token whose redemption minted t
  killed      \* ghost: families some replay has revoked

rowVars == <<family, used, revoked, expired>>
reqVars == <<pc, tok, late>>
ghosts  == <<parent, killed>>
vars    == <<rowVars, reqVars, ghosts>>

-----------------------------------------------------------------------------
Issued == {t \in Tokens : family[t] # NoFamily}

\* Rows the MARK_USED predicate would still accept.
Spendable == {t \in Issued : t \notin used /\ t \notin revoked}

\* Session.is_live: spendable and not past its expiry.
Live == {t \in Spendable : t \notin expired}

FamilyOf(r) == family[tok[r]]

\* A request that has spent its token and not yet issued the successor.
Renewing(r) == pc[r] = "issue"

TypeOK ==
  /\ family \in [Tokens -> Families \cup {NoFamily}]
  /\ used \subseteq Tokens
  /\ revoked \subseteq Tokens
  /\ expired \subseteq Tokens
  /\ pc \in [Requests -> {"idle", "load", "mark", "kill", "issue"}]
  /\ tok \in [Requests -> Tokens \cup {NoToken}]
  /\ late \in [Requests -> BOOLEAN]
  /\ parent \in [Tokens -> Tokens \cup {NoToken}]
  /\ killed \subseteq Families

Init ==
  /\ family = [t \in Tokens |-> NoFamily]
  /\ used = {}
  /\ revoked = {}
  /\ expired = {}
  /\ pc = [r \in Requests |-> "idle"]
  /\ tok = [r \in Requests |-> NoToken]
  /\ late = [r \in Requests |-> FALSE]
  /\ parent = [t \in Tokens |-> NoToken]
  /\ killed = {}

(* Request r moves on to label l; at "idle" it has been answered and the   *)
(* slot forgets the token it held.                                         *)
Goto(r, l) ==
  /\ pc' = [pc EXCEPT ![r] = l]
  /\ tok' = [tok EXCEPT ![r] = IF l = "idle" THEN NoToken ELSE @]
  /\ late' = [late EXCEPT ![r] = IF l = "idle" THEN FALSE ELSE @]

-----------------------------------------------------------------------------
(* The grant that opens a session: a new row in a new family.              *)
Grant(t, f) ==
  /\ t \notin Issued
  /\ \A s \in Tokens : family[s] # f
  /\ family' = [family EXCEPT ![t] = f]
  /\ UNCHANGED <<used, revoked, expired, reqVars, ghosts>>

(* A refresh request arrives; redeem() reads the clock before it awaits.   *)
Present(r, t) ==
  /\ pc[r] = "idle"
  /\ pc' = [pc EXCEPT ![r] = "load"]
  /\ tok' = [tok EXCEPT ![r] = t]
  /\ late' = [late EXCEPT ![r] = t \in expired]
  /\ UNCHANGED <<rowVars, ghosts>>

(* A redeem() that skips `if session is None`.                             *)
AfterLoad_NoRowCheck(r) ==
  IF tok[r] \in used THEN "kill"
  ELSE IF tok[r] \in revoked \/ late[r] THEN "idle"
  ELSE "mark"

(* Where redeem() goes with the row it loaded.                             *)
AfterLoad(r) ==
  IF tok[r] \notin Issued THEN "idle"
  ELSE IF tok[r] \in used THEN "kill"
  ELSE IF tok[r] \in revoked \/ late[r] THEN "idle"
  ELSE "mark"

Load(r) ==
  /\ pc[r] = "load"
  /\ Goto(r, AfterLoad(r))
  /\ UNCHANGED <<rowVars, ghosts>>

(* The UPDATE without its `used_at IS NULL`, then its `revoked_at IS NULL`. *)
MarkUsedMatches_UsedToo(t) == t \in Issued /\ t \notin revoked
MarkUsedMatches_RevokedToo(t) == t \in Issued /\ t \notin used

(* The rows the UPDATE of _MARK_USED touches.                              *)
MarkUsedMatches(t) == t \in Spendable

(* One request's UPDATE reports a row and goes on to issue the successor.  *)
MarkUsed(r) ==
  /\ pc[r] = "mark"
  /\ MarkUsedMatches(tok[r])
  /\ used' = used \cup {tok[r]}
  /\ Goto(r, "issue")
  /\ UNCHANGED <<family, revoked, expired, ghosts>>

(* A redeem() that never looks at the UPDATE's row count.                  *)
MarkNothing_Proceeds(r) ==
  /\ pc[r] = "mark"
  /\ ~ MarkUsedMatches(tok[r])
  /\ Goto(r, "issue")
  /\ UNCHANGED <<rowVars, ghosts>>

(* Any other's reports none: somebody rotated or revoked it since the read.*)
MarkNothing(r) ==
  /\ pc[r] = "mark"
  /\ ~ MarkUsedMatches(tok[r])
  /\ Goto(r, "kill")
  /\ UNCHANGED <<rowVars, ghosts>>

(* The rows the UPDATE of _REVOKE_FAMILY touches.                          *)
FamilyRows(f) == {t \in Issued : family[t] = f}

RevokeFamily(r) ==
  /\ pc[r] = "kill"
  /\ revoked' = revoked \cup FamilyRows(FamilyOf(r))
  /\ killed' = killed \cup {FamilyOf(r)}
  /\ Goto(r, "idle")
  /\ UNCHANGED <<family, used, expired, parent>>

(* _refresh, once redeem() returned a session: the successor's row.        *)
Rotate(r, t) ==
  /\ Renewing(r)
  /\ t \notin Issued
  /\ family' = [family EXCEPT ![t] = FamilyOf(r)]
  /\ parent' = [parent EXCEPT ![t] = tok[r]]
  /\ Goto(r, "idle")
  /\ UNCHANGED <<used, revoked, expired, killed>>

(* A statement raises, or the replica dies: the request ends where it is.  *)
Fail(r) ==
  /\ pc[r] # "idle"
  /\ Goto(r, "idle")
  /\ UNCHANGED <<rowVars, ghosts>>

(* POST /oauth2/revoke: one statement, on whatever token was presented.    *)
Revoke(t) ==
  /\ t \in Issued
  /\ revoked' = revoked \cup {t}
  /\ UNCHANGED <<family, used, expired, reqVars, ghosts>>

(* The clock reaches expires_at of t.                                      *)
Expire(t) ==
  /\ t \in Issued
  /\ expired' = expired \cup {t}
  /\ UNCHANGED <<family, used, revoked, reqVars, ghosts>>

Next ==
  \/ \E t \in Tokens, f \in Families : Grant(t, f)
  \/ \E r \in Requests, t \in Tokens : Present(r, t) \/ Rotate(r, t)
  \/ \E r \in Requests : Load(r) \/ MarkUsed(r) \/ MarkNothing(r)
                         \/ RevokeFamily(r) \/ Fail(r)
  \/ \E t \in Tokens : Revoke(t) \/ Expire(t)

Spec == Init /\ [][Next]_vars

-----------------------------------------------------------------------------
(* "A client that keeps working keeps exactly one live token"              *)
(* (cb_api/sessions.py:10-11): however refreshes, replays, revocations and *)
(* failures interleave, a family never holds two spendable tokens.         *)
OneLivePerFamily ==
  \A s, t \in Spendable : family[s] = family[t] => s = t

(* "Spend a refresh token exactly once" (redeem's docstring): no two       *)
(* tokens are ever minted from the redemption of the same one, although    *)
(* any number of requests may have read it unused.                         *)
SingleUse ==
  \A s, t \in Tokens : parent[s] = parent[t] /\ parent[s] # NoToken => s = t

(* A family with nothing spendable and no renewal in progress.             *)
Ended(f) ==
  /\ \E t \in Tokens : family[t] = f
  /\ \A t \in Spendable : family[t] # f
  /\ \A r \in Requests : ~ (Renewing(r) /\ FamilyOf(r) = f)

(* A session that is over stays over: no replay, late UPDATE or request    *)
(* holding an old row brings a token of that family back.                  *)
EndedForGood == [][\A f \in Families : Ended(f) => Ended(f)']_vars

(* A token that was revoked is never spent afterwards, even by a request   *)
(* that had read the row before the revocation.                            *)
RevokedNeverSpent ==
  [][\A t \in revoked : t \in used' => t \in used]_vars

(* "A replayed token kills its family" (cb_api/sessions.py:13-17): once a  *)
(* replay has revoked a family, none of its tokens is live again.  The     *)
(* request that won the race still issues its successor afterwards.        *)
ReplayKillsFamily ==
  \A f \in killed : \A t \in Live : family[t] # f

(* The abstract session each family implements.                            *)
FamilyStatus(f) ==
  IF \A t \in Tokens : family[t] # f THEN "unborn"
  ELSE IF \E r \in Requests : Renewing(r) /\ FamilyOf(r) = f THEN "renewing"
  ELSE IF \E t \in Spendable : family[t] = f THEN "live"
  ELSE "dead"

Chain == INSTANCE SessionChain
           WITH status <- [f \in Families |-> FamilyStatus(f)]

(* Every step of the rows and requests is a step of SessionChain, or none. *)
ImplementsChain == Chain!Spec

=============================================================================
