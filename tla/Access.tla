------------------------------- MODULE Access -------------------------------
(* Who may do what over HTTP: the tokens of cb_api/routers/login.py and       *)
(* oauth.py, the checks of cb_api/security.py, and the tenant's owners as     *)
(* each API process caches them (cb_core/tenancy.py).                        *)
(*                                                                           *)
(* A signature is not modelled: a token is the record of its claims, and      *)
(* that its key is still published is the subject of SigningKeys. A refresh   *)
(* is one step, its races being the subject of Sessions.                     *)
EXTENDS Integers, FiniteSets

CONSTANTS
  Users, Groups, Apis,
  Unknown,      \* a chat id this deployment has no row of
  OwnerId,      \* CB_OWNER_ID, or somebody not in Users when it is not set
  FirstOwners,  \* tenants.owner_ids at first
  Scopes,       \* CB_MINIAPP_SCOPES
  AdminScopes,  \* CB_MINIAPP_ADMIN_SCOPES
  DataAge,      \* CB_MINIAPP_INIT_DATA_MAX_AGE_SECONDS
  LoginAge,     \* CB_WEBHUB_AUTH_MAX_AGE_SECONDS, 0 for no window
  AccessTTL, LoginTTL, RefreshTTL,
  MaxTokens, MaxChanges, MaxClock,
  Nothing

VARIABLES
  clock,
  admins,    \* rows of group_admins, as <<group, user>>
  owners,    \* owner_ids of the tenant's row
  registry,  \* what each API process has cached of it, Nothing before a request
  proof,     \* auth_date of the payload each user's client holds, Nothing for none
  sessions,  \* refresh tokens that can be redeemed
  access,    \* access tokens in circulation
  changes,
  ownedSince,\* ghost: whoever owned the tenant since the process started
  former     \* ghost: who has owned the tenant and was removed

accessVars ==
  <<clock, admins, owners, registry, proof, sessions, access, changes, ownedSince, former>>

-----------------------------------------------------------------------------
AllScopes == {"groups:read", "groups:write", "audit:read", "admin:read"}
LegacyScopes == {"groups:read"}

\* The scope of the fleet's routes is an owner's and nobody else's, and a granted
\* token lives for a while (settings.py, miniapp_scopes, miniapp_admin_scopes).
ASSUME AccessAssumption ==
  /\ Unknown \notin Groups /\ \A them \in SUBSET Users : Nothing # them
  /\ FirstOwners \subseteq Users
  /\ Scopes \cup AdminScopes \subseteq AllScopes /\ "admin:read" \in AdminScopes \ Scopes
  /\ {DataAge, LoginAge, AccessTTL, LoginTTL, RefreshTTL} \subseteq Nat /\ AccessTTL > 0
  /\ {MaxTokens, MaxChanges, MaxClock} \subseteq Nat

Claims == (SUBSET AllScopes) \cup {Nothing}
Token == [user : Users, scope : Claims, until : Nat]

AccessTyped ==
  /\ clock \in 0..MaxClock
  /\ admins \subseteq Groups \X Users
  /\ owners \subseteq Users
  /\ registry \in [Apis -> (SUBSET Users) \cup {Nothing}]
  /\ proof \in [Users -> 0..MaxClock \cup {Nothing}]
  /\ sessions \subseteq Token /\ access \subseteq Token
  /\ changes \in 0..MaxChanges
  /\ ownedSince \in [Apis -> SUBSET Users]
  /\ former \subseteq Users

AccessInit ==
  /\ clock = 0
  /\ admins \in SUBSET (Groups \X Users)
  /\ owners = FirstOwners
  /\ registry = [r \in Apis |-> Nothing]
  /\ proof = [u \in Users |-> Nothing]
  /\ sessions = {} /\ access = {}
  /\ changes = 0
  /\ ownedSince = [r \in Apis |-> FirstOwners]
  /\ former = {}

-----------------------------------------------------------------------------
\* What registry.by_id can return: the cached tenant, or else its row or, when
\* the query fails, FALLBACK, which nobody owns. Either is then kept for good.
Resolved(r) == IF registry[r] # Nothing THEN {registry[r]} ELSE {owners, {}}
Cache(r, tenant) == registry' = [registry EXCEPT ![r] = tenant]

IsBotAdmin(u, tenant) == u = OwnerId \/ u \in tenant
Administers(u, g, tenant) == <<g, u>> \in admins \/ u \in tenant

\* A token without a scope claim only reads.
ScopesOf_ClaimOrAll(t) == IF t.scope = Nothing THEN Scopes ELSE t.scope
ScopesOf(t) == IF t.scope = Nothing THEN LegacyScopes ELSE t.scope

Verifies(t) == clock < t.until

\* The answer of a route of one group: 404 before 403.
GroupAnswer_ScopeFirst(t, g, required, tenant) ==
  IF ~Verifies(t) THEN 401
  ELSE IF ~(required \subseteq ScopesOf(t)) THEN 403
  ELSE IF ~Administers(t.user, g, tenant) THEN 404
  ELSE 200
GroupAnswer(t, g, required, tenant) ==
  IF ~Verifies(t) THEN 401
  ELSE IF ~Administers(t.user, g, tenant) THEN 404
  ELSE IF ~(required \subseteq ScopesOf(t)) THEN 403
  ELSE 200

\* The answer of a route under /admin.
FleetAnswer(t, required, tenant) ==
  IF ~Verifies(t) THEN 401
  ELSE IF ~(IsBotAdmin(t.user, tenant) /\ required \subseteq ScopesOf(t)) THEN 403
  ELSE 200

\* What each kind of route asks for.
GroupRoutes == {{}, {"groups:read"}, {"groups:write"}, {"audit:read"}}
FleetRoutes == {{"admin:read"}, {"admin:read", "audit:read"}}

-----------------------------------------------------------------------------
\* Telegram vouches for a user: a widget login, or the Mini App opened.
Vouch(u) ==
  /\ proof' = [proof EXCEPT ![u] = clock]
  /\ UNCHANGED <<clock, admins, owners, registry, sessions, access, changes, ownedSince, former>>

\* is_fresh, over the payload the client kept: it may present it again.
Fresh(u, window) ==
  /\ proof[u] # Nothing
  /\ window = 0 \/ clock - proof[u] <= window

Issue(u, scope, ttl) ==
  LET live == {t \in access : Verifies(t)} IN
    /\ Cardinality(live) < MaxTokens
    /\ access' = live \cup {[user |-> u, scope |-> scope, until |-> clock + ttl]}

\* v1's endpoint: no scope claim, no refresh token.
Login(u) ==
  /\ Fresh(u, LoginAge)
  /\ Issue(u, Nothing, LoginTTL)
  /\ UNCHANGED <<clock, admins, owners, registry, proof, sessions, changes, ownedSince, former>>

Opened(u, scope) ==
  [user |-> u, scope |-> scope, until |-> clock + RefreshTTL]

\* Admin scopes asked for by the token in hand, whoever its user is.
ScopesFor_Everybody(u, tenant) == Scopes \cup AdminScopes
ScopesFor(u, tenant) == Scopes \cup (IF IsBotAdmin(u, tenant) THEN AdminScopes ELSE {})

\* Either Telegram grant. Whether the subject runs the deployment is asked only
\* where there are admin scopes to grant, and not of the tenant for CB_OWNER_ID.
Grant(u, r, window) ==
  /\ Fresh(u, window)
  /\ Cardinality(sessions) < MaxTokens
  /\ \E tenant \in Resolved(r) :
       /\ IF AdminScopes # {} /\ u # OwnerId THEN Cache(r, tenant) ELSE UNCHANGED registry
       /\ Issue(u, ScopesFor(u, tenant), AccessTTL)
       /\ sessions' = sessions \cup {Opened(u, ScopesFor(u, tenant))}
  /\ UNCHANGED <<clock, admins, owners, proof, changes, ownedSince, former>>

\* The session's scope is reissued as stored, under a refresh token of full age.
Refresh(s) ==
  /\ s \in sessions /\ clock < s.until
  /\ Issue(s.user, s.scope, AccessTTL)
  /\ sessions' = (sessions \ {s}) \cup {Opened(s.user, s.scope)}
  /\ UNCHANGED <<clock, admins, owners, registry, proof, changes, ownedSince, former>>

Revoke(s) ==
  /\ s \in sessions
  /\ sessions' = sessions \ {s}
  /\ UNCHANGED <<clock, admins, owners, registry, proof, access, changes, ownedSince, former>>

\* A request to a group's route or under /admin: its answer changes nothing but
\* what the process has cached of the tenant.
Ask(r) ==
  /\ registry[r] = Nothing /\ \E t \in access : Verifies(t)
  /\ \E tenant \in Resolved(r) : Cache(r, tenant)
  /\ UNCHANGED <<clock, admins, owners, proof, sessions, access, changes, ownedSince, former>>

-----------------------------------------------------------------------------
Change == changes < MaxChanges /\ changes' = changes + 1

\* The operator edits the tenant's row: no process is told.
SetOwners(them) ==
  /\ Change /\ them # owners
  /\ owners' = them
  /\ ownedSince' = [r \in Apis |-> ownedSince[r] \cup them]
  /\ former' = former \cup (owners \ them)
  /\ UNCHANGED <<clock, admins, registry, proof, sessions, access>>

\* The gateway refreshes a group's admins.
SetAdmins(g, them) ==
  /\ Change
  /\ admins' = {row \in admins : row[1] # g} \cup ({g} \X them)
  /\ admins' # admins
  /\ UNCHANGED <<clock, owners, registry, proof, sessions, access, ownedSince, former>>

RestartApi(r) ==
  /\ registry[r] # Nothing /\ Change
  /\ registry' = [registry EXCEPT ![r] = Nothing]
  /\ ownedSince' = [ownedSince EXCEPT ![r] = owners]
  /\ UNCHANGED <<clock, admins, owners, proof, sessions, access, former>>

\* The clock; expired rows are purged.
Elapse ==
  /\ clock < MaxClock
  /\ clock' = clock + 1
  /\ access' = {t \in access : clock' < t.until}
  /\ sessions' = {s \in sessions : clock' < s.until}
  /\ UNCHANGED <<admins, owners, registry, proof, changes, ownedSince, former>>

AccessNext ==
  \/ \E u \in Users : Vouch(u) \/ Login(u)
  \/ \E u \in Users, r \in Apis : Grant(u, r, DataAge) \/ Grant(u, r, LoginAge)
  \/ \E s \in sessions : Refresh(s) \/ Revoke(s)
  \/ \E r \in Apis : Ask(r) \/ RestartApi(r)
  \/ \E them \in SUBSET Users : SetOwners(them) \/ \E g \in Groups : SetAdmins(g, them)
  \/ Elapse

AccessSpec == AccessInit /\ [][AccessNext]_accessVars

-----------------------------------------------------------------------------
Tenants == {registry[r] : r \in Apis} \ {Nothing}

\* Somebody who runs nothing gets one answer for every group, known or not, on
\* every route, whatever the token: "a logged-in stranger cannot enumerate chat
\* ids" (security.py:261).
StrangersLearnNothing ==
  \A t \in access, tenant \in Tenants :
    t.user \notin tenant =>
      Cardinality({GroupAnswer(t, g, need, tenant) :
                     g \in {h \in Groups \cup {Unknown} : <<h, t.user>> \notin admins},
                     need \in GroupRoutes}) = 1

\* Under /admin only those are served who have run the deployment since the
\* process started, whatever their token still says: an owner who was removed is
\* out on every process started since (security.py, is_bot_admin).
FleetServesOwners ==
  \A t \in access, r \in Apis, need \in FleetRoutes :
    /\ registry[r] # Nothing
    /\ FleetAnswer(t, need, registry[r]) = 200
    => t.user \in ownedSince[r] \cup {OwnerId}

\* A token or a session with an admin scope belongs to somebody who ran the
\* deployment at some time: the scope "is a true statement about who asked for
\* it" (admin.py:24-25).
ScopeIsEarned ==
  \A t \in access \cup sessions :
    /\ t.scope # Nothing /\ "admin:read" \in t.scope
    => t.user \in owners \cup former \cup {OwnerId}

\* v1's token stays what v1's console could do: it never writes, nor reads the
\* trail, nor reaches /admin (security.py, LEGACY_SCOPES).
LegacyOnlyReads ==
  \A t \in access, tenant \in Tenants :
    t.scope = Nothing =>
      /\ \A g \in Groups, need \in {{"groups:write"}, {"audit:read"}} :
           GroupAnswer(t, g, need, tenant) # 200
      /\ \A need \in FleetRoutes : FleetAnswer(t, need, tenant) # 200

\* CB_OWNER_ID is never locked out: whatever the tenant's row says, and however
\* its lookup failed, a live token of a grant gets them in.
OwnerGetsIn ==
  \A t \in access, tenant \in Tenants :
    t.user = OwnerId /\ t.scope # Nothing => FleetAnswer(t, {"admin:read"}, tenant) = 200

\* Nobody learns or does over HTTP what is not theirs: the promises above, of every
\* token in circulation and every API process (security.py, oauth.py, admin.py).
AccessHolds ==
  StrangersLearnNothing /\ FleetServesOwners /\ ScopeIsEarned /\ LegacyOnlyReads /\ OwnerGetsIn
=============================================================================
