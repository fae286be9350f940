\* Two replicas handle the updates of a member and of an admin.
SPECIFICATION ServicesSpec
CONSTANTS
  Processes = {a1, a2, a3}
  Kids = {k1, k2}
  Pems = {x1, x2, x3, x4}
  NoPem = Null
  Rows = {0, 1, 2, 3, 4}
  Limit = 2
  Calls = {a1, a2, a3}
  Threshold = 2
  Cooldown = 2
  MaxTime = 5
  Flushes = {a1, a2}
  Timer = "timer"
  Last = "last"
  MaxBatch = 2
  MaxRecorded = 4
  Users = {"u", "o"}
  Groups = {"g"}
  Apis = {"api"}
  Unknown = "h"
  OwnerId = "o"
  FirstOwners = {}
  Scopes = {"groups:read", "groups:write", "audit:read"}
  AdminScopes = {"admin:read"}
  DataAge = 1
  LoginAge = 0
  AccessTTL = 1
  LoginTTL = 2
  RefreshTTL = 2
  MaxTokens = 1
  MaxChanges = 2
  MaxClock = 3
  Nothing = Null
  People = {"u"}
  Admin = "admin"
  Handlers = {a1, a2}
  Gateways = {r1, r2}
  GatewayOf <- TheReplicas
  Window = 1
  MaxHours = 1
  MaxUpdates = 3
  Absent = Null
  a1 = a1
  a2 = a2
  a3 = a3
  r1 = r1
  r2 = r2
  k1 = k1
  k2 = k2
  x1 = x1
  x2 = x2
  x3 = x3
  x4 = x4
  Null = Null
SYMMETRY Swap
INVARIANT LeaverIsMarked
CHECK_DEADLOCK FALSE
