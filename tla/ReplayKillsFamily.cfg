SPECIFICATION Spec
CONSTANTS
  Tokens = {t1, t2, t3}
  Families = {f1, f2}
  Requests = {r1, r2}
  NoToken = NoToken
  NoFamily = NoFamily
INVARIANT ReplayKillsFamily
CHECK_DEADLOCK FALSE
