\* Two families sharing three tokens, two requests racing: a token can be
\* replayed, rotated twice, or revoked while its successor is being issued.
SPECIFICATION Spec
CONSTANTS
  Tokens = {t1, t2, t3}
  Families = {f1, f2}
  Requests = {r1, r2}
  NoToken = NoToken
  NoFamily = NoFamily
SYMMETRY Symmetry
INVARIANTS OneLivePerFamily SingleUse
PROPERTIES RevokedNeverSpent ImplementsChain
CHECK_DEADLOCK FALSE
