\* One newcomer, two challenges (they may leave and join again), two handlers
\* of their updates at once, replicas that fail anywhere.
SPECIFICATION FairSpec
CONSTANTS
  Users = {u1}
  Nonces = {n1, n2}
  Handlers = {h1, h2}
  MaxAttempts = 2
  MaxAnswers = 2
  NoNonce = NoNonce
INVARIANTS RowsSound OneVerdict
PROPERTIES NoResurrection PendingEnds BanLifted
CHECK_DEADLOCK FALSE
