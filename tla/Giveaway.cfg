\* Up to two raffles from two prompts, two members, two presses at once,
\* calls and replicas that fail anywhere.
SPECIFICATION Spec
CONSTANTS
  Prompts = {p1}
  Raffles = {g1, g2}
  Messages = {m1, m2, m3, m4}
  Members = {u1, u2}
  Handlers = {h1, h2}
  Nothing = Nothing
SYMMETRY Symmetry
INVARIANTS ClosedForGood RafflesSound
PROPERTIES EntriesSurvive
CHECK_DEADLOCK FALSE
