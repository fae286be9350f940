\* A gateway, which listens, and the API, which does not; two tasks, in calm
\* or meeting each other and failing anywhere.
SPECIFICATION FairSpec
CONSTANTS
  Processes = {g, api}
  Listeners = {g}
  Tasks = {t1, t2}
  None = None
  MaxWrites = 1
INVARIANTS WriteIsSeen
PROPERTIES Coherent
CHECK_DEADLOCK FALSE
