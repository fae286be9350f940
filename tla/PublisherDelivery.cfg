\* Two rows of a group, granted no day (which is one) or two, that may opt out and
\* cancel, under two ticks at once that overlap and die anywhere. Approvals, which
\* the Tools run has, are kept out.
SPECIFICATION FairSpec
CONSTANTS
  Groups = {"g1"}
  Submissions = {}
  Jobs = {}
  Ticks = {t1, t2}
  TickLimit = 2
  DayOptions = {}
  RepostDays = {0, 2}
  MaxPosts = 1
  MaxRows = 2
  MaxReposts = 2
  MaxSubmitted = 0
  Faults = TRUE
  DaysPass = TRUE
  Gone = Gone
INVARIANTS DaysBudget
PROPERTIES RefusalIsFinal Drains
CHECK_DEADLOCK FALSE
