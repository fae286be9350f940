\* Two replicas with rings of two, three updates of one bot and one of another
\* that shares an id with them; Valkey fails, answers get lost, claims expire
\* early and replicas crash.
SPECIFICATION Spec
CONSTANTS
  Replicas = {r1, r2}
  Shared = i1
  OtherIds = {i2, i3}
  Incoming <- TwoBots
  Capacity = 2
  Slots = {h1, h2}
  MaxPosts = 4
SYMMETRY Symmetry
INVARIANTS HandledOnce NoLoss RecordedWindow
CHECK_DEADLOCK FALSE
