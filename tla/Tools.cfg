SPECIFICATION ToolsSpec
CONSTANTS
  o1 = o1
  o2 = o2
  s1 = s1
  s2 = s2
  a = a
  b = b
  x = x
  y = y
  z = z
  g = g
  h = h
  g1 = g1
  g2 = g2
  f1 = f1
  f2 = f2
  clip = clip
  pic = pic
  p1 = p1
  p2 = p2
  c1 = c1
  c2 = c2
  was = was
  new1 = new1
  new2 = new2
  job = job
  Null = Null
  Bad = Bad
SYMMETRY Swap
INVARIANTS ExportsHold MovesHold MediaHolds CampaignsHold ApprovalsHold RollupsHold
PROPERTIES ExportIsKept
CHECK_DEADLOCK FALSE
