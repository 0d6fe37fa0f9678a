CONSTANTS
  h1 = h1
  h2 = h2
  l1 = l1
  l2 = l2
  p1 = p1
  p2 = p2
  t1 = t1
  t2 = t2
  Handler = {h1, h2}
  Link = {l1, l2}
  Secret = {p1, p2}
  Pat = {t1, t2}
  NoLink = NoLink
  NoSecret = NoSecret
  MaxVersion = 3
  MaxNow = 3
  MaxPats = 1
  ResendFloor = 1
  LinkTTL = 2
  InviteTTL = 3
  SessionTTL = 2
  Freshness = 0
  TouchInterval = 1
  Workloads <- AllWorkloads
SPECIFICATION Spec
INVARIANTS TypeOK LinksSpentOnce PasswordSessionsCurrent NoSessionWhilePending PatLimit TokensFallWithReset
SYMMETRY Symmetry
CHECK_DEADLOCK FALSE
