CONSTANTS
  r1 = r1
  r2 = r2
  h1 = h1
  h2 = h2
  s1 = s1
  Resv = {r1}
  Handler = {h1}
  Sweeper = {s1}
  NoResv = NoResv
  NoToken = NoToken
  MaxQty = 1
  MaxAge = 3
  ConfirmWindow = 1
  DecayPeriod = 2
  ResponseWindow = 3
  Kinds = {"guest", "confirm"}
  OwnerOps = {"archive", "list"}
SPECIFICATION FairSpec
INVARIANTS NoSilentExpiry
PROPERTIES EarnedExpiry HoldsMoveOn KeepsLedger
