CONSTANTS
  r1 = r1
  r2 = r2
  h1 = h1
  h2 = h2
  s1 = s1
  Resv = {r1, r2}
  Handler = {h1, h2}
  Sweeper = {s1}
  NoResv = NoResv
  NoToken = NoToken
  MaxQty = 2
  MaxAge = 1
  ConfirmWindow = 1
  DecayPeriod = 0
  ResponseWindow = 1
  Kinds = {"guest", "account", "confirm"}
  OwnerOps = {"edit", "delete"}
SPECIFICATION Spec
INVARIANTS TypeOK WithinCapacity TokensHonoured
SYMMETRY Symmetry
