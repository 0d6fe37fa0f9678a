SPECIFICATION ItemSpec
CONSTANTS
  c1 = c1 c2 = c2 m1 = m1 h1 = h1 h2 = h2 s1 = s1 r1 = r1 e1 = e1 d1 = d1
  NoContrib = NoContrib NoMatch = NoMatch NoResv = NoResv NoToken = NoToken
  Contrib = {c1, c2} Match = {m1} Handler = {h1, h2} Sweeper = {s1}
  MaxPrice = 2 MaxInt = 9 Amounts = {1} Prices = {2} HasWindow = FALSE
  Resv = {r1} Reserver = {e1} Decayer = {d1} MaxQty = 1 MaxAge = 0
  ConfirmWindow = 0 DecayPeriod = 0 ResponseWindow = 0
  Kinds = {"guest"} OwnerOps = {"archive", "list", "delete"}
SYMMETRY PairSymmetry
INVARIANTS TracksExclude
CHECK_DEADLOCK FALSE
