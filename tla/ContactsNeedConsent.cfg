SPECIFICATION RaceSpec
CONSTANTS
  c1 = c1 c2 = c2 c3 = c3 m1 = m1 m2 = m2 h1 = h1 h2 = h2 s1 = s1
  NoContrib = NoContrib NoMatch = NoMatch
  Contrib = {c1, c2} Match = {m1} Handler = {h1} Sweeper = {s1}
  MaxPrice = 2 MaxInt = 9 Amounts = {1} Prices = {2} HasWindow = FALSE
INVARIANTS ContactsNeedConsent
CHECK_DEADLOCK FALSE
