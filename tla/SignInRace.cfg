SPECIFICATION Spec
CONSTANTS
  h1 = h1 h2 = h2 b1 = b1 b2 = b2 f1 = f1 f2 = f2 g1 = g1 g2 = g2 e1 = e1 e2 = e2
  Handler = {h1, h2} Browser = {b1, b2} Flow = {f1, f2} Subject = {g1, g2} Email = {e1, e2}
  NoFlow = NoFlow NoSubject = NoSubject NoEmail = NoEmail
  StateTTL = 0 TicketTTL = 1 MaxNow = 1
SYMMETRY Symmetry
INVARIANTS TypeOK TicketOnce OneAccountPerSubject LinksAreVouched
PROPERTIES SecondSubjectRefused
