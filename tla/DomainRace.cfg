SPECIFICATION Spec
CONSTANTS
  t1 = t1 t2 = t2 h1 = h1 h2 = h2 c1 = c1 c2 = c2 c3 = c3
  Tenant = {t1, t2} Handler = {h1, h2} Claim = {c1, c2, c3}
  NoClaim = NoClaim NoTenant = NoTenant
  ClaimTTL = 1 MaxNow = 3
SYMMETRY Symmetry
INVARIANTS TypeOK ServedByProof
PROPERTIES ClaimStands
