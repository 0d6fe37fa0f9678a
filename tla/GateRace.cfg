SPECIFICATION Spec
CONSTANTS
  h1 = h1 h2 = h2 c1 = c1 a1 = a1 a2 = a2 s1 = s1
  Handler = {h1, h2} Client = {c1} Account = {a1, a2} Solution = {s1}
  Proxy = Proxy Junk = Junk NoSolution = NoSolution
  Workloads = {{"login", "pwreset"}, {"login", "pat"}, {"captcha"}}
  Max = 1 Window = 1 TTL = 1 MaxNow = 3
SYMMETRY Symmetry
INVARIANTS TypeOK AttemptsBounded SolutionOnce
PROPERTIES SweepKeepsUp
