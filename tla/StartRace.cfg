SPECIFICATION Spec
CONSTANTS
  decay = decay i1 = i1 i2 = i2 s1 = s1 s2 = s2
  Instance = {i1, i2} Shell = {s1, s2} Casts <- TwoAtATime
  Sweeper = {decay} Binary = {1, 2} Drops <- SecondDropsFirst Config <- Configs
  MaxRequests = 1 MaxFaults = 2
INVARIANTS TypeOK ServesWhole
PROPERTIES UpAgain
