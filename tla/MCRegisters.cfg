SPECIFICATION MCSpec
CONSTANTS
  Candidate = {c1, c2, c3}
  F = 1
  LastEpoch = 3
  MaxPosition = 1
  Identity = {x, y}
  MaxLength = 2
  Old = {h1, h2, h3}
  New = {h2, h3, h4}
  MaxSeq = 3
  Holder = {k1, k2}
  Faults = 1
  Bound = 1
  Horizon = 1
  Window = 2
  LastTime = 4
  MaxProbes = 1
SYMMETRY Symmetry
INVARIANTS AdoptsTheNewest PositionsAgree NoLoss OracleComplete ReadSafety JointNeverMissed LeaseEnds
PROPERTY StaleNeverCommits
