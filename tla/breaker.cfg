SPECIFICATION FairSpec
CONSTANTS
  Calls = {a, b}
  Circuits = {c1, c2, c3}
  NoCircuit = NoCircuit
  MaxRetries = 2
  Threshold = 2
  ResetTimeout = 2
INVARIANTS
  OpenIsEarned
PROPERTIES
  Recovers
