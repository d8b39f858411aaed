\* One email, two workers that overtake each other, their clocks apart.
CONSTANTS
  i1 = i1  i2 = i2  w1 = w1  w2 = w2  a1 = a1  a2 = a2
  None = None
  Issues = {i1}
  Subjects = {a1}
  Workers = {w1, w2}
  Unverifiable = {}
  ClaimLimit = 1
  SendConcurrency = 1
  LeaseTime = 2
  MaxAttempts = 2
  BaseDelay = 1
  MaxDelay = 2
  RetryDelay <- MCRetryDelay
  TokenLife = 2
  Retention = 1
  Skew = 1
SYMMETRY MCSymmetry
SPECIFICATION Spec
INVARIANTS TypeOK FenceIdentifiesClaim ProviderCallsBounded OneSenderPerLease
PROPERTIES SentIsFinal
