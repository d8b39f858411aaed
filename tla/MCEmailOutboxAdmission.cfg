\* Sends of a batch that has rejected.
CONSTANTS
  i1 = i1  i2 = i2  w1 = w1  w2 = w2  a1 = a1  a2 = a2
  None = None
  Issues = {i1, i2}
  Subjects = {a1, a2}
  Workers = {w1}
  Unverifiable = {}
  ClaimLimit = 2
  SendConcurrency = 2
  LeaseTime = 2
  MaxAttempts = 1
  BaseDelay = 1
  MaxDelay = 2
  RetryDelay <- MCRetryDelay
  TokenLife = 2
  Retention = 1
  Skew = 0
SPECIFICATION Spec
INVARIANTS SendsAreAdmitted
