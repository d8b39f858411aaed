\* Two links for one address, the second requested while the first is being
\* sent: every email is settled (no symmetry: liveness).
CONSTANTS
  i1 = i1  i2 = i2  w1 = w1  w2 = w2  a1 = a1  a2 = a2
  None = None
  Issues = {i1, i2}
  Subjects = {a1}
  Workers = {w1}
  Unverifiable = {}
  ClaimLimit = 2
  SendConcurrency = 2
  LeaseTime = 1
  MaxAttempts = 2
  BaseDelay = 1
  MaxDelay = 1
  RetryDelay <- MCRetryDelay
  TokenLife = 1
  Retention = 0
  Skew = 0
SPECIFICATION FairSpec
PROPERTIES EveryJobSettles OnlyDeadMailVanishes SupersededStaysQuiet
