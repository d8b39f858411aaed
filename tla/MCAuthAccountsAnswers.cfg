\* Requests that wait for each other (no symmetry: liveness).
CONSTANTS
  q1 = q1  q2 = q2  q3 = q3
  h0 = h0  h1 = h1  h2 = h2  h3 = h3
  t1 = t1  t2 = t2  t3 = t3  s1 = s1  s2 = s2
  None = None
  MaxVersion = 2
  AccountRow = AccountRow
  Requests = {q1, q2}
  Hashes = {h0, h1, h2, h3}
  Legacy = {h0}
  Tokens = {t1, t2}
  Sessions = {s1}
  InitialAccounts <- MCAccounts
SPECIFICATION FairSpec
PROPERTIES EveryRequestAnswered
