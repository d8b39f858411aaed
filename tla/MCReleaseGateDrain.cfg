\* A request and a batch drain out of a gate that one shell closes and opens for
\* one commit after another (no symmetry: liveness).
CONSTANTS
  r1 = r1  b1 = b1  l1 = l1  l2 = l2  c1 = c1  c2 = c2
  s0 = s0  s1 = s1  v0 = v0  v1 = v1
  None = None
  Requests = {r1}
  Batches = {b1}
  LeaseIds = {l1, l2}
  Controllers = {c1}
  Shas = {s0, s1}
  Versions = {v0, v1}
  Source <- MCSourceTwo
  InitialRows <- MCPublished
  MaxClock = 5
SPECIFICATION FairSpec
PROPERTIES ClosedGateDrains PublishesTheRelease
