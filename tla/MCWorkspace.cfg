\* Two API calls at a time on one wedding.
CONSTANTS
  q1 = q1  q2 = q2  g1 = g1  g2 = g2  a1 = a1  a2 = a2  a3 = a3
  l1 = l1  l2 = l2  l3 = l3  b1 = b1  v1 = v1  k1 = k1  k2 = k2
  e1 = e1  e2 = e2  x1 = x1  p1 = p1  p2 = p2  m1 = m1  m2 = m2  m3 = m3
  i1 = i1  i2 = i2  thb = thb  jpy = jpy
  None = None  Wedding = Wedding  Unquoted = Unquoted
  Requests = {q1, q2}
  Guests = {g1, g2}
  Affiliations = {a1, a2}
  Links = {l1, l2, l3}
  Tables = {1, 2, 3}
  Batches = {b1}
  Vendors = {v1}
  Categories = {k1, k2}
  Expenses = {x1}
  Templates = {e1, e2}
  Currencies = {thb, jpy}
  Lines = {1, 2}
  Mappings = {m1, m2, m3}
  Reads <- MCReads
  Contacts = {p1}
  Keys = {i1, i2}
  MaxParty = 2
  MaxCapacity = 3
  MaxAffiliations = 2
  MaxTables = 2
  MaxCategories = 1
  MaxTemplates = 1
  MaxBulk = 2
  MaxCalls = 3
  InitialRows <- MCRows
SYMMETRY MCSymmetry
SPECIFICATION Spec
INVARIANTS TypeOK SeatsFit OneLiveLink SidesInOrder WithinLimits AmountsKeepTheirCurrency OnlyKnownCircles
PROPERTIES RepliesComeThroughOpenLinks ImportSpec
CHECK_DEADLOCK FALSE
