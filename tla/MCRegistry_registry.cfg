CONSTANTS
  Session = {s1, s2, s3}
  Client = {c1, c2}
  Key = {k1, k2}
  Number = {n1, n2, n3}
  Monitor = monitor
  None = None
  MaxAccepts = 3
  MaxActs = 4
SPECIFICATION MCSpec
INVARIANTS TypeOK FoundUnderOwnNumber LoggedInIsFound FormerIsInvalid
SYMMETRY Symmetric
CHECK_DEADLOCK FALSE
