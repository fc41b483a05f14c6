SPECIFICATION Spec
CONSTANTS
  a = a
  b = b
  c = c
  r1 = r1
  Conns = {a, b, c}
  Socks = {3, 4}
  Ids = {4, 7, 8}
  Groups <- NumberedGroups
  Readers = {r1}
  MaxChanges = 2
  MaxVersion = 5
SYMMETRY Symmetry
CHECK_DEADLOCK FALSE
INVARIANTS
  EachConnectionHasOneId
  GroupsAgree
  ChangesAreLatest
  WaitersAreTold
