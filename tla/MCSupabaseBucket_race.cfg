SPECIFICATION Spec
CONSTANTS
  c1 = c1  c2 = c2  c3 = c3
  a = a  b = b
  None = None
  Clients <- MCClients
  Contents <- MCContents
SYMMETRY Symmetry
INVARIANT PublishedWereWhole
PROPERTY ImplementsObjectStore
CHECK_DEADLOCK FALSE
