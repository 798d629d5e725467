SPECIFICATION Spec
CONSTANTS
  Streams = {s1, s2, s3}
  MaxUnread = 3
  None = None
INVARIANTS
  TypeOK
  MapAgrees
PROPERTIES
  Served
