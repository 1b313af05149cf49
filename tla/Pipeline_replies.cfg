SPECIFICATION FairSpec
CONSTANTS
  Child = {c1, c2}
  c1 = c1
  c2 = c2
  NoChild = NoChild
  Kinds = {"COMMAND", "STATUS", "NONE"}
  Rooms = {1, 2, 4}
  RetryCount = 2
  MaxEntries = 1
  MaxRequests = 2
INVARIANT TypeOK
INVARIANT Conservation
INVARIANT RequestsFit
INVARIANT RepliesFit
INVARIANT SerialRepliesMatch
PROPERTY WaitsEnd
