SPECIFICATION Spec
CONSTANTS
  Child = {c1, c2}
  c1 = c1
  c2 = c2
  NoChild = NoChild
  Kinds = {"COMMAND"}
  Rooms = {4}
  RetryCount = 2
  MaxEntries = 1
  MaxRequests = 1
INVARIANT OwnReplies
SYMMETRY Processes
