SPECIFICATION FairSpec
CONSTANTS
  Kinds = {"COMMAND", "STATUS", "KEEPALIVE"}
  Room = 5
INVARIANT TypeOK
INVARIANT DispatchesRequests
INVARIANT SuccessIsTold
PROPERTY UntoldClientEnds
PROPERTY ClosedEndsClient
CHECK_DEADLOCK FALSE
