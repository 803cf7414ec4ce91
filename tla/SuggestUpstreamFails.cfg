SPECIFICATION Spec
CONSTANTS
  None = None
  Targets <- Fields
  Replies <- SomeReplies
  Top = 2
  MaxColumns = 2
INVARIANT UpstreamFailureIsTold
