CONSTANTS
  Runs = {"r1"}
  Waits = {1, 2}
  RunOf <- MCRunOf
  CreatedAt <- MCCreatedAt
  Kind <- MCKind
  Span <- MCSpan
  Match <- MCMatch
  Calls = {1}
  Identity <- MCIdentity
  Payload <- MCPayload
  Drivers = {d1}
  BatchLimit = 1
  MaxTime = 2
  MaxFaults = 1
  None = None
SPECIFICATION FairSpec
CHECK_DEADLOCK FALSE
INVARIANTS ResolutionsAreEarned NothingOverlooked
PROPERTIES ImplementsNodeSuspension DueIsResolved
