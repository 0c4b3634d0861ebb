SPECIFICATION Spec
CONSTANTS
  Users <- MCUsers
  Asks <- MCAsks
  Sheddable = {"auth"}
  Bulkhead <- MCBulkhead
  Retries = 1
  MaxCalls = 1
  MaxLeft = 0
INVARIANTS TypeOK BulkheadExact AmplificationIsBounded
PROPERTIES CallsSpec RequestsAreAnswered IsolationFrees
