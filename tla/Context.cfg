SPECIFICATION RetrievalSpec
CONSTANTS
  Documents = 6
  MaxUpserts = 1
  NoIncident = NoIncident
INVARIANTS
  NoIncidentTwice
  BalancedIfRoom
CHECK_DEADLOCK FALSE
