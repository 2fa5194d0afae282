CONSTANTS
  MinTrades = 4
  Results <- MCResults
  CriticalPermille = 2706
  MaxTrades = 9
  MaxRestarts = 1
SPECIFICATION Spec
CHECK_DEADLOCK FALSE
INVARIANTS
  EvidenceUsedOnce
PROPERTIES
  AdvanceNeedsNewTrades
