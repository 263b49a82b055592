SPECIFICATION Spec
CONSTANTS
  MinReturns = 2
  MinCloses = 3
  TrailRows = 3
  PersistBars = 2
  Symbols = {"NIFTYBEES", "ONGC"}
  Prices = {10000, 10100}
  Spans <- MCSpans
  Flows <- MCFlows
  FlushEvery = 2
  MaxSlot = 3
  Plans <- MCPlans
INVARIANTS EveryTickInOneBar RecordedOnce RegimeNeedsRepeats
CHECK_DEADLOCK FALSE
