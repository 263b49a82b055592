SPECIFICATION Spec
CONSTANTS
  MinReturns = 5
  MinCloses = 10
  TrailRows = 30
  PersistBars = 2
  Symbols = {"NIFTYBEES", "GOLDBEES", "ONGC"}
  Contents <- MCContents
  Plans <- MCPlans
  Backlog = 1
  Facts <- MCFacts
  Clocks <- MCClocks
  MarketLabels = {"BULL", "BEAR", "HIGH_VOL"}
  Paper = TRUE
  MaxRows = 3
INVARIANTS FlowsSpeakWithOneVoice
PROPERTIES RowsAsPromised ArrivesAtLast
CHECK_DEADLOCK FALSE
