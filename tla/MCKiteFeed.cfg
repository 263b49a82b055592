SPECIFICATION FeedSpec
CONSTANTS
  MaxFaults = 3
  MaxFlakes = 2
  MaxMisses = 2
PROPERTIES KeepsTicking TicksComeBack
