SPECIFICATION FeedSpec
CONSTANTS
  MaxFaults = 1
  MaxFlakes = 1
  MaxMisses = 0
PROPERTIES StaleReconnects
