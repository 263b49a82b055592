SPECIFICATION PromotionSpec
CONSTANTS
  SB3 = TRUE
  MaxTrainings = 3
  None = None
INVARIANTS RejectedNeverActs
