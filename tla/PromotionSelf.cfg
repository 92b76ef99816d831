SPECIFICATION PromotionSpec
CONSTANTS
  Top = r
  Sub = {d1, d2}
  Plain = {f}
INVARIANT NeverWaitsForItself
CHECK_DEADLOCK FALSE
