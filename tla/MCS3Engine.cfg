SPECIFICATION FairSpec
CONSTANTS
  small = small
  middle = middle
  large = large
  Blocks = {small, middle, large}
  SizeOf <- Sizes
  CacheSize = 3
  Wrap = 16
  Lists <- OneOrTwo
INVARIANTS TypeOK SizeCovered CacheBounded CacheHonest
PROPERTY CallsReturn
