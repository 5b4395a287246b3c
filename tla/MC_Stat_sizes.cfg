CONSTANTS
  NBlocks = 3
  MaxLinks = 2
SPECIFICATION Spec
INVARIANTS LocalWithinCumulative LocalFlagExact
