CONSTANTS
  NameChars <- MCNameChars
  MaxPathLen = 6
SPECIFICATION Spec
INVARIANT TargetIsCleanPath
