CONSTANTS
  Names <- MCNames
  Bytes <- MCBytes
  Zero = Zero
  MaxDepth = 3
  MaxLen = 3
  InitRoot <- MCInitRoot
  Payload <- PayloadY
  NoCount = NoCount
  Modes <- MCModes
  Mtimes <- MCMtimes
  HashFuns <- MCHashFuns
  NoBuilder = NoBuilder
  MaxCrashes = 0
  Clients = {c1, c2}
  Commands <- ToctouCommands
  MaxCmds = 3
SPECIFICATION Spec
PROPERTY UnlinkRemovesCheckedType
