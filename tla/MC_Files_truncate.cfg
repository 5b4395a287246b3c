CONSTANTS
  Names <- MCNames
  Bytes <- MCBytes
  Zero = Zero
  MaxDepth = 3
  MaxLen = 3
  InitRoot <- MCInitRoot
  Payload <- PayloadY
  NoCount = NoCount
  Modes <- MCModes
  Mtimes <- MCMtimes
  HashFuns <- MCHashFuns
  NoBuilder = NoBuilder
  MaxCrashes = 0
  Clients = {c1}
  Commands <- TruncCommands
  MaxCmds = 1
SPECIFICATION Spec
INVARIANT RejectedWriteKeepsContent
