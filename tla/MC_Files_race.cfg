CONSTANTS
  Names <- MCNames
  Bytes <- MCBytes
  Zero = Zero
  MaxDepth = 3
  MaxLen = 3
  Clients = {c1, c2}
  InitRoot <- MCInitRoot
  Commands <- RaceCommands
  Payload <- PayloadY
  NoCount = NoCount
  MaxCmds = 3
  Modes <- MCModes
  Mtimes <- MCMtimes
  HashFuns <- MCHashFuns
  NoBuilder = NoBuilder
  MaxCrashes = 0
SPECIFICATION Spec
INVARIANT FlushedCommandsDurable

