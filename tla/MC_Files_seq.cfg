CONSTANTS
  Names <- MCNames
  Bytes <- MCBytes
  Zero = Zero
  MaxDepth = 3
  MaxLen = 3
  Clients = {c1}
  InitRoot <- MCInitRoot
  Commands <- SeqCommands
  Payload <- PayloadY
  NoCount = NoCount
  MaxCmds = 3
  Modes <- MCModes
  Mtimes <- MCMtimes
  HashFuns <- MCHashFuns
  NoBuilder = NoBuilder
  MaxCrashes = 1
SPECIFICATION Spec
INVARIANTS TypeOK FlushedCommandsDurable MoveNeverLosesEntry
PROPERTIES AtomicCommands
