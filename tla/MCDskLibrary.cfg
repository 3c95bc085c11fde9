\* Eight nodes, so that both fixups climb more than one level; fragments of two bytes, so that
\* texts, holes and searches reach over their ends, four of them, one kept for reuse.
CONSTANTS
  Nodes = {1, 2, 3, 4, 5, 6, 7, 8}
  Buffers = {b1, b2}
  Frags = {1, 2, 3, 4}
  Foreign = {x1}
  Null = Null
  ChunkSize = 2
  MaxRecycled = 1
  MaxIovecs = 2
  Bytes = {0, 1}
  Unset = 9
  NUL = 0
  MaxBytes = 4
  FilterChunkSize = 4
  Base64LineLength = 4
  HexLineLength = 6
  QpLineLength = 6
  MaxSpaces = 2
  DoubledByte = 98
  BlockSize = 4
  WordBits = 8
  MaxLength = 4
  INDENT = 1
  PieceLength = 4
  Broken = Broken
  MaxEntries = 4
  MaxValue = 1
  MaxTyped = 4
  MaxPieces = 2
  MaxDepth = 4
  MaxEntityRef = 4
  SortThreshold = 2
  Links = {1, 2, 3, 4, 5}
  MaxItems = 5
  MaxTurns = 7
  ByteBits = 2
  MaxOperators = 2
  MaxMembers = 3
  InitMiscHeaders = 1
  Careful = TRUE
VIEW View
SPECIFICATION Spec
INVARIANTS
  HoldsWhatWasPut
  FragmentsOwned
  SearchesAgree
  FeedsJoin
  RoundTrips
  ParsedAsWritten
  CompiledAsC
  TableFilesReadBack
PROPERTIES
  KeepsByteQueues
\* documents end
CHECK_DEADLOCK FALSE
