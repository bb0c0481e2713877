SPECIFICATION StreamSpec
CONSTANTS
  stx = stx
  etx = etx
  a = a
  b = b
  Bytes <- MCBytes
  STX = stx
  ETX = etx
  RecordLength = 3
  Records <- MCRecords
  MaximumBuffer = 3
  MaxChunk = 5
  MaxBytes = 7
  MaxSessions = 2
INVARIANTS
  ChunkingDoesNotMatter
  ParsedIsARecordOfItsOwn
  SyncedRecordsAreDecided
CHECK_DEADLOCK FALSE
