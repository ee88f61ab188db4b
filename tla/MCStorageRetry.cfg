\* A failed put of the metadata, and the flush that the destructor retries.
CONSTANTS
  g1 = g1
  g2 = g2
  header = header
  body = body
  magic = magic
  BinlogName = {1, 2}
  NoName = NoName
  Data = {header, body, magic}
  MagicData = magic
  Gtid = {g1, g2}
  NoGtid = NoGtid
  WrittenEvent <- MCWrittenEvent
  Timestamp = {0, 1, 2, 3}
  SequenceNumber = {0, 1, 2}
  ReplicationMode = "gtid"
  Backend = "file"
  CheckpointSize = 2
  CheckpointInterval = FALSE
  MaxFileSize = 4
  MaxCrashes = 0
  MaxFailures = 1
SPECIFICATION Spec
INVARIANTS
  NoTransactionStoredTwice
