\* GTID mode, a directory, checkpoints by size and by time, kills.
CONSTANTS
  g1 = g1
  g2 = g2
  header = header
  body = body
  magic = magic
  BinlogName = {1, 2}
  NoName = NoName
  Data = {header, body, magic}
  MagicData = magic
  Gtid = {g1, g2}
  NoGtid = NoGtid
  WrittenEvent <- MCWrittenEvent
  Timestamp = {0, 1, 2, 3}
  SequenceNumber = {0, 1, 2}
  ReplicationMode = "gtid"
  Backend = "file"
  CheckpointSize = 2
  CheckpointInterval = TRUE
  MaxFileSize = 4
  MaxCrashes = 1
  MaxFailures = 0
SPECIFICATION KillSpec
INVARIANTS
  TypeOK
  MetadataDescribesPayload
  ResumeSetIsExact
  NoTransactionStoredTwice
  UnflushedDataIsBounded
  StorageIsResumable
PROPERTIES
  ImplementsArchive
