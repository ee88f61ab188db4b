\* Replication by position, longer transactions, an S3 bucket, both modes in turn.
CONSTANTS
  g1 = g1
  g2 = g2
  g3 = g3
  BinlogName = {1, 2, 3}
  NoName = 0
  Data <- MCData
  MagicData <- MCMagic
  Gtid = {g1, g2, g3}
  NoGtid = NoGtid
  WrittenEvent <- MCWrittenEvent
  Timestamp = {0, 1, 2, 3}
  SequenceNumber = {0, 1, 2, 3}
  ReplicationMode = "position"
  Backend = "s3"
  CheckpointSize = 3
  CheckpointInterval = FALSE
  MaxFileSize = 10
  MaxCrashes = 2
  MaxFailures = 0
  OperationModes = {"fetch", "pull"}
  Rewrite = FALSE
  RewriteFileSize = 0
  ServerFiles <- RestartedFiles
  TransactionLength = 3
  MaxDisconnects = 2
  MaxEofs = 0
SPECIFICATION Spec
INVARIANTS
  StoredIsPrefixOfServer
  ContextAgreesWithStorage
