\* A server that crashed right after it created a binlog file.
CONSTANTS
  g1 = g1
  g2 = g2
  g3 = g3
  BinlogName = {1, 2, 3}
  NoName = 0
  Data <- MCData
  MagicData <- MCMagic
  Gtid = {g1, g2, g3}
  NoGtid = NoGtid
  WrittenEvent <- MCWrittenEvent
  Timestamp = {0, 1, 2, 3}
  SequenceNumber = {0, 1, 2, 3}
  ReplicationMode = "gtid"
  Backend = "file"
  CheckpointSize = 3
  CheckpointInterval = FALSE
  MaxFileSize = 10
  MaxCrashes = 0
  MaxFailures = 0
  OperationModes = {"pull"}
  Rewrite = FALSE
  RewriteFileSize = 0
  ServerFiles <- CrashedEmptyFiles
  TransactionLength = 2
  MaxDisconnects = 0
  MaxEofs = 0
SPECIFICATION Spec
INVARIANTS
  OpenBinlogAssertions
