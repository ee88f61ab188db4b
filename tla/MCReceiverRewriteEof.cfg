\* Rewriting, and a blocking dump that the server ends.
CONSTANTS
  g1 = g1
  g2 = g2
  g3 = g3
  BinlogName = {1, 2, 3}
  NoName = 0
  Data <- MCRewrittenData
  MagicData <- MCMagic
  Gtid = {g1, g2, g3}
  NoGtid = NoGtid
  WrittenEvent <- MCRewrittenEvent
  Timestamp = {0, 1, 2, 3}
  SequenceNumber = {0, 1, 2, 3}
  ReplicationMode = "gtid"
  Backend = "file"
  CheckpointSize = 3
  CheckpointInterval = FALSE
  MaxFileSize = 10
  MaxCrashes = 0
  MaxFailures = 0
  OperationModes = {"pull"}
  Rewrite = TRUE
  RewriteFileSize = 5
  ServerFiles <- RotatedFiles
  TransactionLength = 2
  MaxDisconnects = 0
  MaxEofs = 1
SPECIFICATION Spec
INVARIANTS
  RewritingKeepsTransactions
