\* Pull mode by gtids under fairness: a server that stops and crashes, failing
\* backend calls, kills, lost connections, and dumps the server ends.
CONSTANTS
  g1 = g1
  g2 = g2
  g3 = g3
  BinlogName = {1, 2, 3}
  NoName = 0
  Data <- MCData
  MagicData <- MCMagic
  Gtid = {g1, g2, g3}
  NoGtid = NoGtid
  WrittenEvent <- MCWrittenEvent
  Timestamp = {0, 1, 2, 3}
  SequenceNumber = {0, 1, 2, 3}
  ReplicationMode = "gtid"
  Backend = "file"
  CheckpointSize = 3
  CheckpointInterval = TRUE
  MaxFileSize = 10
  MaxCrashes = 1
  MaxFailures = 1
  OperationModes = {"pull"}
  Rewrite = FALSE
  RewriteFileSize = 0
  ServerFiles <- RestartedFiles
  TransactionLength = 2
  MaxDisconnects = 2
  MaxEofs = 1
SPECIFICATION FairSpec
INVARIANTS
  StoredIsPrefixOfServer
  ResumptionNeverThrows
PROPERTIES
  
  EverythingIsStored
  SignalEndsProgram
