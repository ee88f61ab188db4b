\* GTID mode, an S3 bucket: failing uploads and puts; queries and purges.
CONSTANTS
  g1 = g1
  g2 = g2
  header = header
  body = body
  magic = magic
  BinlogName = {1, 2, 3}
  NoName = NoName
  Data = {header, body, magic}
  MagicData = magic
  Gtid = {g1, g2}
  NoGtid = NoGtid
  WrittenEvent <- MCWrittenEvent
  Timestamp = {0, 1, 2, 3}
  SequenceNumber = {0, 1, 2}
  ReplicationMode = "gtid"
  Backend = "s3"
  CheckpointSize = 2
  CheckpointInterval = FALSE
  MaxFileSize = 4
  MaxCrashes = 1
  MaxFailures = 2
  MaxPurges = 1
  ToolFaults = 2
  ToolFileSize = 2
SPECIFICATION MCSpec
INVARIANTS
  IndexedObjectsExist
  AcceptedFilesEndAtBoundary
  PurgesAreResumable
  QueriesAreConsistent
  
PROPERTIES
  OnlyOldestFilesGo
