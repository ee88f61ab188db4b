\* A query that cannot read the metadata of the only file.
CONSTANTS
  g1 = g1
  g2 = g2
  header = header
  body = body
  magic = magic
  BinlogName = {1, 2, 3}
  NoName = NoName
  Data = {header, body, magic}
  MagicData = magic
  Gtid = {g1, g2}
  NoGtid = NoGtid
  WrittenEvent <- MCWrittenEvent
  Timestamp = {0, 1, 2, 3}
  SequenceNumber = {0, 1, 2}
  ReplicationMode = "gtid"
  Backend = "s3"
  CheckpointSize = 2
  CheckpointInterval = FALSE
  MaxFileSize = 4
  MaxCrashes = 1
  MaxFailures = 1
  MaxPurges = 0
  ToolFaults = 1
  ToolFileSize = 2
SPECIFICATION MCSpec
INVARIANTS
  FrontExists
