\* Any stream, rewriting in bytes, GTID sets.  A connection is over once an event
\* is refused.
SPECIFICATION EventsSpec
CONSTANTS
  Versions <- MCVersions
  Gtids <- MCGtids
  TailSizes <- MCTailSizes
  FileSize <- MCFileSize
  Positions <- MCPositions
  Histories <- MCHistories
  MaxTurns = 2
  Name = {1, 2}
  NoName = 0
  Gtid = {g}
  NoGtid = NoGtid
  MaxPosition = 6
  MaxLength = 3
  MaxFiles = 3
  u1 = u1
  u2 = u2
  none = none
  t1 = t1
  Uuid <- MCUuid
  Tag <- MCTag
  Tsid <- MCTsid
  UuidBytes <- MCUuidBytes
  TagBytes <- MCTagBytes
  MaxGno = 3
  MaxMembers = 4
INVARIANTS
  FollowsGrammar
  PositionFollowsWrittenEvents
  BoundaryMeansWholeTransaction
  EventsAreReadable
  GtidEventIsExact
  
  ChecksumsComeAndGo
  CommitOrderIsKept
  ComparisonsAreExact
  TextIsExact
  BytesAreExact
PROPERTIES
  ImplementsSet
CHECK_DEADLOCK FALSE
