------------------------ MODULE StorageArchiveProofs -------------------------
(****************************************************************************)
(* The storage implements the archive it promises, for every set of names,  *)
(* events and gtids, every checkpoint setting, either backend, and any      *)
(* number of kills, as long as no backend call fails; and then no           *)
(* transaction is stored twice.                                             *)
(****************************************************************************)
EXTENDS StorageContentProofs

\* The state of the archive that the objects and the buffer stand for.
Log == [n \in BinlogName |-> Committed(n)]

File == IF index = << >> THEN NoName ELSE index[Len(index)]

\* A step of the storage, as the archive sees it: the latest events in the buffer
\* are lost, or none is; an event is accepted; a file is created; the transactions
\* that are ready join the latest file.
LosesEvents ==
  /\ Log' = Log /\ File' = File
  /\ \E k \in 0 .. Len(event_buffer) : event_buffer' = SubSeq(event_buffer, 1, k)

AcceptsEvent ==
  /\ Log' = Log /\ File' = File /\ File # NoName
  /\ pc = "ready" /\ stream # NoName
  /\ \E e \in WrittenEvent : NotKnown(e.gtid) /\ event_buffer' = Append(event_buffer, e)

CreatesFile ==
  /\ stream \in BinlogName /\ Log[stream] = << >>
  /\ Log' = [Log EXCEPT ![stream] = <<Magic>>]
  /\ File' = stream
  /\ event_buffer = << >> /\ event_buffer' = << >>

CommitsReady ==
  /\ boundary \in 1 .. Len(event_buffer) /\ event_buffer[boundary].boundary
  /\ File \in BinlogName
  /\ Log' = [Log EXCEPT ![File] = @ \o ReadyEvents]
  /\ File' = File
  /\ event_buffer' \in {Rest, << >>}

-----------------------------------------------------------------------------
(* Every step is one of these *)

\* The same files count the same events.
LEMMA SameLog ==
  ASSUME IInv, IInv', Keeps, index' = index,
         \A n \in NameSet(index) : meta'[n].size = meta[n].size
  PROVE  Log' = Log /\ File' = File
<1>1. NameSet(index)' = NameSet(index)
  BY DEF NameSet
<1>2. ASSUME NEW n \in BinlogName PROVE Committed(n)' = Committed(n)
  <2>1. CASE n \in NameSet(index)
    <3>1. SubSeq(payload'[n], 1, meta'[n].size) = SubSeq(payload[n], 1, meta[n].size)
      BY <1>1, <2>1, KeptPrefix
    <3> QED BY <1>1, <2>1, <3>1 DEF Committed
  <2>2. CASE n \notin NameSet(index)
    BY <1>1, <2>2 DEF Committed
  <2> QED BY <2>1, <2>2
<1> QED BY <1>2 DEF Log, File

LEMMA LosesNoneOrAll ==
  ASSUME IInv, Log' = Log, File' = File, event_buffer' \in {event_buffer, << >>}
  PROVE  LosesEvents
<1>1. event_buffer \in Seq(Event)
  BY BufferTypes
<1>2. /\ 0 \in 0 .. Len(event_buffer) /\ Len(event_buffer) \in 0 .. Len(event_buffer)
      /\ SubSeq(event_buffer, 1, 0) = << >>
      /\ SubSeq(event_buffer, 1, Len(event_buffer)) = event_buffer
  BY <1>1
<1> QED BY <1>2 DEF LosesEvents

LEMMA ConstructLoses ==
  ASSUME FilesOK, IInv', Keeps, Construct
  PROVE  LosesEvents
<1>1. UNCHANGED <<index, meta>> /\ pc \in Off
  BY DEF Construct, Off
<1>2. event_buffer = << >>
  BY <1>1 DEF FilesOK, ExactInv
<1>3. event_buffer' \in {event_buffer, << >>}
  BY <1>2 DEF Construct, ClearBuffers, memory, buffers
<1> QED BY <1>1, <1>3, SameLog, LosesNoneOrAll DEF FilesOK

LEMMA DestroyLoses ==
  ASSUME FilesOK, IInv', Keeps, Destroy, UNCHANGED objects
  PROVE  LosesEvents
<1>1. event_buffer' \in {event_buffer, << >>}
  BY DEF Destroy, ForgetMemory, ClearBuffers, buffers
<1> QED BY <1>1, SameLog, LosesNoneOrAll DEF FilesOK, objects

LEMMA CallArchives ==
  ASSUME FilesOK, IInv', Keeps, Call
  PROVE  LosesEvents \/ AcceptsEvent
<1>0. IInv
  BY DEF FilesOK
<1>1. CASE SetPurged
  <2>1. UNCHANGED <<index, meta, event_buffer>>
    BY <1>1 DEF SetPurged, set_purged_gtids, objects, buffers
  <2> QED BY <1>0, <2>1, SameLog, LosesNoneOrAll
<1>2. CASE Open
  <2>1. PICK name \in BinlogName :
          OpenExisting(name) \/ OpenNew(name) \/ OpenNotLatest(name)
    BY <1>2 DEF Open
  <2>2. CASE OpenExisting(name) \/ OpenNew(name)
    <3>1. UNCHANGED <<index, meta, event_buffer>>
      BY <2>2 DEF OpenExisting, OpenNew, objects, buffers
    <3> QED BY <1>0, <3>1, SameLog, LosesNoneOrAll
  <2>3. CASE OpenNotLatest(name)
    BY <2>3, DestroyLoses DEF OpenNotLatest
  <2> QED BY <2>1, <2>2, <2>3
<1>3. CASE Write
  <2>1. PICK e \in WrittenEvent, elapsed \in BOOLEAN : NotKnown(e.gtid) /\ write_event(e, elapsed)
    BY <1>3 DEF Write
  <2>2. /\ pc = "ready" /\ stream # NoName /\ UNCHANGED <<index, meta>>
        /\ event_buffer' = Append(event_buffer, e)
    BY <2>1 DEF write_event, objects
  <2>3. File # NoName
    <3>1. stream \in NameSet(index) /\ index \in Seq(BinlogName)
      BY <1>0, <2>2 DEF IInv, TypeOK, ObjectsInv
    <3>2. index # << >>
      BY <3>1, NameSetFacts
    <3>3. index[Len(index)] \in BinlogName
      BY <3>1, <3>2
    <3> QED BY <3>2, <3>3, StorageAssumption DEF File
  <2> QED BY <1>0, <2>1, <2>2, <2>3, SameLog DEF AcceptsEvent
<1>4. CASE Close
  <2>1. UNCHANGED <<index, meta>> /\ event_buffer' \in {event_buffer, << >>}
    BY <1>4 DEF Close, close_binlog, CloseStream, objects
  <2> QED BY <1>0, <2>1, SameLog, LosesNoneOrAll
<1>5. CASE DiscardAndFlush
  <2>1. UNCHANGED <<index, meta>> /\ event_buffer' = SubSeq(event_buffer, 1, boundary)
    BY <1>5 DEF DiscardAndFlush, objects
  <2>2. boundary \in 0 .. Len(event_buffer)
    BY <1>0, BufferTypes
  <2> QED BY <1>0, <2>1, <2>2, SameLog DEF LosesEvents
<1>6. CASE Stop
  BY <1>6, DestroyLoses DEF Stop
<1> QED BY <1>1, <1>2, <1>3, <1>4, <1>5, <1>6 DEF Call

LEMMA OpenIndexCreates ==
  ASSUME FilesOK, IInv', Keeps, OpenIndex
  PROVE  CreatesFile
<1>1. /\ pc = "open_index" /\ index' = records /\ UNCHANGED <<payload, meta, event_buffer>>
  BY DEF OpenIndex
<1>2. /\ IInv /\ stream \in BinlogName /\ stream \notin NameSet(index)
      /\ records = Append(index, stream) /\ index \in Seq(BinlogName)
      /\ event_buffer = << >>
  BY <1>1
  DEF FilesOK, FilesInv, IInv, TypeOK, StreamInv, ObjectsInv, BackendCalls, Opening
<1>3. /\ NameSet(index)' = NameSet(index) \cup {stream}
      /\ index'[Len(index')] = stream /\ index' # << >>
  BY <1>1, <1>2, NameSetFacts DEF NameSet
<1>4. payload[stream] = <<Magic>> /\ meta[stream].size = 1
  BY <1>1 DEF FilesOK, ExactInv, Opening, Opened
<1>5. ASSUME NEW n \in BinlogName, n = stream
      PROVE  Committed(n) = << >> /\ Committed(n)' = <<Magic>>
  <2>1. payload[n] \in Seq(Event) /\ Len(payload[n]) = 1
    BY <1>2, <1>4, <1>5, SizesAreNumbers
  <2>2. SubSeq(payload[n], 1, 1) = payload[n]
    <3>1. SubSeq(payload[n], 1, Len(payload[n])) = payload[n]
      BY <2>1, CutFacts
    <3> QED BY <2>1, <3>1
  <2>3. Committed(n)' = SubSeq(payload[n], 1, 1)
    BY <1>1, <1>3, <1>4, <1>5 DEF Committed
  <2> QED BY <1>2, <1>4, <1>5, <2>2, <2>3 DEF Committed
<1>6. ASSUME NEW n \in BinlogName \ {stream} PROVE Committed(n)' = Committed(n)
  BY <1>1, <1>3 DEF Committed
<1>7. Log' = [Log EXCEPT ![stream] = <<Magic>>]
  <2>1. \A n \in BinlogName : Committed(n)' = IF n = stream THEN <<Magic>> ELSE Committed(n)
    BY <1>5, <1>6
  <2> QED BY <1>2, <2>1, Zenon DEF Log
<1>8. File' = stream /\ Log[stream] = << >>
  BY <1>2, <1>3, <1>5 DEF File, Log
<1> QED BY <1>1, <1>2, <1>7, <1>8 DEF CreatesFile

LEMMA FlushMetaCommits ==
  ASSUME FilesOK, IInv', Keeps, FlushMeta, failures = 0
  PROVE  CommitsReady
<1>1. /\ pc = "flush_meta" /\ SaveBinlogMetadata /\ UNCHANGED <<index, payload>>
      /\ event_buffer' \in {Rest, << >>}
  BY DEF FlushMeta, CloseStream, ForgetMemory, ClearBuffers, Rest
<1>2. /\ IInv /\ TypeOK /\ stream \in BinlogName /\ stream \in NameSet(index)
      /\ index # << >> /\ stream = index[Len(index)] /\ boundary # 0
      /\ Flushed
  BY <1>1, FlushingFacts DEF FilesOK, IInv, ExactInv, Retried, Flushing
<1>3. meta'[stream] = current /\ \A n \in BinlogName \ {stream} : meta'[n] = meta[n]
  BY <1>1, <1>2, SaveFacts
<1>4. NameSet(index)' = NameSet(index)
  BY <1>1 DEF NameSet
<1>5. ASSUME NEW n \in BinlogName, n = stream
      PROVE  Committed(n)' = Committed(n) \o ReadyEvents
  <2>1. /\ Committed(n) = SubSeq(payload[n], 1, meta[n].size)
        /\ Committed(n)' = SubSeq(payload[n], 1, current.size)
    BY <1>1, <1>2, <1>3, <1>4, <1>5 DEF Committed
  <2>2. payload[n] \in Seq(Event)
    BY <1>2, SizesAreNumbers
  <2>3. SubSeq(payload[n], 1, Len(payload[n])) = payload[n]
    BY <2>2, CutFacts
  <2>4. /\ current.size = Len(payload[n])
        /\ payload[n] = SubSeq(payload[n], 1, meta[n].size) \o ReadyEvents
    BY <1>2, <1>5 DEF Flushed
  <2> QED BY <2>1, <2>3, <2>4
<1>6. ASSUME NEW n \in BinlogName \ {stream} PROVE Committed(n)' = Committed(n)
  BY <1>1, <1>3, <1>4 DEF Committed
<1>7. File = stream /\ File' = File
  BY <1>1, <1>2 DEF File
<1>8. Log' = [Log EXCEPT ![stream] = @ \o ReadyEvents]
  <2>1. \A n \in BinlogName :
          Committed(n)' = IF n = stream THEN Committed(n) \o ReadyEvents ELSE Committed(n)
    BY <1>5, <1>6
  <2> QED BY <1>2, <2>1, Zenon DEF Log
<1>9. boundary \in 1 .. Len(event_buffer) /\ event_buffer[boundary].boundary
  <2>1. boundary \in 0 .. Len(event_buffer) /\ Len(event_buffer) \in Nat
    BY <1>2, BufferTypes
  <2>2. event_buffer[boundary].boundary
    BY <1>2 DEF IInv, BufferInv
  <2> QED BY <1>2, <2>1, <2>2
<1> QED BY <1>1, <1>2, <1>7, <1>8, <1>9 DEF CommitsReady

LEMMA BackendLoses ==
  ASSUME FilesOK, IInv', Keeps, OpenMagic \/ OpenMeta \/ FlushWrite \/ Kill
  PROVE  LosesEvents
<1>0. IInv /\ TypeOK
  BY DEF FilesOK, IInv
<1>1. CASE OpenMagic \/ FlushWrite
  <2>1. UNCHANGED <<index, meta, event_buffer>>
    BY <1>1 DEF OpenMagic, FlushWrite, buffers
  <2> QED BY <1>0, <2>1, SameLog, LosesNoneOrAll
<1>2. CASE OpenMeta
  <2>1. pc = "open_meta" /\ SaveBinlogMetadata /\ UNCHANGED <<index, event_buffer>>
    BY <1>2 DEF OpenMeta, memory, buffers
  <2>2. stream \in BinlogName /\ stream \notin NameSet(index)
    BY <1>0, <2>1 DEF IInv, TypeOK, StreamInv, ObjectsInv, BackendCalls
  <2>3. \A n \in NameSet(index) : meta'[n] = meta[n]
    BY <1>0, <2>1, <2>2, SaveFacts, SizesAreNumbers
  <2> QED BY <1>0, <2>1, <2>3, SameLog, LosesNoneOrAll
<1>3. CASE Kill
  <2>1. UNCHANGED <<index, meta>> /\ event_buffer' = << >>
    BY <1>3 DEF Kill, ForgetMemory, ClearBuffers
  <2> QED BY <1>0, <2>1, SameLog, LosesNoneOrAll
<1> QED BY <1>1, <1>2, <1>3

LEMMA StepsOfTheArchive ==
  ASSUME FilesOK, Next, MaxFailures = 0
  PROVE  LosesEvents \/ AcceptsEvent \/ CreatesFile \/ CommitsReady
<1>1. IInv' /\ Keeps
  BY NextExact DEF FilesOK
<1>2. failures = 0
  BY DEF FilesOK, IInv, TypeOK
<1>3. ~WriteFails /\ ~PutFails
  BY <1>2 DEF WriteFails, PutFails, Fails
<1> QED BY <1>1, <1>2, <1>3, ConstructLoses, CallArchives, BackendLoses,
           OpenIndexCreates, FlushMetaCommits
        DEF Next, BackendStep

-----------------------------------------------------------------------------
(* The refinement *)

LEMMA LosesRefines ==
  ASSUME IInv, LosesEvents
  PROVE  Archive!Next \/ UNCHANGED Archive!archive
<1>1. PICK k \in 0 .. Len(event_buffer) : event_buffer' = SubSeq(event_buffer, 1, k)
  BY DEF LosesEvents
<1>2. event_buffer \in Seq(Event) /\ Len(event_buffer) \in Nat
  BY BufferTypes
<1>3. CASE k = Len(event_buffer)
  <2>1. event_buffer' = event_buffer
    BY <1>1, <1>2, <1>3
  <2> QED BY <2>1 DEF LosesEvents, Archive!archive, Log, File
<1>4. CASE k # Len(event_buffer)
  <2>1. k \in 0 .. Len(event_buffer) - 1
    BY <1>2, <1>4
  <2>2. Archive!Lose(k)
    BY <1>1 DEF LosesEvents, Archive!Lose, Log, File
  <2> QED BY <2>1, <2>2 DEF Archive!Next
<1> QED BY <1>3, <1>4

LEMMA AcceptsRefines ==
  ASSUME AcceptsEvent
  PROVE  Archive!Next
<1>1. PICK e \in WrittenEvent : event_buffer' = Append(event_buffer, e)
  BY DEF AcceptsEvent
<1>2. e \in Event
  BY StorageAssumption
<1>3. Archive!Accept(e)
  BY <1>1 DEF AcceptsEvent, Archive!Accept, Log, File
<1> QED BY <1>2, <1>3 DEF Archive!Next

LEMMA CreatesRefines ==
  ASSUME CreatesFile
  PROVE  Archive!Next
<1>1. Archive!Create(stream)
  BY DEF CreatesFile, Archive!Create, Log, File
<1>2. stream \in BinlogName
  BY DEF CreatesFile
<1> QED BY <1>1, <1>2 DEF Archive!Next

LEMMA CommitsRefines ==
  ASSUME CommitsReady
  PROVE  Archive!Next
<1>1. Archive!Commit(boundary)
  BY DEF CommitsReady, Archive!Commit, Log, File, ReadyEvents, Rest
<1>2. boundary \in 1 .. Len(event_buffer)
  BY DEF CommitsReady
<1> QED BY <1>1, <1>2 DEF Archive!Next

\* As long as no backend call fails the storage implements the archive, whatever
\* is killed and whenever: files are created with their magic signature, only the
\* latest one grows, by whole transactions in the order in which they were
\* accepted, and no step, no kill and no restart takes back what it holds.
THEOREM StorageImplementsArchive ==
  ASSUME MaxFailures = 0
  PROVE  Spec => ImplementsArchive
<1>1. Init => Archive!Init
  <2> SUFFICES ASSUME Init PROVE Archive!Init
    OBVIOUS
  <2>1. index = << >> /\ NameSet(index) = {} /\ event_buffer = << >>
    BY DEF Init, NameSet
  <2> QED BY <2>1 DEF Archive!Init, Committed
<1>2. FilesOK /\ [Next]_vars => Archive!Next \/ UNCHANGED Archive!archive
  <2> SUFFICES ASSUME FilesOK, [Next]_vars
               PROVE  Archive!Next \/ UNCHANGED Archive!archive
    OBVIOUS
  <2>1. CASE Next
    <3>1. IInv
      BY DEF FilesOK
    <3> QED BY <2>1, <3>1, StepsOfTheArchive, LosesRefines, AcceptsRefines, CreatesRefines,
               CommitsRefines
  <2>2. CASE UNCHANGED vars
    BY <2>2 DEF vars, objects, memory, buffers, Archive!archive, Committed, NameSet
  <2> QED BY <2>1, <2>2
<1> QED BY <1>1, <1>2, FilesInvariantHolds, PTL DEF Spec, ImplementsArchive, Archive!Spec

-----------------------------------------------------------------------------
(* No transaction is stored twice *)

\* Two events end the same transaction.
SameTransaction(d, e) ==
  d.boundary /\ e.boundary /\ d.gtid = e.gtid /\ d.gtid # NoGtid

\* The transactions of the files, those of the buffer, and the two together.
DistinctFiles(log) ==
  \A m, n \in BinlogName : \A i \in DOMAIN log[m], j \in DOMAIN log[n] :
    SameTransaction(log[m][i], log[n][j]) => m = n /\ i = j

DistinctEvents(s) ==
  \A i, j \in DOMAIN s : SameTransaction(s[i], s[j]) => i = j

NoneStored(log, s) ==
  \A n \in BinlogName : \A i \in DOMAIN log[n], j \in DOMAIN s :
    ~SameTransaction(log[n][i], s[j])

UniqueInv ==
  DistinctFiles(Log) /\ DistinctEvents(event_buffer) /\ NoneStored(Log, event_buffer)

LEMMA LogType ==
  ASSUME IInv
  PROVE  /\ Log \in [BinlogName -> Seq(Event)]
         /\ \A n \in BinlogName : Log[n] = Committed(n)
<1>1. ASSUME NEW n \in BinlogName PROVE Committed(n) \in Seq(Event)
  <2>1. CASE n \in NameSet(index)
    <3>1. /\ payload[n] \in Seq(Event) /\ meta[n].size \in Nat
          /\ meta[n].size <= Len(payload[n])
      BY <2>1, SizesAreNumbers DEF IInv, SizesInv
    <3>2. meta[n].size \in 0 .. Len(payload[n])
      BY <3>1
    <3> QED BY <2>1, <3>1, <3>2, CutFacts DEF Committed
  <2>2. CASE n \notin NameSet(index)
    BY <2>2 DEF Committed
  <2> QED BY <2>1, <2>2
<1> QED BY <1>1 DEF Log

\* The transactions of the buffer up to k join a file.
LEMMA CommittedOnce ==
  ASSUME NEW log \in [BinlogName -> Seq(Event)], NEW f \in BinlogName,
         NEW s \in Seq(Event), NEW k \in 0 .. Len(s),
         DistinctFiles(log), DistinctEvents(s), NoneStored(log, s)
  PROVE  DistinctFiles([log EXCEPT ![f] = @ \o SubSeq(s, 1, k)])
<1> DEFINE d == SubSeq(s, 1, k)
           new == [log EXCEPT ![f] = @ \o d]
<1>1. /\ d \in Seq(Event) /\ Len(d) = k /\ DOMAIN s = 1 .. Len(s) /\ k \in Nat
      /\ \A i \in 1 .. k : d[i] = s[i] /\ i \in DOMAIN s
  OBVIOUS
<1>2. /\ \A m \in BinlogName \ {f} : new[m] = log[m]
      /\ new[f] = log[f] \o d
      /\ log[f] \in Seq(Event) /\ Len(log[f]) \in Nat
  OBVIOUS
<1> HIDE DEF d, new
<1>3. /\ DOMAIN log[f] = 1 .. Len(log[f])
      /\ DOMAIN (log[f] \o d) = 1 .. Len(log[f]) + Len(d)
      /\ \A i \in 1 .. Len(log[f]) + Len(d) :
           \/ i \in 1 .. Len(log[f]) /\ (log[f] \o d)[i] = log[f][i]
           \/ i - Len(log[f]) \in 1 .. Len(d) /\ (log[f] \o d)[i] = d[i - Len(log[f])]
  BY <1>1, <1>2, ConcatElements
<1> DEFINE Old(m, i) == i \in DOMAIN log[m] /\ new[m][i] = log[m][i]
           New(m, i) == /\ m = f /\ i \in Nat /\ i - Len(log[f]) \in DOMAIN s
                        /\ new[m][i] = s[i - Len(log[f])]
<1>4. ASSUME NEW m \in BinlogName, NEW i \in DOMAIN new[m] PROVE Old(m, i) \/ New(m, i)
  <2>1. CASE m # f
    BY <1>2, <2>1
  <2>2. CASE m = f
    <3>1. i \in 1 .. Len(log[f]) + Len(d)
      BY <1>2, <1>3, <2>2
    <3>2. CASE i \in 1 .. Len(log[f]) /\ (log[f] \o d)[i] = log[f][i]
      BY <1>2, <1>3, <2>2, <3>2
    <3>3. CASE i - Len(log[f]) \in 1 .. Len(d) /\ (log[f] \o d)[i] = d[i - Len(log[f])]
      <4>1. d[i - Len(log[f])] = s[i - Len(log[f])] /\ i - Len(log[f]) \in DOMAIN s
        BY <1>1, <3>3
      <4>2. new[m][i] = (log[f] \o d)[i]
        BY <1>2, <2>2
      <4>3. i \in Nat
        BY <1>1, <1>2, <3>1
      <4> QED BY <2>2, <3>3, <4>1, <4>2, <4>3
    <3> QED BY <1>3, <3>1, <3>2, <3>3
  <2> QED BY <2>1, <2>2
<1>5. ASSUME NEW m \in BinlogName, NEW n \in BinlogName,
             NEW i \in DOMAIN new[m], NEW j \in DOMAIN new[n],
             SameTransaction(new[m][i], new[n][j])
      PROVE  m = n /\ i = j
  <2>1. SameTransaction(new[n][j], new[m][i])
    BY <1>5 DEF SameTransaction
  <2>2. CASE Old(m, i) /\ Old(n, j)
    BY <1>5, <2>2 DEF DistinctFiles
  <2>3. CASE Old(m, i) /\ New(n, j)
    BY <1>5, <2>3 DEF NoneStored
  <2>4. CASE New(m, i) /\ Old(n, j)
    BY <2>1, <2>4 DEF NoneStored
  <2>5. CASE New(m, i) /\ New(n, j)
    <3>1. i - Len(log[f]) = j - Len(log[f])
      BY <1>5, <2>5 DEF DistinctEvents
    <3>2. ASSUME NEW a \in Nat, NEW b \in Nat, NEW c \in Nat, a - c = b - c PROVE a = b
      BY <3>2
    <3>3. i \in Nat /\ j \in Nat /\ Len(log[f]) \in Nat /\ m = n
      BY <1>1, <1>2, <2>5
    <3>4. i = j
      BY <3>1, <3>2, <3>3
    <3> QED BY <3>3, <3>4
  <2> QED BY <1>4, <2>2, <2>3, <2>4, <2>5
<1>6. DistinctFiles(new)
  BY <1>5 DEF DistinctFiles
<1> QED BY <1>6 DEF new, d

\* Events that end no transaction are no transaction's.
LEMMA NoBoundaries ==
  ASSUME NEW log, NEW s, \A i \in DOMAIN s : ~s[i].boundary
  PROVE  DistinctEvents(s) /\ NoneStored(log, s)
BY DEF DistinctEvents, NoneStored, SameTransaction

\* The gtids of the buffer are those write_event has noted.
LEMMA BufferedGtids ==
  ASSUME FilesOK, ContentInv, ReplicationMode = "gtid", NEW j \in DOMAIN event_buffer,
         event_buffer[j].boundary, event_buffer[j].gtid # NoGtid
  PROVE  event_buffer[j].gtid \in gtids_in_event_buffer
<1>1. /\ event_buffer \in Seq(Event) /\ boundary \in 0 .. Len(event_buffer)
      /\ Len(event_buffer) \in Nat
  BY BufferTypes DEF FilesOK
<1>2. j \in 1 .. Len(event_buffer)
  BY <1>1
<1>3. CASE j \in 1 .. boundary
  <2>1. j \in DOMAIN ReadyEvents /\ ReadyEvents[j] = event_buffer[j]
    BY <1>1, <1>3 DEF ReadyEvents
  <2>2. event_buffer[j].gtid \in CompletedGtids(ReadyEvents)
    BY <2>1, Zenon DEF CompletedGtids
  <2> QED BY <2>2 DEF ContentInv, BufInv
<1>4. CASE j \notin 1 .. boundary
  <2>1. j - boundary \in DOMAIN Rest /\ Rest[j - boundary] = event_buffer[j]
    BY <1>1, <1>2, <1>4 DEF Rest
  <2> QED BY <2>1 DEF ContentInv, BufInv
<1> QED BY <1>3, <1>4

\* The gtids of the files are those the storage reports.
LEMMA StoredGtids ==
  ASSUME FilesOK, ContentInv, ChainInv, ReplicationMode = "gtid", pc = "ready",
         NEW n \in BinlogName, NEW i \in DOMAIN Log[n],
         Log[n][i].boundary, Log[n][i].gtid # NoGtid
  PROVE  Log[n][i].gtid \in get_gtids
<1>1. IInv /\ Settled /\ index = records
  BY ReadyIsSettled DEF FilesOK
<1>2. Log[n] = Committed(n)
  BY <1>1, LogType
<1>3. n \in NameSet(index)
  BY <1>2 DEF Committed
<1>4. Log[n] = payload[n]
  <2>1. payload[n] \in Seq(Event) /\ meta[n].size = Len(payload[n])
    BY <1>1, <1>3, SizesAreNumbers DEF Settled, Whole
  <2>2. SubSeq(payload[n], 1, Len(payload[n])) = payload[n]
    BY <2>1, CutFacts
  <2> QED BY <1>2, <1>3, <2>1, <2>2 DEF Committed
<1>5. Log[n][i].gtid \in CompletedGtids(payload[n])
  BY <1>4, Zenon DEF CompletedGtids
<1>6. records # << >>
  BY <1>1, <1>3 DEF NameSet
<1>7. get_gtids = meta[index[1]].previous
                    \cup UNION {CompletedGtids(payload[l]) : l \in NameSet(index)}
  BY <1>6, ReportedGtids DEF ResumeSetIsExact, is_empty
<1> QED BY <1>3, <1>5, <1>7

LEMMA LosesUnique ==
  ASSUME IInv, UniqueInv, LosesEvents
  PROVE  UniqueInv'
<1>1. PICK k \in 0 .. Len(event_buffer) : event_buffer' = SubSeq(event_buffer, 1, k)
  BY DEF LosesEvents
<1>2. Log' = Log
  BY DEF LosesEvents
<1>3. event_buffer \in Seq(Event)
  BY BufferTypes
<1>4. \A i \in DOMAIN event_buffer' : i \in DOMAIN event_buffer /\ event_buffer'[i] = event_buffer[i]
  BY <1>1, <1>3
<1>5. DistinctFiles(Log)'
  BY <1>2 DEF UniqueInv, DistinctFiles
<1>6. DistinctEvents(event_buffer)'
  BY <1>4 DEF UniqueInv, DistinctEvents
<1>7. NoneStored(Log, event_buffer)'
  BY <1>2, <1>4 DEF UniqueInv, NoneStored
<1> QED BY <1>5, <1>6, <1>7 DEF UniqueInv

\* The server does not send again what the storage reports or has in its buffer.
LEMMA AcceptsUnique ==
  ASSUME FilesOK, ContentInv, ChainInv, ReplicationMode = "gtid", UniqueInv, AcceptsEvent
  PROVE  UniqueInv'
<1>1. PICK e \in WrittenEvent : NotKnown(e.gtid) /\ event_buffer' = Append(event_buffer, e)
  BY DEF AcceptsEvent
<1>2. Log' = Log /\ pc = "ready"
  BY DEF AcceptsEvent
<1>3. event_buffer \in Seq(Event)
  BY BufferTypes DEF FilesOK
<1>4. \A i \in DOMAIN event_buffer' :
        \/ i \in DOMAIN event_buffer /\ event_buffer'[i] = event_buffer[i]
        \/ i = Len(event_buffer) + 1 /\ event_buffer'[i] = e
  <2>1. ASSUME NEW s \in Seq(Event), NEW d
        PROVE  \A i \in DOMAIN Append(s, d) :
                 \/ i \in DOMAIN s /\ Append(s, d)[i] = s[i]
                 \/ i = Len(s) + 1 /\ Append(s, d)[i] = d
    OBVIOUS
  <2> QED BY <1>1, <1>3, <2>1, Zenon
<1>5. ASSUME NEW j \in DOMAIN event_buffer
      PROVE  ~SameTransaction(event_buffer[j], e) /\ ~SameTransaction(e, event_buffer[j])
  <2>1. SUFFICES ASSUME event_buffer[j].boundary, event_buffer[j].gtid = e.gtid,
                        e.gtid # NoGtid
                 PROVE  FALSE
    BY DEF SameTransaction
  <2>2. event_buffer[j].gtid \in gtids_in_event_buffer
    BY <2>1, BufferedGtids
  <2> QED BY <1>1, <2>1, <2>2 DEF NotKnown
<1>6. ASSUME NEW n \in BinlogName, NEW i \in DOMAIN Log[n]
      PROVE  ~SameTransaction(Log[n][i], e)
  <2>1. SUFFICES ASSUME Log[n][i].boundary, Log[n][i].gtid = e.gtid, e.gtid # NoGtid
                 PROVE  FALSE
    BY DEF SameTransaction
  <2>2. Log[n][i].gtid \in get_gtids
    BY <1>2, <2>1, StoredGtids
  <2> QED BY <1>1, <2>1, <2>2 DEF NotKnown
<1>7. DistinctFiles(Log)'
  BY <1>2 DEF UniqueInv, DistinctFiles
<1>8. DistinctEvents(event_buffer)'
  BY <1>4, <1>5 DEF UniqueInv, DistinctEvents
<1>9. NoneStored(Log, event_buffer)'
  BY <1>2, <1>4, <1>6 DEF UniqueInv, NoneStored
<1> QED BY <1>7, <1>8, <1>9 DEF UniqueInv

LEMMA CreatesUnique ==
  ASSUME IInv, UniqueInv, CreatesFile
  PROVE  UniqueInv'
<1>1. /\ stream \in BinlogName /\ Log' = [Log EXCEPT ![stream] = <<Magic>>]
      /\ event_buffer' = << >>
  BY DEF CreatesFile
<1>2. ASSUME NEW n \in BinlogName, NEW i \in DOMAIN Log'[n]
      PROVE  \/ i \in DOMAIN Log[n] /\ Log'[n][i] = Log[n][i]
             \/ Log'[n][i] = Magic
  <2>1. CASE n = stream
    <3>1. Log'[n] = <<Magic>>
      BY <1>1, <2>1, LogType
    <3> QED BY <3>1
  <2>2. CASE n # stream
    BY <1>1, <2>2, LogType
  <2> QED BY <2>1, <2>2
<1>3. \A e : ~SameTransaction(Magic, e) /\ ~SameTransaction(e, Magic)
  BY DEF SameTransaction, Magic
<1>4. DistinctFiles(Log)'
  <2> SUFFICES ASSUME NEW m \in BinlogName, NEW n \in BinlogName,
                      NEW i \in DOMAIN Log'[m], NEW j \in DOMAIN Log'[n],
                      SameTransaction(Log'[m][i], Log'[n][j])
               PROVE  m = n /\ i = j
    BY DEF DistinctFiles
  <2>1. i \in DOMAIN Log[m] /\ Log'[m][i] = Log[m][i]
    BY <1>2, <1>3
  <2>2. j \in DOMAIN Log[n] /\ Log'[n][j] = Log[n][j]
    BY <1>2, <1>3
  <2> QED BY <2>1, <2>2 DEF UniqueInv, DistinctFiles
<1>5. DistinctEvents(event_buffer)' /\ NoneStored(Log, event_buffer)'
  BY <1>1, NoBoundaries DEF DistinctEvents, NoneStored
<1> QED BY <1>4, <1>5 DEF UniqueInv

LEMMA CommitsUnique ==
  ASSUME IInv, ContentInv, UniqueInv, CommitsReady
  PROVE  UniqueInv'
<1>1. /\ File \in BinlogName /\ boundary \in 0 .. Len(event_buffer)
      /\ Log' = [Log EXCEPT ![File] = @ \o SubSeq(event_buffer, 1, boundary)]
      /\ event_buffer' \in {Rest, << >>}
  BY BufferTypes DEF CommitsReady, ReadyEvents
<1>2. event_buffer \in Seq(Event) /\ Log \in [BinlogName -> Seq(Event)]
  BY BufferTypes, LogType
<1>3. DistinctFiles([Log EXCEPT ![File] = @ \o SubSeq(event_buffer, 1, boundary)])
  BY <1>1, <1>2, CommittedOnce DEF UniqueInv
<1>4. DistinctFiles(Log)'
  BY <1>1, <1>3 DEF DistinctFiles
<1>5. \A i \in DOMAIN event_buffer' : ~event_buffer'[i].boundary
  BY <1>1 DEF ContentInv, BufInv
<1>6. DistinctEvents(event_buffer)' /\ NoneStored(Log, event_buffer)'
  BY <1>5 DEF DistinctEvents, NoneStored, SameTransaction
<1> QED BY <1>4, <1>6 DEF UniqueInv

LEMMA NextUnique ==
  ASSUME FilesOK, ContentInv, ChainInv, UniqueInv, [Next]_vars,
         MaxFailures = 0, ReplicationMode = "gtid"
  PROVE  UniqueInv'
<1>1. IInv
  BY DEF FilesOK
<1>2. CASE Next
  BY <1>1, <1>2, StepsOfTheArchive, LosesUnique, AcceptsUnique, CreatesUnique, CommitsUnique
<1>3. CASE UNCHANGED vars
  <2>1. Log' = Log /\ event_buffer' = event_buffer
    BY <1>3 DEF vars, objects, memory, buffers, Log, Committed, NameSet
  <2> QED BY <2>1 DEF UniqueInv, DistinctFiles, DistinctEvents, NoneStored
<1> QED BY <1>2, <1>3

LEMMA UniqueIsStoredOnce ==
  ASSUME IInv, UniqueInv
  PROVE  NoTransactionStoredTwice
<1> SUFFICES ASSUME NEW m \in NameSet(index), NEW n \in NameSet(index),
                    NEW i \in DOMAIN Committed(m), NEW j \in DOMAIN Committed(n),
                    SameTransaction(Committed(m)[i], Committed(n)[j])
             PROVE  m = n /\ i = j
  BY DEF NoTransactionStoredTwice, SameTransaction
<1>1. m \in BinlogName /\ n \in BinlogName
  BY SizesAreNumbers
<1>2. Log[m] = Committed(m) /\ Log[n] = Committed(n)
  BY <1>1, LogType
<1> QED BY <1>1, <1>2 DEF UniqueInv, DistinctFiles

\* In GTID mode, and as long as no backend call fails, no transaction is in the
\* storage twice, whatever is killed, discarded and received again: what is lost
\* with the buffer is not reported as stored, and what is stored is.
THEOREM TransactionsAreStoredOnce ==
  ASSUME MaxFailures = 0, ReplicationMode = "gtid"
  PROVE  Spec => []NoTransactionStoredTwice
<1>1. Init => UniqueInv
  <2> SUFFICES ASSUME Init PROVE UniqueInv
    OBVIOUS
  <2>1. NameSet(index) = {} /\ event_buffer = << >>
    BY DEF Init, NameSet
  <2>2. \A n \in BinlogName : Log[n] = << >>
    BY <2>1 DEF Log, Committed
  <2> QED BY <2>1, <2>2 DEF UniqueInv, DistinctFiles, DistinctEvents, NoneStored
<1>2. FilesOK /\ ContentInv /\ ChainInv /\ UniqueInv /\ [Next]_vars => UniqueInv'
  BY NextUnique
<1>3. FilesOK /\ UniqueInv => NoTransactionStoredTwice
  BY UniqueIsStoredOnce DEF FilesOK
<1> QED BY <1>1, <1>2, <1>3, ContentHolds, ChainHolds, PTL DEF Spec

=============================================================================
