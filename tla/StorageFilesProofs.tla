------------------------- MODULE StorageFilesProofs --------------------------
(****************************************************************************)
(* Theorems about the files of the storage, for every set of names, events  *)
(* and gtids, every checkpoint setting, either backend, and any number of   *)
(* kills and of failing backend calls: what is committed to a file stays,   *)
(* and between operations the objects agree with each other.                *)
(****************************************************************************)
EXTENDS StorageProofs

Distinct(s) == \A i, j \in DOMAIN s : s[i] = s[j] => i = j

\* What the streaming process knows of the files it has committed: no name comes
\* twice, the record of the latest file is ahead of its metadata object, and the
\* temporary file behind an S3 stream begins with what is committed.
FilesInv ==
  /\ Distinct(index) /\ Distinct(records)
  /\ pc \in {"open_meta", "open_index"} => records = Append(index, stream)
  /\ pc \in {"ready"} \cup Flushing /\ records # << >> =>
       meta[records[Len(records)]].size <= current.size
  /\ pc = "open_index" => meta[stream] = current
  /\ Backend = "s3" =>
       /\ pc \in {"open_meta", "open_index", "flush_meta"} => tmp = payload[stream]
       /\ pc \in {"ready", "flush_write"} /\ stream # NoName =>
            \A i \in 1 .. meta[stream].size : tmp[i] = payload[stream][i]

\* A step of the streaming process: the index keeps its names and may get one
\* more, and what was committed to a file stays at its place.
Keeps ==
  /\ \/ index' = index
     \/ \E n \in BinlogName \ NameSet(index) : index' = Append(index, n)
  /\ \A n \in NameSet(index) :
       /\ meta[n].size <= meta'[n].size
       /\ \A i \in 1 .. meta[n].size : payload'[n][i] = payload[n][i]

-----------------------------------------------------------------------------
(* Facts about sequences *)

\* A sequence without repetitions stays one when a new name is appended.
LEMMA DistinctAppend ==
  ASSUME NEW s \in Seq(BinlogName), NEW n \in BinlogName \ NameSet(s), Distinct(s)
  PROVE  Distinct(Append(s, n))
<1>1. /\ DOMAIN Append(s, n) = 1 .. Len(s) + 1
      /\ DOMAIN s = 1 .. Len(s)
      /\ Append(s, n)[Len(s) + 1] = n
      /\ \A i \in 1 .. Len(s) : Append(s, n)[i] = s[i] /\ s[i] # n
      /\ Len(s) \in Nat
  BY DEF NameSet
<1> QED BY <1>1 DEF Distinct

-----------------------------------------------------------------------------
(* The streaming process keeps what is committed *)

LEMMA SizesAreNumbers ==
  ASSUME IInv
  PROVE  /\ NameSet(index) \subseteq BinlogName
         /\ \A n \in BinlogName : meta[n].size \in Nat /\ payload[n] \in Seq(Event)
         /\ current.size \in Nat /\ tmp \in Seq(Event)
         /\ records \in Seq(BinlogName) /\ index \in Seq(BinlogName)
BY NameSetFacts DEF IInv, TypeOK, Metadata

LEMMA SameObjectsKeep ==
  ASSUME IInv, UNCHANGED <<index, payload, meta>>
  PROVE  Keeps
BY SizesAreNumbers DEF Keeps

\* A step that writes to the payload of the open file alone.
LEMMA PayloadKeeps ==
  ASSUME IInv, UNCHANGED <<index, meta>>,
         \A n \in BinlogName \ {stream} : payload'[n] = payload[n],
         stream \in NameSet(index) =>
           \A i \in 1 .. meta[stream].size : payload'[stream][i] = payload[stream][i]
  PROVE  Keeps
<1>1. \A n \in NameSet(index) : \A i \in 1 .. meta[n].size : payload'[n][i] = payload[n][i]
  BY SizesAreNumbers
<1>2. \A n \in NameSet(index) : meta[n].size <= meta'[n].size
  BY SizesAreNumbers
<1> QED BY <1>1, <1>2 DEF Keeps

\* A process that is gone has no records; the index may have got its last name.
LEMMA ForgetKeepsFiles ==
  ASSUME FilesInv, ForgetMemory, pc' = "down",
         index' = index \/ index' = records
  PROVE  FilesInv'
<1>1. Distinct(index)' /\ Distinct(records)'
  BY DEF FilesInv, ForgetMemory, Distinct
<1> QED BY <1>1 DEF FilesInv, ForgetMemory, Flushing

\* The steps of the process that leave the objects alone, and do not end in a new
\* file.
LEMMA DestroyKeepsFiles ==
  ASSUME IInv, FilesInv, pc = "ready", Destroy, UNCHANGED objects
  PROVE  FilesInv' /\ Keeps
<1> USE DEF objects
<1>1. Keeps
  BY SameObjectsKeep
<1>2. CASE has_event_data_to_flush
  BY <1>1, <1>2 DEF Destroy, FilesInv, Flushing
<1>3. CASE ~has_event_data_to_flush
  BY <1>1, <1>3, ForgetKeepsFiles DEF Destroy
<1> QED BY <1>2, <1>3

LEMMA ConstructKeepsFiles ==
  ASSUME IInv, FilesInv, Construct
  PROVE  FilesInv' /\ Keeps
<1>1. UNCHANGED <<index, payload, meta>>
  BY DEF Construct
<1>2. Keeps
  BY <1>1, SameObjectsKeep
<1>3. CASE ~StorageIsValid
  <2>1. pc' = "refused" /\ UNCHANGED memory
    BY <1>3 DEF Construct
  <2> QED BY <1>1, <1>2, <2>1 DEF FilesInv, memory, Flushing
<1>4. CASE StorageIsValid
  <2>1. /\ pc' = "ready" /\ records' = index /\ stream' = NoName
        /\ index # << >> => current' = meta[index[Len(index)]]
    BY <1>4 DEF Construct
  <2>2. index # << >> => meta[index[Len(index)]].size \in Nat
    BY SizesAreNumbers, NameSetFacts
  <2> QED BY <1>1, <1>2, <2>1, <2>2 DEF FilesInv, Flushing
<1> QED BY <1>3, <1>4

\* The calls that need no new file and do not end the process, seen from the
\* files.
LEMMA CallSteps ==
  ASSUME SetPurged \/ Write \/ Close \/ DiscardAndFlush
  PROVE  /\ pc = "ready" /\ pc' \in {"ready", "flush_write"}
         /\ UNCHANGED <<objects, records, current>>
         /\ stream' = NoName \/ UNCHANGED <<stream, tmp>>
<1>1. CASE SetPurged
  BY <1>1 DEF SetPurged, set_purged_gtids
<1>2. CASE Write
  BY <1>2 DEF Write, write_event
<1>3. CASE Close
  BY <1>3 DEF Close, close_binlog, CloseStream
<1>4. CASE DiscardAndFlush
  BY <1>4 DEF DiscardAndFlush
<1> QED BY <1>1, <1>2, <1>3, <1>4

LEMMA CallKeepsFiles ==
  ASSUME IInv, FilesInv, SetPurged \/ Write \/ Close \/ DiscardAndFlush \/ Stop
  PROVE  FilesInv' /\ Keeps
<1>1. CASE Stop
  BY <1>1, DestroyKeepsFiles DEF Stop
<1>2. CASE SetPurged \/ Write \/ Close \/ DiscardAndFlush
  <2>1. /\ pc = "ready" /\ pc' \in {"ready", "flush_write"}
        /\ UNCHANGED <<index, payload, meta, records, current>>
        /\ stream' = NoName \/ UNCHANGED <<stream, tmp>>
    BY <1>2, CallSteps DEF objects
  <2>2. Keeps
    BY <2>1, SameObjectsKeep
  <2> QED BY <2>1, <2>2 DEF FilesInv, Flushing
<1> QED BY <1>1, <1>2

LEMMA OpenKeepsFiles ==
  ASSUME IInv, FilesInv, Open
  PROVE  FilesInv' /\ Keeps
<1>1. PICK name \in BinlogName :
        OpenExisting(name) \/ OpenNew(name) \/ OpenNotLatest(name)
  BY DEF Open
<1>2. CASE OpenExisting(name)
  <2>1. /\ pc = "ready" /\ pc' = "ready" /\ stream' = name /\ name \in BinlogName
        /\ Backend = "s3" => tmp' = payload[name]
        /\ UNCHANGED <<index, payload, meta, records, current>>
    BY <1>2 DEF OpenExisting, objects
  <2>2. Keeps
    BY <2>1, SameObjectsKeep
  <2> QED BY <2>1, <2>2 DEF FilesInv, Flushing
<1>3. CASE OpenNew(name)
  <2>1. /\ pc = "ready" /\ pc' = "open_magic"
        /\ UNCHANGED <<index, meta, records, current>>
        /\ payload' = payload \/ payload' = [payload EXCEPT ![name] = << >>]
    BY <1>3 DEF OpenNew
  <2>2. name \notin NameSet(index)
    BY <1>3, <2>1 DEF OpenNew, IInv, ObjectsInv
  <2>3. payload \in [BinlogName -> Seq(Event)]
    BY DEF IInv, TypeOK
  <2>4. \A n \in NameSet(index) : payload'[n] = payload[n]
    BY <2>1, <2>2, <2>3, SizesAreNumbers
  <2>5. Keeps
    BY <2>1, <2>4, SizesAreNumbers DEF Keeps
  <2> QED BY <2>1, <2>5 DEF FilesInv, Flushing
<1>4. CASE OpenNotLatest(name)
  BY <1>4, DestroyKeepsFiles DEF OpenNotLatest
<1> QED BY <1>1, <1>2, <1>3, <1>4

\* The first events of a sequence stay when another one is appended.
LEMMA AppendedPrefix ==
  ASSUME NEW s \in Seq(Event), NEW d \in Seq(Event), NEW k \in Nat, k <= Len(s)
  PROVE  \A i \in 1 .. k : (s \o d)[i] = s[i]
OBVIOUS

\* What is committed to the open file is the beginning of its payload and, on S3,
\* of the temporary file.
LEMMA CommittedPrefix ==
  ASSUME IInv, FilesInv, pc \in Flushing
  PROVE  /\ stream \in BinlogName /\ stream \in NameSet(index)
         /\ meta[stream].size \in Nat /\ meta[stream].size <= current.size
         /\ stream = records[Len(records)] /\ records # << >> /\ index = records
         /\ meta[stream].size <= Len(payload[stream]) /\ payload[stream] \in Seq(Event)
         /\ tmp \in Seq(Event)
         /\ Backend = "s3" =>
              /\ meta[stream].size <= Len(tmp)
              /\ \A i \in 1 .. meta[stream].size : tmp[i] = payload[stream][i]
<1>1. /\ stream \in BinlogName /\ stream \in NameSet(index) /\ index = records
      /\ stream = records[Len(records)] /\ records # << >>
      /\ Backend = "s3" => meta[stream].size <= Len(tmp)
  BY FlushingFacts
<1>2. /\ meta[stream].size \in Nat /\ payload[stream] \in Seq(Event) /\ tmp \in Seq(Event)
  BY <1>1, SizesAreNumbers
<1>3. meta[stream].size <= current.size
  BY <1>1 DEF FilesInv
<1>4. meta[stream].size <= Len(payload[stream])
  BY <1>1 DEF IInv, SizesInv
<1>5. stream # NoName
  BY <1>1, StorageAssumption
<1>6. Backend = "s3" => \A i \in 1 .. meta[stream].size : tmp[i] = payload[stream][i]
  BY <1>5 DEF FilesInv, Flushing
<1> QED BY <1>1, <1>2, <1>3, <1>4, <1>6

LEMMA OpenMagicKeepsFiles ==
  ASSUME IInv, FilesInv, OpenMagic
  PROVE  FilesInv' /\ Keeps
<1>1. /\ pc = "open_magic" /\ pc' = "open_meta" /\ WriteToStream(<<Magic>>)
      /\ records' = Append(records, stream) /\ UNCHANGED <<index, meta, stream>>
  BY DEF OpenMagic
<1>2. stream \in BinlogName /\ index = records /\ stream \notin NameSet(index) /\ TypeOK
  <2>1. stream \in BinlogName /\ stream \notin NameSet(index)
    BY <1>1, DataToWriteFacts
  <2> QED BY <1>1, <2>1 DEF IInv, ObjectsInv
<1>3. /\ \A n \in BinlogName \ {stream} : payload'[n] = payload[n]
      /\ Backend = "s3" => payload'[stream] = tmp'
  <2>1. <<Magic>> \in Seq(Event)
    BY EmptyTypes
  <2> QED BY <1>1, <1>2, <2>1, WriteToStreamFacts
<1>4. Keeps
  BY <1>1, <1>2, <1>3, SizesAreNumbers DEF Keeps
<1>5. Distinct(index)' /\ Distinct(records)'
  <2>1. records \in Seq(BinlogName) /\ Distinct(records) /\ Distinct(index)
    BY SizesAreNumbers DEF FilesInv
  <2>2. Distinct(Append(records, stream))
    BY <1>2, <2>1, DistinctAppend
  <2> QED BY <1>1, <2>1, <2>2 DEF Distinct
<1>6. FilesInv'
  BY <1>1, <1>2, <1>3, <1>5 DEF FilesInv, Flushing
<1> QED BY <1>4, <1>6

LEMMA OpenMetaKeepsFiles ==
  ASSUME IInv, FilesInv, OpenMeta
  PROVE  FilesInv' /\ Keeps
<1>1. /\ pc = "open_meta" /\ pc' = "open_index" /\ SaveBinlogMetadata
      /\ UNCHANGED <<index, payload, records, current, stream, tmp>>
  BY DEF OpenMeta, memory
<1>2. stream \in BinlogName /\ stream \notin NameSet(index) /\ TypeOK
  BY <1>1 DEF IInv, TypeOK, StreamInv, ObjectsInv, BackendCalls
<1>3. /\ meta'[stream] = current
      /\ \A n \in BinlogName \ {stream} : meta'[n] = meta[n]
  BY <1>1, <1>2, SaveFacts
<1>4. Keeps
  BY <1>1, <1>2, <1>3, SizesAreNumbers DEF Keeps
<1>5. FilesInv'
  BY <1>1, <1>3 DEF FilesInv, Flushing
<1> QED BY <1>4, <1>5

LEMMA OpenIndexKeepsFiles ==
  ASSUME IInv, FilesInv, OpenIndex
  PROVE  FilesInv' /\ Keeps
<1>1. /\ pc = "open_index" /\ pc' = "ready" /\ index' = records
      /\ UNCHANGED <<payload, meta, records, current, stream, tmp>>
  BY DEF OpenIndex
<1>2. /\ stream \in BinlogName \ NameSet(index) /\ stream = records[Len(records)]
      /\ records = Append(index, stream) /\ meta[stream] = current
      /\ current.size \in Nat
  <2>1. stream \in BinlogName
    BY <1>1 DEF IInv, TypeOK, StreamInv, BackendCalls
  <2> QED BY <1>1, <2>1, SizesAreNumbers, StorageAssumption DEF IInv, ObjectsInv, FilesInv
<1>3. Keeps
  BY <1>1, <1>2, SizesAreNumbers DEF Keeps
<1>4. FilesInv'
  BY <1>1, <1>2 DEF FilesInv, Flushing
<1> QED BY <1>3, <1>4

LEMMA FlushWriteKeepsFiles ==
  ASSUME IInv, FilesInv, FlushWrite
  PROVE  FilesInv' /\ Keeps
<1>1. /\ pc = "flush_write" /\ pc' = "flush_meta" /\ WriteToStream(ReadyEvents)
      /\ current' = [current EXCEPT !.size = @ + boundary,
                                    !.added = @ \cup gtids_in_event_buffer,
                                    !.ts = add_range(@, ready_ts),
                                    !.seq = ready_seq]
      /\ UNCHANGED <<index, meta, records, stream>>
  BY DEF FlushWrite
<1>2. /\ stream \in BinlogName /\ stream \in NameSet(index)
      /\ meta[stream].size \in Nat /\ meta[stream].size <= current.size
      /\ stream = records[Len(records)] /\ records # << >>
      /\ meta[stream].size <= Len(payload[stream]) /\ payload[stream] \in Seq(Event)
      /\ tmp \in Seq(Event)
      /\ Backend = "s3" =>
           /\ meta[stream].size <= Len(tmp)
           /\ \A i \in 1 .. meta[stream].size : tmp[i] = payload[stream][i]
  BY <1>1, CommittedPrefix DEF Flushing
<1>3. /\ ReadyEvents \in Seq(Event) /\ boundary \in Nat /\ TypeOK
  <2>1. boundary # 0
    BY <1>1 DEF IInv, StreamInv, Flushing
  <2> QED BY <2>1, ReadyEventsFacts DEF IInv
<1>4. /\ payload' = [payload EXCEPT ![stream] = StreamContent(ReadyEvents)]
      /\ payload'[stream] = StreamContent(ReadyEvents)
      /\ \A n \in BinlogName \ {stream} : payload'[n] = payload[n]
      /\ Backend = "s3" => payload'[stream] = tmp'
  <2>1. payload' = [payload EXCEPT ![stream] = StreamContent(ReadyEvents)]
    BY <1>1 DEF WriteToStream
  <2>2. payload \in [BinlogName -> Seq(Event)]
    BY <1>3 DEF TypeOK
  <2> QED BY <1>1, <1>2, <1>3, <2>1, <2>2, WriteToStreamFacts
<1>5. \A i \in 1 .. meta[stream].size : StreamContent(ReadyEvents)[i] = payload[stream][i]
  <2>1. CASE Backend = "s3"
    <3>1. \A i \in 1 .. meta[stream].size : (tmp \o ReadyEvents)[i] = tmp[i]
      BY <1>2, <1>3, <2>1, AppendedPrefix
    <3> QED BY <1>2, <2>1, <3>1 DEF StreamContent
  <2>2. CASE Backend # "s3"
    <3>1. \A i \in 1 .. meta[stream].size :
            (payload[stream] \o ReadyEvents)[i] = payload[stream][i]
      BY <1>2, <1>3, AppendedPrefix
    <3> QED BY <2>2, <3>1 DEF StreamContent
  <2> QED BY <2>1, <2>2
<1>6. Keeps
  BY <1>1, <1>2, <1>4, <1>5, SizesAreNumbers DEF Keeps
<1>7. current'.size = current.size + boundary /\ current.size \in Nat
  BY <1>1, <1>3 DEF TypeOK, Metadata
<1>8. FilesInv'
  BY <1>1, <1>2, <1>3, <1>4, <1>7 DEF FilesInv, Flushing
<1> QED BY <1>6, <1>8

\* Saving the metadata of a file that has been flushed commits more of it.
LEMMA SaveKeeps ==
  ASSUME IInv, FilesInv, pc = "flush_meta", SaveBinlogMetadata, UNCHANGED <<index, payload>>
  PROVE  Keeps /\ meta'[stream] = current
<1>1. /\ stream \in BinlogName /\ meta[stream].size <= current.size
      /\ meta[stream].size \in Nat
  BY CommittedPrefix DEF Flushing
<1>2. /\ meta'[stream] = current
      /\ \A n \in BinlogName \ {stream} : meta'[n] = meta[n]
  BY <1>1, SaveFacts DEF IInv
<1> QED BY <1>1, <1>2, SizesAreNumbers DEF Keeps

LEMMA FlushMetaKeepsFiles ==
  ASSUME IInv, FilesInv, FlushMeta
  PROVE  FilesInv' /\ Keeps
<1>1. pc = "flush_meta" /\ SaveBinlogMetadata /\ UNCHANGED <<index, payload>>
  BY DEF FlushMeta
<1>2. Keeps /\ meta'[stream] = current
  BY <1>1, SaveKeeps
<1>3. CASE after = "destroy"
  BY <1>1, <1>2, <1>3, ForgetKeepsFiles DEF FlushMeta
<1>4. CASE after # "destroy"
  <2>1. /\ pc' = "ready" /\ UNCHANGED <<records, current>>
        /\ stream' = NoName \/ UNCHANGED <<stream, tmp>>
    BY <1>4 DEF FlushMeta, CloseStream
  <2>2. stream = records[Len(records)] /\ current.size \in Nat
    BY <1>1, FlushingFacts DEF Flushing
  <2> QED BY <1>1, <1>2, <2>1, <2>2 DEF FilesInv, Flushing
<1> QED BY <1>3, <1>4

\* A part of the data behind the payload of the open file changes nothing that
\* is committed.
LEMMA WritePartKeeps ==
  ASSUME IInv, FilesInv, pc \in {"open_magic", "flush_write"}, WritePart,
         UNCHANGED <<index, meta>>
  PROVE  Keeps
<1>1. PICK k \in 0 .. Len(DataToWrite) :
        payload' = [payload EXCEPT ![stream] = @ \o SubSeq(DataToWrite, 1, k)]
  BY DEF WritePart
<1>2. /\ stream \in BinlogName /\ DataToWrite \in Seq(Event)
      /\ pc = "open_magic" => stream \notin NameSet(index)
      /\ payload \in [BinlogName -> Seq(Event)]
  BY DataToWriteFacts DEF IInv, TypeOK
<1> DEFINE part == SubSeq(DataToWrite, 1, k)
<1>3. part \in Seq(Event)
  BY <1>2, AppendFacts, Zenon
<1>4. /\ payload'[stream] = payload[stream] \o part
      /\ \A n \in BinlogName \ {stream} : payload'[n] = payload[n]
  BY <1>1, <1>2
<1> HIDE DEF part
<1>5. CASE pc = "open_magic"
  BY <1>2, <1>4, <1>5, PayloadKeeps
<1>6. CASE pc = "flush_write"
  <2>1. /\ meta[stream].size \in Nat /\ payload[stream] \in Seq(Event)
        /\ meta[stream].size <= Len(payload[stream])
    BY <1>6, CommittedPrefix DEF Flushing
  <2>2. \A i \in 1 .. meta[stream].size : payload'[stream][i] = payload[stream][i]
    BY <1>3, <1>4, <2>1, AppendedPrefix
  <2> QED BY <1>4, <2>2, PayloadKeeps
<1> QED BY <1>5, <1>6

LEMMA KillKeepsFiles ==
  ASSUME IInv, FilesInv, Kill
  PROVE  FilesInv' /\ Keeps
<1>1. pc' = "down" /\ ForgetMemory /\ UNCHANGED <<index, meta>>
  BY DEF Kill
<1>2. FilesInv'
  BY <1>1, ForgetKeepsFiles
<1>3. CASE Backend = "file" /\ pc \in {"open_magic", "flush_write"}
  BY <1>1, <1>2, <1>3, WritePartKeeps DEF Kill
<1>4. CASE ~(Backend = "file" /\ pc \in {"open_magic", "flush_write"})
  BY <1>1, <1>2, <1>4, SameObjectsKeep DEF Kill
<1> QED BY <1>3, <1>4

\* A failed upload leaves the object or replaces it by the temporary file, which
\* begins with what is committed.
LEMMA WriteFailsKeepsFiles ==
  ASSUME IInv, FilesInv, WriteFails
  PROVE  FilesInv' /\ Keeps
<1>1. pc \in {"open_magic", "flush_write"} /\ UNCHANGED <<index, meta>>
  BY DEF WriteFails
<1>2. CASE /\ IF Backend = "file" THEN WritePart ELSE UNCHANGED payload
           /\ pc' = "down" /\ ForgetMemory
  <2>1. FilesInv'
    BY <1>1, <1>2, ForgetKeepsFiles
  <2>2. CASE Backend = "file"
    BY <1>1, <1>2, <2>1, <2>2, WritePartKeeps
  <2>3. CASE Backend # "file"
    BY <1>1, <1>2, <2>1, <2>3, SameObjectsKeep
  <2> QED BY <2>2, <2>3
<1>3. CASE /\ Backend = "s3"
           /\ \/ UNCHANGED <<payloads, payload>>
              \/ /\ payloads' = payloads \cup {stream}
                 /\ payload' = [payload EXCEPT ![stream] = tmp \o DataToWrite]
           /\ Unwind(tmp \o DataToWrite)
  <2> DEFINE uploaded == tmp \o DataToWrite
  <2>1. /\ stream \in BinlogName /\ DataToWrite \in Seq(Event)
        /\ pc = "open_magic" => stream \notin NameSet(index)
        /\ payload \in [BinlogName -> Seq(Event)] /\ tmp \in Seq(Event)
    BY <1>1, DataToWriteFacts DEF IInv, TypeOK
  <2>2. /\ payload'[stream] \in {payload[stream], uploaded}
        /\ \A n \in BinlogName \ {stream} : payload'[n] = payload[n]
    BY <1>3, <2>1
  <2>3. Unwind(uploaded)
    BY <1>3
  <2>4. pc = "flush_write" =>
          /\ meta[stream].size \in Nat
          /\ \A i \in 1 .. meta[stream].size : uploaded[i] = payload[stream][i]
    <3> SUFFICES ASSUME pc = "flush_write"
                 PROVE  /\ meta[stream].size \in Nat
                        /\ \A i \in 1 .. meta[stream].size : uploaded[i] = payload[stream][i]
      OBVIOUS
    <3>1. /\ meta[stream].size \in Nat /\ meta[stream].size <= Len(tmp)
          /\ \A i \in 1 .. meta[stream].size : tmp[i] = payload[stream][i]
      BY <1>3, CommittedPrefix DEF Flushing
    <3>2. \A i \in 1 .. meta[stream].size : (tmp \o DataToWrite)[i] = tmp[i]
      BY <2>1, <3>1, AppendedPrefix
    <3> QED BY <3>1, <3>2
  <2> HIDE DEF uploaded
  <2>5. Keeps
    <3>1. CASE pc = "open_magic"
      BY <1>1, <2>1, <2>2, <3>1, PayloadKeeps
    <3>2. CASE pc = "flush_write"
      <4>1. \A i \in 1 .. meta[stream].size : payload'[stream][i] = payload[stream][i]
        BY <2>2, <2>4, <3>2
      <4> QED BY <1>1, <2>2, <4>1, PayloadKeeps
    <3> QED BY <1>1, <3>1, <3>2
  <2>6. CASE has_event_data_to_flush /\ after # "destroy"
    <3>1. /\ pc' = "flush_write" /\ tmp' = uploaded /\ boundary # 0
          /\ UNCHANGED <<records, current, stream>>
      BY <2>3, <2>6 DEF Unwind, has_event_data_to_flush
    <3>2. pc = "flush_write"
      BY <1>1, <3>1 DEF IInv, TypeOK, StreamInv, Opening
    <3>3. \A i \in 1 .. meta[stream].size : tmp'[i] = payload'[stream][i]
      BY <2>2, <2>4, <3>1, <3>2
    <3> QED BY <1>1, <2>5, <3>1, <3>2, <3>3 DEF FilesInv, Flushing
  <2>7. CASE ~(has_event_data_to_flush /\ after # "destroy")
    BY <1>1, <2>3, <2>5, <2>7, ForgetKeepsFiles DEF Unwind
  <2> QED BY <2>6, <2>7
<1> QED BY <1>2, <1>3 DEF WriteFails

LEMMA PutFailsKeepsFiles ==
  ASSUME IInv, FilesInv, PutFails
  PROVE  FilesInv' /\ Keeps
<1>1. Unwind(tmp) /\ UNCHANGED payload
  BY DEF PutFails
<1>2. CASE pc = "open_meta" /\ (SaveBinlogMetadata \/ UNCHANGED <<metas, meta>>) /\ UNCHANGED index
  <2>1. stream \in BinlogName /\ stream \notin NameSet(index) /\ TypeOK
    BY <1>2 DEF IInv, TypeOK, StreamInv, ObjectsInv, BackendCalls
  <2>2. \A n \in NameSet(index) : meta'[n] = meta[n]
    BY <1>2, <2>1, SaveFacts, SizesAreNumbers
  <2>3. Keeps
    BY <1>1, <1>2, <2>2, SizesAreNumbers DEF Keeps
  <2>4. boundary = 0
    BY <1>2 DEF IInv, TypeOK, StreamInv, Opening
  <2>5. FilesInv'
    BY <1>1, <1>2, <2>4, ForgetKeepsFiles DEF Unwind, has_event_data_to_flush
  <2> QED BY <2>3, <2>5
<1>3. CASE pc = "open_index" /\ (index' = records \/ UNCHANGED index) /\ UNCHANGED <<metas, meta>>
  <2>1. stream \in BinlogName \ NameSet(index) /\ records = Append(index, stream)
    BY <1>3 DEF IInv, TypeOK, StreamInv, ObjectsInv, BackendCalls, FilesInv
  <2>2. Keeps
    BY <1>1, <1>3, <2>1, SizesAreNumbers DEF Keeps
  <2>3. boundary = 0
    BY <1>3 DEF IInv, TypeOK, StreamInv, Opening
  <2>4. FilesInv'
    BY <1>1, <1>3, <2>3, ForgetKeepsFiles DEF Unwind, has_event_data_to_flush
  <2> QED BY <2>2, <2>4
<1>4. CASE pc = "flush_meta" /\ (SaveBinlogMetadata \/ UNCHANGED <<metas, meta>>) /\ UNCHANGED index
  <2>1. Keeps /\ meta'[stream] \in {meta[stream], current}
    BY <1>1, <1>4, SaveKeeps, SameObjectsKeep
  <2>2. CASE has_event_data_to_flush /\ after # "destroy"
    <3>1. pc' = "flush_write" /\ UNCHANGED <<records, current, stream, tmp>>
      BY <1>1, <2>2 DEF Unwind
    <3>2. /\ stream = records[Len(records)] /\ current.size \in Nat
          /\ meta[stream].size <= current.size
      BY <1>4, CommittedPrefix, SizesAreNumbers DEF Flushing
    <3> QED BY <1>1, <1>4, <2>1, <3>1, <3>2 DEF FilesInv, Flushing
  <2>3. CASE ~(has_event_data_to_flush /\ after # "destroy")
    BY <1>1, <1>4, <2>1, <2>3, ForgetKeepsFiles DEF Unwind
  <2> QED BY <2>2, <2>3
<1> QED BY <1>2, <1>3, <1>4 DEF PutFails

LEMMA NextKeepsFiles ==
  ASSUME IInv, FilesInv, Next
  PROVE  FilesInv' /\ Keeps
BY ConstructKeepsFiles, CallKeepsFiles, OpenKeepsFiles, OpenMagicKeepsFiles,
   OpenMetaKeepsFiles, OpenIndexKeepsFiles, FlushWriteKeepsFiles, FlushMetaKeepsFiles,
   WriteFailsKeepsFiles, PutFailsKeepsFiles, KillKeepsFiles
DEF Next, Call, BackendStep

-----------------------------------------------------------------------------
(* Between operations the objects agree with each other *)

\* The destructor flushes after a failure: what it writes may be there already.
Retried == after = "destroy" /\ failures # 0

Whole(n) == meta[n].size = Len(payload[n])

\* Between two operations, and before the first write of a flush.
Settled ==
  /\ payloads = NameSet(index) /\ metas = NameSet(index)
  /\ \A n \in NameSet(index) : Whole(n)
  /\ records # << >> => current = meta[records[Len(records)]]
  /\ Backend = "s3" /\ stream # NoName => tmp = payload[stream]

\* Between the two backend calls of a flush.
Flushed ==
  /\ payloads = NameSet(index) /\ metas = NameSet(index)
  /\ \A n \in NameSet(index) \ {stream} : Whole(n)
  /\ current.size = Len(payload[stream])
  /\ current.size = meta[stream].size + boundary
  /\ payload[stream] = SubSeq(payload[stream], 1, meta[stream].size) \o ReadyEvents

\* Between the backend calls that open a new file.
Opened ==
  /\ \A n \in NameSet(index) : Whole(n)
  /\ payloads \cup {stream} = NameSet(index) \cup {stream}
  /\ pc = "open_magic" =>
       /\ metas = NameSet(index)
       /\ IF Backend = "s3" THEN tmp = << >> ELSE payload[stream] = << >>
  /\ pc = "open_meta" => metas = NameSet(index)
  /\ pc \in {"open_meta", "open_index"} => payload[stream] = <<Magic>> /\ current.size = 1
  /\ pc = "open_index" => metas = NameSet(index) \cup {stream} /\ meta[stream] = current

ExactInv ==
  /\ pc \in Off => event_buffer = << >>
  /\ pc \in {"ready", "flush_write"} /\ ~Retried => Settled
  /\ pc = "flush_meta" /\ ~Retried => Flushed
  /\ pc \in Opening => Opened

\* The process has ended through the destructor, and nothing has ever failed.
DownInv == pc = "down" /\ crashes + failures = 0 => StorageIsValid

LEMMA SettledIsValid ==
  ASSUME index \in Seq(BinlogName), payloads = NameSet(index), metas = NameSet(index),
         \A n \in NameSet(index) : Whole(n)
  PROVE  StorageIsValid
<1>1. index = << >> => NameSet(index) = {}
  BY DEF NameSet
<1> QED BY <1>1 DEF StorageIsValid, Whole

LEMMA ForgetExact ==
  ASSUME ForgetMemory, pc' = "down"
  PROVE  ExactInv'
BY DEF ForgetMemory, ClearBuffers, ExactInv, Opening

\* An exception out of a backend call: the process ends, or its destructor
\* repeats the flush.
LEMMA UnwindExact ==
  ASSUME IInv, NEW t, Unwind(t), Fails
  PROVE  ExactInv' /\ DownInv'
<1>1. failures' # 0 /\ crashes' + failures' # 0
  BY DEF Fails, IInv, TypeOK
<1>2. DownInv'
  BY <1>1 DEF DownInv
<1>3. CASE has_event_data_to_flush /\ after # "destroy"
  <2>1. pc' = "flush_write" /\ after' = "destroy"
    BY <1>3 DEF Unwind
  <2> QED BY <1>1, <1>2, <2>1 DEF ExactInv, Retried, Off, Opening
<1>4. CASE ~(has_event_data_to_flush /\ after # "destroy")
  BY <1>2, <1>4, ForgetExact DEF Unwind
<1> QED BY <1>3, <1>4

LEMMA FailuresExact ==
  ASSUME IInv, WriteFails \/ PutFails \/ Kill
  PROVE  ExactInv' /\ DownInv'
<1>1. CASE PutFails
  BY <1>1, UnwindExact DEF PutFails
<1>2. CASE WriteFails
  <2>1. Fails
    BY <1>2 DEF WriteFails
  <2>2. DownInv'
    BY <2>1 DEF DownInv, Fails, IInv, TypeOK
  <2>3. CASE pc' = "down" /\ ForgetMemory
    BY <2>2, <2>3, ForgetExact
  <2>4. CASE Unwind(tmp \o DataToWrite)
    BY <2>1, <2>4, UnwindExact
  <2> QED BY <1>2, <2>3, <2>4 DEF WriteFails
<1>3. CASE Kill
  <2>1. DownInv'
    BY <1>3 DEF DownInv, Kill, IInv, TypeOK
  <2> QED BY <1>3, <2>1, ForgetExact DEF Kill
<1> QED BY <1>1, <1>2, <1>3

\* Nothing is under way, so no flush can be a repeated one.
LEMMA ReadyIsSettled ==
  ASSUME IInv, ExactInv, pc = "ready"
  PROVE  Settled /\ index = records /\ after = "none"
BY DEF IInv, StreamInv, ObjectsInv, ExactInv, Retried

LEMMA ConstructExact ==
  ASSUME IInv, ExactInv, Construct
  PROVE  ExactInv' /\ DownInv'
<1>1. UNCHANGED <<index, payloads, payload, metas, meta>> /\ pc \in Off
  BY DEF Construct, Off
<1>2. CASE ~StorageIsValid
  <2>1. pc' = "refused" /\ UNCHANGED memory
    BY <1>2 DEF Construct
  <2>2. event_buffer' = << >>
    BY <1>1, <2>1 DEF ExactInv, memory, buffers
  <2> QED BY <2>1, <2>2 DEF ExactInv, DownInv, Opening
<1>3. CASE StorageIsValid
  <2>1. /\ pc' = "ready" /\ records' = index /\ stream' = NoName
        /\ index # << >> => current' = meta[index[Len(index)]]
    BY <1>3 DEF Construct
  <2>2. /\ payloads = NameSet(index) /\ metas = NameSet(index)
        /\ \A n \in NameSet(index) : Whole(n)
    BY <1>3 DEF StorageIsValid, NameSet, Whole
  <2>3. Settled'
    BY <1>1, <2>1, <2>2 DEF Settled, Whole, NameSet
  <2> QED BY <2>1, <2>3 DEF ExactInv, DownInv, Off, Opening
<1> QED BY <1>2, <1>3

\* A step that leaves the objects and the record of the latest file alone.
LEMMA SameSettled ==
  ASSUME Settled, UNCHANGED <<objects, records, current>>,
         stream' = NoName \/ UNCHANGED <<stream, tmp>>
  PROVE  Settled'
BY DEF Settled, Whole, NameSet, objects

LEMMA DestroyExact ==
  ASSUME IInv, ExactInv, pc = "ready", Destroy, UNCHANGED objects
  PROVE  ExactInv' /\ DownInv'
<1>1. Settled
  BY ReadyIsSettled
<1>2. CASE has_event_data_to_flush
  <2>1. pc' = "flush_write" /\ UNCHANGED <<records, current, stream, tmp>>
    BY <1>2 DEF Destroy
  <2>2. Settled'
    BY <1>1, <2>1, SameSettled
  <2> QED BY <2>1, <2>2 DEF ExactInv, DownInv, Off, Opening
<1>3. CASE ~has_event_data_to_flush
  <2>1. pc' = "down" /\ ForgetMemory
    BY <1>3 DEF Destroy
  <2>2. StorageIsValid
    BY <1>1, SettledIsValid DEF Settled, IInv, TypeOK
  <2>3. StorageIsValid'
    BY <2>2 DEF StorageIsValid, NameSet, objects
  <2> QED BY <2>1, <2>3, ForgetExact DEF DownInv
<1> QED BY <1>2, <1>3

LEMMA CallExact ==
  ASSUME IInv, ExactInv, SetPurged \/ Write \/ Close \/ DiscardAndFlush \/ Stop
  PROVE  ExactInv' /\ DownInv'
<1>1. CASE Stop
  BY <1>1, DestroyExact DEF Stop
<1>2. CASE SetPurged \/ Write \/ Close \/ DiscardAndFlush
  <2>1. /\ pc = "ready" /\ pc' \in {"ready", "flush_write"}
        /\ UNCHANGED <<objects, records, current>>
        /\ stream' = NoName \/ UNCHANGED <<stream, tmp>>
    BY <1>2, CallSteps
  <2>2. Settled'
    BY <2>1, ReadyIsSettled, SameSettled
  <2> QED BY <2>1, <2>2 DEF ExactInv, DownInv, Off, Opening
<1> QED BY <1>1, <1>2

LEMMA OpenExact ==
  ASSUME IInv, ExactInv, Open
  PROVE  ExactInv' /\ DownInv'
<1>1. PICK name \in BinlogName :
        OpenExisting(name) \/ OpenNew(name) \/ OpenNotLatest(name)
  BY DEF Open
<1>2. pc = "ready" /\ Settled /\ index = records
  BY ReadyIsSettled DEF Open
<1>3. CASE OpenExisting(name)
  <2>1. /\ pc' = "ready" /\ stream' = name /\ UNCHANGED <<objects, records, current>>
        /\ Backend = "s3" => tmp' = payload[name]
    BY <1>2, <1>3 DEF OpenExisting
  <2>2. Settled'
    BY <1>2, <2>1 DEF Settled, Whole, NameSet, objects
  <2> QED BY <2>1, <2>2 DEF ExactInv, DownInv, Off, Opening
<1>4. CASE OpenNew(name)
  <2>1. /\ pc' = "open_magic" /\ stream' = name /\ name \notin NameSet(index)
        /\ tmp' = << >> /\ UNCHANGED <<index, metas, meta>>
        /\ IF Backend = "file"
           THEN /\ payloads' = payloads \cup {name}
                /\ payload' = [payload EXCEPT ![name] = << >>]
           ELSE UNCHANGED <<payloads, payload>>
    BY <1>2, <1>4 DEF OpenNew
  <2>2. payload \in [BinlogName -> Seq(Event)] /\ NameSet(index) \subseteq BinlogName
    BY SizesAreNumbers DEF IInv, TypeOK
  <2>3. /\ \A n \in NameSet(index) : payload'[n] = payload[n]
        /\ Backend = "file" => payload'[name] = << >>
    BY <2>1, <2>2
  <2>4. NameSet(index)' = NameSet(index)
    BY <2>1 DEF NameSet
  <2>5. Opened'
    BY <1>2, <2>1, <2>3, <2>4, StorageAssumption DEF Opened, Settled, Whole
  <2> QED BY <2>1, <2>5 DEF ExactInv, DownInv, Off
<1>5. CASE OpenNotLatest(name)
  BY <1>2, <1>5, DestroyExact DEF OpenNotLatest
<1> QED BY <1>1, <1>3, <1>4, <1>5

\* Appending to the empty sequence, and the beginning of an appended one.
LEMMA AppendParts ==
  ASSUME NEW s \in Seq(Event), NEW d \in Seq(Event)
  PROVE  /\ << >> \o d = d
         /\ Len(s \o d) = Len(s) + Len(d)
         /\ SubSeq(s \o d, 1, Len(s)) = s
<1>1. << >> \o d = d /\ Len(s \o d) = Len(s) + Len(d)
  OBVIOUS
<1>2. SubSeq(s \o d, 1, Len(s)) = s
  <2>1. s \o d \in Seq(Event) /\ Len(s) \in Nat /\ Len(d) \in Nat
    OBVIOUS
  <2>2. /\ SubSeq(s \o d, 1, Len(s)) \in Seq(Event)
        /\ Len(SubSeq(s \o d, 1, Len(s))) = Len(s)
    BY <1>1, <2>1
  <2>3. \A i \in 1 .. Len(s) : SubSeq(s \o d, 1, Len(s))[i] = s[i]
    BY <1>1, <2>1
  <2> QED BY <2>2, <2>3
<1> QED BY <1>1, <1>2

LEMMA OpenMagicExact ==
  ASSUME IInv, ExactInv, OpenMagic
  PROVE  ExactInv' /\ DownInv'
<1>1. /\ pc = "open_magic" /\ pc' = "open_meta" /\ WriteToStream(<<Magic>>)
      /\ UNCHANGED <<index, metas, meta, stream>>
  BY DEF OpenMagic
<1>2. current'.size = 1
  BY EmptyTypes DEF OpenMagic, magic_binlog_offset, EmptyRecord
<1>3. /\ stream \in BinlogName /\ stream \notin NameSet(index)
      /\ NameSet(index) \subseteq BinlogName
      /\ payload \in [BinlogName -> Seq(Event)]
  BY <1>1, DataToWriteFacts, SizesAreNumbers DEF IInv, TypeOK
<1>4. Opened /\ (IF Backend = "s3" THEN tmp = << >> ELSE payload[stream] = << >>)
  BY <1>1 DEF ExactInv, Opening, Opened
<1>5. StreamContent(<<Magic>>) = <<Magic>>
  <2>1. <<Magic>> \in Seq(Event)
    BY EmptyTypes
  <2>2. << >> \o <<Magic>> = <<Magic>>
    BY <2>1, AppendParts
  <2> QED BY <1>4, <2>2 DEF StreamContent
<1>6. /\ payloads' = payloads \cup {stream} /\ payload'[stream] = <<Magic>>
      /\ \A n \in NameSet(index) : payload'[n] = payload[n]
  BY <1>1, <1>3, <1>5 DEF WriteToStream
<1>7. NameSet(index)' = NameSet(index)
  BY <1>1 DEF NameSet
<1>8. Opened'
  BY <1>1, <1>2, <1>4, <1>6, <1>7 DEF Opened, Whole
<1> QED BY <1>1, <1>8 DEF ExactInv, DownInv, Off

LEMMA OpenMetaExact ==
  ASSUME IInv, ExactInv, OpenMeta
  PROVE  ExactInv' /\ DownInv'
<1>1. /\ pc = "open_meta" /\ pc' = "open_index" /\ SaveBinlogMetadata
      /\ UNCHANGED <<index, payloads, payload, current, stream>>
  BY DEF OpenMeta, memory
<1>2. stream \in BinlogName /\ stream \notin NameSet(index) /\ TypeOK
  BY <1>1 DEF IInv, TypeOK, StreamInv, ObjectsInv, BackendCalls
<1>3. /\ metas' = metas \cup {stream} /\ meta'[stream] = current
      /\ \A n \in BinlogName \ {stream} : meta'[n] = meta[n]
  BY <1>1, <1>2, SaveFacts
<1>4. \A n \in NameSet(index) : meta'[n] = meta[n]
  BY <1>2, <1>3, SizesAreNumbers
<1>5. Opened
  BY <1>1 DEF ExactInv, Opening
<1>6. NameSet(index)' = NameSet(index)
  BY <1>1 DEF NameSet
<1>7. Opened'
  BY <1>1, <1>3, <1>4, <1>5, <1>6 DEF Opened, Whole
<1> QED BY <1>1, <1>7 DEF ExactInv, DownInv, Off

LEMMA OpenIndexExact ==
  ASSUME IInv, ExactInv, FilesInv, OpenIndex
  PROVE  ExactInv' /\ DownInv'
<1>1. /\ pc = "open_index" /\ pc' = "ready" /\ index' = records
      /\ UNCHANGED <<payloads, payload, metas, meta, records, current, stream, tmp>>
  BY DEF OpenIndex
<1>2. /\ NameSet(records) = NameSet(index) \cup {stream} /\ stream \in payloads
      /\ stream = records[Len(records)]
  BY <1>1, StorageAssumption DEF IInv, TypeOK, StreamInv, ObjectsInv, BackendCalls
<1>3. /\ Opened /\ metas = NameSet(index) \cup {stream} /\ meta[stream] = current
      /\ payload[stream] = <<Magic>> /\ current.size = 1
  BY <1>1 DEF ExactInv, Opening, Opened
<1>4. Backend = "s3" => tmp = payload[stream]
  BY <1>1 DEF FilesInv
<1>5. NameSet(index)' = NameSet(records)
  BY <1>1 DEF NameSet
<1>6. Len(<<Magic>>) = 1
  OBVIOUS
<1>7. Settled'
  BY <1>1, <1>2, <1>3, <1>4, <1>5, <1>6 DEF Settled, Opened, Whole
<1> QED BY <1>1, <1>7 DEF ExactInv, DownInv, Off, Opening

LEMMA FlushWriteExact ==
  ASSUME IInv, ExactInv, FlushWrite
  PROVE  ExactInv' /\ DownInv'
<1>1. /\ pc = "flush_write" /\ pc' = "flush_meta" /\ WriteToStream(ReadyEvents)
      /\ current' = [current EXCEPT !.size = @ + boundary,
                                    !.added = @ \cup gtids_in_event_buffer,
                                    !.ts = add_range(@, ready_ts),
                                    !.seq = ready_seq]
      /\ UNCHANGED <<index, metas, meta, after, records, stream, buffers, bounds>>
  BY DEF FlushWrite
<1>2. CASE Retried
  BY <1>1, <1>2 DEF ExactInv, DownInv, Retried, Off, Opening, bounds
<1>3. CASE ~Retried
  <2>1. Settled
    BY <1>1, <1>3 DEF ExactInv
  <2>2. /\ stream \in BinlogName /\ stream \in NameSet(index) /\ index = records
        /\ stream = records[Len(records)] /\ records # << >> /\ boundary # 0
    BY <1>1, FlushingFacts DEF Flushing
  <2>3. /\ ReadyEvents \in Seq(Event) /\ Len(ReadyEvents) = boundary /\ boundary \in Nat
    BY <2>2, ReadyEventsFacts DEF IInv
  <2>4. /\ payload \in [BinlogName -> Seq(Event)] /\ payload[stream] \in Seq(Event)
        /\ current \in Metadata /\ NameSet(index) \subseteq BinlogName
    BY <2>2, SizesAreNumbers DEF IInv, TypeOK
  <2>5. StreamContent(ReadyEvents) = payload[stream] \o ReadyEvents
    BY <2>1, <2>2, StorageAssumption DEF Settled, StreamContent
  <2>6. /\ payloads' = payloads \cup {stream}
        /\ payload'[stream] = payload[stream] \o ReadyEvents
        /\ \A n \in NameSet(index) \ {stream} : payload'[n] = payload[n]
    BY <1>1, <2>2, <2>4, <2>5 DEF WriteToStream
  <2>7. current'.size = current.size + boundary /\ current.size = meta[stream].size
    BY <1>1, <2>1, <2>2, <2>4 DEF Settled, Metadata
  <2>8. meta[stream].size = Len(payload[stream])
    BY <2>1, <2>2 DEF Settled, Whole
  <2>9. /\ Len(payload'[stream]) = Len(payload[stream]) + boundary
        /\ SubSeq(payload'[stream], 1, meta[stream].size) = payload[stream]
    <3>1. /\ Len(payload[stream] \o ReadyEvents) = Len(payload[stream]) + Len(ReadyEvents)
          /\ SubSeq(payload[stream] \o ReadyEvents, 1, Len(payload[stream])) = payload[stream]
      BY <2>3, <2>4, AppendParts
    <3> QED BY <2>3, <2>6, <2>8, <3>1
  <2>10. NameSet(index)' = NameSet(index) /\ ReadyEvents' = ReadyEvents
    BY <1>1 DEF NameSet, ReadyEvents, buffers
  <2>11. boundary' = boundary /\ stream' = stream /\ meta' = meta /\ metas' = metas
    BY <1>1 DEF buffers
  <2>12. Flushed'
    BY <2>1, <2>2, <2>6, <2>7, <2>8, <2>9, <2>10, <2>11 DEF Flushed, Settled, Whole
  <2> QED BY <1>1, <2>12 DEF ExactInv, DownInv, Off, Opening
<1> QED BY <1>2, <1>3

LEMMA FlushMetaExact ==
  ASSUME IInv, ExactInv, FilesInv, FlushMeta
  PROVE  ExactInv' /\ DownInv'
<1>1. /\ pc = "flush_meta" /\ SaveBinlogMetadata
      /\ UNCHANGED <<index, payloads, payload, bounds>>
  BY DEF FlushMeta
<1>2. /\ stream \in BinlogName /\ stream \in NameSet(index) /\ index = records
      /\ stream = records[Len(records)]
  BY <1>1, FlushingFacts DEF Flushing
<1>3. /\ metas' = metas \cup {stream} /\ meta'[stream] = current
      /\ \A n \in BinlogName \ {stream} : meta'[n] = meta[n]
  BY <1>1, <1>2, SaveFacts DEF IInv
<1>4. NameSet(index)' = NameSet(index) /\ NameSet(index) \subseteq BinlogName
  BY <1>1, SizesAreNumbers DEF NameSet
<1>5. ~Retried =>
        /\ payloads' = NameSet(index)' /\ metas' = NameSet(index)'
        /\ \A n \in NameSet(index)' : meta'[n].size = Len(payload'[n])
  <2> SUFFICES ASSUME ~Retried
               PROVE  /\ payloads' = NameSet(index)' /\ metas' = NameSet(index)'
                      /\ \A n \in NameSet(index)' : meta'[n].size = Len(payload'[n])
    OBVIOUS
  <2>1. Flushed
    BY <1>1 DEF ExactInv
  <2> QED BY <1>1, <1>2, <1>3, <1>4, <2>1 DEF Flushed, Whole
<1>6. CASE after = "destroy"
  <2>1. pc' = "down" /\ ForgetMemory
    BY <1>6 DEF FlushMeta
  <2>2. ExactInv'
    BY <2>1, ForgetExact
  <2>3. DownInv'
    <3> SUFFICES ASSUME crashes' + failures' = 0 PROVE StorageIsValid'
      BY DEF DownInv
    <3>1. failures = 0
      BY <1>1 DEF IInv, TypeOK, bounds
    <3>2. /\ payloads' = NameSet(index)' /\ metas' = NameSet(index)'
          /\ \A n \in NameSet(index)' : meta'[n].size = Len(payload'[n])
      BY <1>5, <3>1 DEF Retried
    <3>3. NameSet(index)' # {} /\ NameSet(index') = NameSet(index)'
      BY <1>2, <1>4 DEF NameSet
    <3>4. index' # << >>
      BY <3>3 DEF NameSet
    <3> QED BY <3>2, <3>4 DEF StorageIsValid
  <2> QED BY <2>2, <2>3
<1>7. CASE after # "destroy"
  <2>1. /\ pc' = "ready" /\ UNCHANGED <<records, current>>
        /\ stream' = NoName \/ UNCHANGED <<stream, tmp>>
    BY <1>7 DEF FlushMeta, CloseStream
  <2>2. Backend = "s3" => tmp = payload[stream]
    BY <1>1 DEF FilesInv
  <2>3. Settled'
    BY <1>1, <1>2, <1>3, <1>5, <1>7, <2>1, <2>2 DEF Settled, Whole, Retried
  <2> QED BY <2>1, <2>3 DEF ExactInv, DownInv, Off, Opening
<1> QED BY <1>6, <1>7

FilesOK == IInv /\ FilesInv /\ ExactInv

LEMMA NextExact ==
  ASSUME FilesOK, Next
  PROVE  FilesOK' /\ DownInv' /\ Keeps
<1>1. IInv' /\ FilesInv' /\ Keeps
  BY NextPreserves, NextKeepsFiles DEF FilesOK
<1>2. ExactInv' /\ DownInv'
  BY ConstructExact, CallExact, OpenExact, OpenMagicExact, OpenMetaExact, OpenIndexExact,
     FlushWriteExact, FlushMetaExact, FailuresExact
  DEF FilesOK, Next, Call, BackendStep
<1> QED BY <1>1, <1>2 DEF FilesOK

LEMMA StutterExact ==
  ASSUME FilesOK, UNCHANGED vars
  PROVE  FilesOK' /\ (DownInv => DownInv') /\ Keeps
<1> USE DEF vars, objects, memory, buffers, bounds
<1>1. IInv'
  BY NextPreserves DEF FilesOK
<1>2. FilesInv'
  BY DEF FilesOK, FilesInv, Distinct
<1>3. ExactInv'
  <2>1. Settled => Settled'
    BY DEF Settled, Whole, NameSet
  <2>2. Flushed => Flushed'
    BY DEF Flushed, Whole, NameSet, ReadyEvents
  <2>3. Opened => Opened'
    BY DEF Opened, Whole, NameSet
  <2> QED BY <2>1, <2>2, <2>3 DEF FilesOK, ExactInv, Retried
<1>4. DownInv => DownInv'
  BY DEF DownInv, StorageIsValid, NameSet
<1>5. Keeps
  BY SameObjectsKeep DEF FilesOK
<1> QED BY <1>1, <1>2, <1>3, <1>4, <1>5 DEF FilesOK

LEMMA FilesInitEstablishes == Init => FilesOK /\ DownInv
<1> SUFFICES ASSUME Init PROVE FilesOK /\ DownInv
  OBVIOUS
<1>1. IInv
  BY InitEstablishes
<1>2. FilesInv
  BY DEF Init, FilesInv, Distinct, Flushing
<1>3. ExactInv /\ DownInv
  BY DEF Init, ExactInv, DownInv, StorageIsValid, Opening
<1> QED BY <1>1, <1>2, <1>3 DEF FilesOK

LEMMA FilesInvariantHolds == Spec => [](FilesOK /\ DownInv)
<1>1. FilesOK /\ DownInv /\ [Next]_vars => (FilesOK /\ DownInv)'
  BY NextExact, StutterExact
<1> QED BY FilesInitEstablishes, <1>1, PTL DEF Spec

LEMMA ExactIsResumable ==
  ASSUME FilesOK, DownInv
  PROVE  StorageIsResumable
<1>1. index \in Seq(BinlogName)
  BY DEF FilesOK, IInv, TypeOK
<1>2. Settled => StorageIsValid
  BY <1>1, SettledIsValid DEF Settled
<1>3. pc = "ready" => StorageIsValid
  BY <1>2, ReadyIsSettled DEF FilesOK
<1>4. pc = "flush_write" /\ failures = 0 => StorageIsValid
  BY <1>2 DEF FilesOK, ExactInv, Retried
<1> QED BY <1>3, <1>4 DEF StorageIsResumable, DownInv

\* Between operations, before the first write of a flush as long as nothing has
\* failed, and after every termination that nothing disturbed, the constructor
\* accepts what is in the backend: index, payloads and metadata name the same
\* files and agree on their sizes.
THEOREM StorageStaysResumable == Spec => []StorageIsResumable
<1>1. FilesOK /\ DownInv => StorageIsResumable
  BY ExactIsResumable
<1> QED BY <1>1, FilesInvariantHolds, PTL

=============================================================================
