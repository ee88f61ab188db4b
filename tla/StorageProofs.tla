---------------------------- MODULE StorageProofs ----------------------------
(****************************************************************************)
(* Theorems about the storage, for every set of names, events and gtids,    *)
(* every checkpoint setting, either backend, and any number of kills and of *)
(* failing backend calls.                                                   *)
(****************************************************************************)
EXTENDS Storage, TLAPS

Opening == {"open_magic", "open_meta", "open_index"}
Flushing == {"flush_write", "flush_meta"}
Off == {"down", "refused"}

\* A stream is open whenever there is something to write to it, and a new file
\* is only opened with an empty buffer.
StreamInv ==
  /\ boundary # 0 => stream # NoName
  /\ stream = NoName => event_buffer = << >>
  /\ pc \in BackendCalls => stream # NoName
  /\ pc \in Opening => event_buffer = << >>
  /\ pc \in Flushing => boundary # 0
  /\ pc \in {"ready"} \cup Opening => after = "none"

\* What the variables that describe the buffer say when no part of it is ready,
\* and when all of it is.
BufferInv ==
  /\ boundary # 0 => event_buffer[boundary].boundary
  /\ boundary = 0 => gtids_in_event_buffer = {} /\ ready_ts = EmptyRange
  /\ boundary = Len(event_buffer) => incomplete_ts = EmptyRange
  /\ after = "close" => boundary = Len(event_buffer)

\* Which objects exist at each point of the program: the files of the index, and
\* while a new file is opened that file beside them.
ObjectsInv ==
  /\ NameSet(index) \subseteq payloads \cap metas
  /\ pc \in {"ready", "open_magic"} \cup Flushing => index = records
  /\ pc = "open_magic" => stream \notin NameSet(records)
  /\ pc \in {"open_meta", "open_index"} =>
       /\ NameSet(records) = NameSet(index) \cup {stream}
       /\ stream \notin NameSet(index)
       /\ stream \in payloads
  /\ pc = "open_index" => stream \in metas
  /\ pc \in {"ready"} \cup Flushing /\ stream # NoName =>
       stream \in NameSet(records)
  /\ pc \in {"ready", "open_meta", "open_index"} \cup Flushing
       /\ stream # NoName => stream = records[Len(records)]
  /\ pc \in {"open_meta", "open_index"} => records # << >>

\* A payload is never shorter than its metadata says, and ends with a whole
\* transaction if it is not longer either.
SizesInv ==
  /\ \A n \in NameSet(index) :
       /\ meta[n].size <= Len(payload[n])
       /\ meta[n].size = Len(payload[n]) => EndsAtBoundary(payload[n])
  /\ pc \in {"ready", "open_meta", "open_index"} \cup Flushing /\ records # << >> =>
       current.size <= Len(payload[records[Len(records)]])
  /\ pc \in {"ready", "open_meta", "open_index"} \cup Flushing /\ stream # NoName
       /\ Backend = "s3" => current.size <= Len(tmp)
  /\ pc \in {"ready", "open_index"} \cup Flushing /\ stream # NoName
       /\ Backend = "s3" => meta[stream].size <= Len(tmp)
  /\ pc \in {"open_meta", "open_index", "flush_meta"} =>
       EndsAtBoundary(payload[stream])
  /\ pc = "open_index" => meta[stream].size <= Len(payload[stream])

\* The last checkpoint of an open file lies within the flushed part of it.
CheckpointInv ==
  CheckpointSize # 0 =>
    /\ pc \in {"ready"} \cup Flushing /\ stream # NoName =>
         last_checkpoint <= current.size
    /\ pc = "ready" => boundary < CheckpointSize

IInv ==
  TypeOK /\ StreamInv /\ BufferInv /\ ObjectsInv /\ SizesInv /\ CheckpointInv

-----------------------------------------------------------------------------
(* Facts about the operators *)

\* The names of a sequence of names, and of one that grew by a name.
LEMMA NameSetFacts ==
  ASSUME NEW s \in Seq(BinlogName)
  PROVE  /\ NameSet(s) \subseteq BinlogName
         /\ s # << >> => s[Len(s)] \in NameSet(s)
         /\ NameSet(<< >>) = {}
         /\ \A n \in BinlogName :
              /\ NameSet(Append(s, n)) = NameSet(s) \cup {n}
              /\ Append(s, n)[Len(Append(s, n))] = n
              /\ Append(s, n) # << >>
<1>1. /\ NameSet(s) \subseteq BinlogName
      /\ s # << >> => s[Len(s)] \in NameSet(s)
      /\ NameSet(<< >>) = {}
  BY DEF NameSet
<1>2. ASSUME NEW n \in BinlogName
      PROVE  /\ NameSet(Append(s, n)) = NameSet(s) \cup {n}
             /\ Append(s, n)[Len(Append(s, n))] = n
             /\ Append(s, n) # << >>
  <2>1. /\ DOMAIN Append(s, n) = 1 .. Len(s) + 1
        /\ DOMAIN s = 1 .. Len(s)
        /\ Append(s, n)[Len(s) + 1] = n
        /\ \A i \in 1 .. Len(s) : Append(s, n)[i] = s[i]
        /\ Len(Append(s, n)) = Len(s) + 1
    OBVIOUS
  <2> QED BY <2>1 DEF NameSet
<1> QED BY <1>1, <1>2

\* The values that stand for nothing, and the magic signature, have their types.
LEMMA EmptyTypes ==
  /\ EmptyRecord \in Metadata /\ EmptyRecord.size = 0
  /\ EmptyRange \in TimestampRange
  /\ Magic \in Event /\ EndsAtBoundary(<<Magic>>)
BY StorageAssumption
DEF EmptyRecord, EmptyRange, Metadata, TimestampRange, Magic, Event, EndsAtBoundary

\* Adding timestamps to a range, or ranges, gives a range.
LEMMA RangeType ==
  ASSUME NEW r \in TimestampRange, NEW s \in TimestampRange, NEW t \in Nat
  PROVE  add_timestamp(r, t) \in TimestampRange /\ add_range(r, s) \in TimestampRange
BY DEF TimestampRange, add_timestamp, add_range

\* Appending a prefix of the buffer that ends a transaction gives a payload that
\* does; any part of it only makes the payload longer.
LEMMA AppendFacts ==
  ASSUME NEW s \in Seq(Event), NEW d \in Seq(Event)
  PROVE  /\ s \o d \in Seq(Event)
         /\ Len(s \o d) = Len(s) + Len(d)
         /\ EndsAtBoundary(d) => EndsAtBoundary(s \o d)
         /\ \A k \in 0 .. Len(d) :
              /\ SubSeq(d, 1, k) \in Seq(Event)
              /\ Len(SubSeq(d, 1, k)) = k
              /\ SubSeq(d, k + 1, Len(d)) \in Seq(Event)
              /\ Len(SubSeq(d, k + 1, Len(d))) = Len(d) - k
              /\ k # 0 /\ d[k].boundary => EndsAtBoundary(SubSeq(d, 1, k))
              /\ k = 0 => s \o SubSeq(d, 1, k) = s
<1>1. /\ s \o d \in Seq(Event)
      /\ Len(s \o d) = Len(s) + Len(d)
  OBVIOUS
<1>2. EndsAtBoundary(d) => EndsAtBoundary(s \o d)
  BY DEF EndsAtBoundary
<1>3. ASSUME NEW k \in 0 .. Len(d)
      PROVE  /\ SubSeq(d, 1, k) \in Seq(Event)
             /\ Len(SubSeq(d, 1, k)) = k
             /\ SubSeq(d, k + 1, Len(d)) \in Seq(Event)
             /\ Len(SubSeq(d, k + 1, Len(d))) = Len(d) - k
             /\ k # 0 /\ d[k].boundary => EndsAtBoundary(SubSeq(d, 1, k))
             /\ k = 0 => s \o SubSeq(d, 1, k) = s
  <2>1. /\ SubSeq(d, 1, k) \in Seq(Event)
        /\ Len(SubSeq(d, 1, k)) = k
    OBVIOUS
  <2>2. /\ SubSeq(d, k + 1, Len(d)) \in Seq(Event)
        /\ Len(SubSeq(d, k + 1, Len(d))) = Len(d) - k
    OBVIOUS
  <2>3. k # 0 /\ d[k].boundary => EndsAtBoundary(SubSeq(d, 1, k))
    BY <2>1 DEF EndsAtBoundary
  <2>4. k = 0 => s \o SubSeq(d, 1, k) = s
    OBVIOUS
  <2> QED BY <2>1, <2>2, <2>3, <2>4
<1> QED BY <1>1, <1>2, <1>3

-----------------------------------------------------------------------------
(* The end of the process *)

\* A process that is gone has no buffer and no records, so only what is said of
\* the objects remains to be shown.
LEMMA ForgetPreserves ==
  ASSUME ForgetMemory, pc' = "down",
         (initialized \in BOOLEAN)', (index \in Seq(BinlogName))',
         (payloads \subseteq BinlogName)', (payload \in [BinlogName -> Seq(Event)])',
         (metas \subseteq BinlogName)', (meta \in [BinlogName -> Metadata])',
         (crashes \in 0 .. MaxCrashes)', (failures \in 0 .. MaxFailures)',
         (NameSet(index) \subseteq payloads \cap metas)',
         (\A n \in NameSet(index) :
            /\ meta[n].size <= Len(payload[n])
            /\ meta[n].size = Len(payload[n]) => EndsAtBoundary(payload[n]))'
  PROVE  IInv'
<1> USE DEF ForgetMemory, ClearBuffers
<1>1. TypeOK'
  BY StorageAssumption, EmptyTypes DEF TypeOK
<1>2. StreamInv' /\ BufferInv'
  BY DEF StreamInv, BufferInv, BackendCalls, Opening, Flushing
<1>3. ObjectsInv' /\ SizesInv' /\ CheckpointInv'
  BY DEF ObjectsInv, SizesInv, CheckpointInv, Flushing
<1> QED BY <1>1, <1>2, <1>3 DEF IInv

\* The destructor, called between two operations.
LEMMA DestroyPreserves ==
  ASSUME IInv, pc = "ready", Destroy, UNCHANGED <<objects, bounds>>
  PROVE  IInv'
<1> USE DEF IInv, objects, bounds, buffers
<1>1. CASE ~has_event_data_to_flush
  <2>1. pc' = "down" /\ ForgetMemory
    BY <1>1 DEF Destroy
  <2> QED BY <2>1, ForgetPreserves DEF TypeOK, ObjectsInv, SizesInv
<1>2. CASE has_event_data_to_flush
  <2>1. /\ boundary # 0 /\ pc' = "flush_write" /\ after' = "destroy"
        /\ UNCHANGED <<purged_gtids, records, current, stream, tmp, buffers,
                       last_checkpoint>>
    BY <1>2 DEF Destroy, has_event_data_to_flush
  <2>2. TypeOK'
    BY <2>1 DEF TypeOK, BackendCalls
  <2>3. StreamInv' /\ BufferInv'
    BY <2>1 DEF StreamInv, BufferInv, BackendCalls, Opening, Flushing
  <2>4. ObjectsInv' /\ SizesInv' /\ CheckpointInv'
    BY <2>1 DEF ObjectsInv, SizesInv, CheckpointInv, Flushing
  <2> QED BY <2>2, <2>3, <2>4
<1> QED BY <1>1, <1>2

\* An exception out of a backend call: the process ends, or the destructor
\* starts over with the flush.
LEMMA UnwindPreserves ==
  ASSUME IInv, pc \in BackendCalls,
         NEW new_tmp \in Seq(Event), Unwind(new_tmp),
         (initialized \in BOOLEAN)', (index \in Seq(BinlogName))',
         (payloads \subseteq BinlogName)', (payload \in [BinlogName -> Seq(Event)])',
         (metas \subseteq BinlogName)', (meta \in [BinlogName -> Metadata])',
         (crashes \in 0 .. MaxCrashes)', (failures \in 0 .. MaxFailures)',
         (NameSet(index) \subseteq payloads \cap metas)',
         (\A n \in NameSet(index) :
            /\ meta[n].size <= Len(payload[n])
            /\ meta[n].size = Len(payload[n]) => EndsAtBoundary(payload[n]))',
         pc \in Flushing =>
           /\ UNCHANGED index
           /\ current.size <= Len(payload'[stream])
           /\ Backend = "s3" => /\ current.size <= Len(new_tmp)
                               /\ meta'[stream].size <= Len(new_tmp)
  PROVE  IInv'
<1>1. CASE ~(has_event_data_to_flush /\ after # "destroy")
  <2>1. pc' = "down" /\ ForgetMemory
    BY <1>1 DEF Unwind
  <2> QED BY <2>1, ForgetPreserves
<1>2. CASE has_event_data_to_flush /\ after # "destroy"
  <2> USE DEF IInv, buffers
  <2>1. /\ boundary # 0 /\ pc' = "flush_write" /\ after' = "destroy"
        /\ tmp' = new_tmp
        /\ UNCHANGED <<purged_gtids, records, current, stream, buffers,
                       last_checkpoint>>
    BY <1>2 DEF Unwind, has_event_data_to_flush
  <2>2. pc \in Flushing
    BY <2>1 DEF StreamInv, TypeOK, BackendCalls, Opening, Flushing
  <2>3. TypeOK'
    BY <2>1 DEF TypeOK, BackendCalls
  <2>4. StreamInv' /\ BufferInv'
    BY <2>1, <2>2 DEF StreamInv, BufferInv, BackendCalls, Opening, Flushing
  <2>5. ObjectsInv'
    BY <2>1, <2>2 DEF ObjectsInv, Flushing
  <2>6. stream = records[Len(records)]
    BY <2>1, <2>2 DEF ObjectsInv, StreamInv
  <2>7. SizesInv'
    BY <2>1, <2>2, <2>6 DEF SizesInv, Flushing
  <2>8. CheckpointInv'
    BY <2>1, <2>2 DEF CheckpointInv, Flushing
  <2> QED BY <2>3, <2>4, <2>5, <2>7, <2>8
<1> QED BY <1>1, <1>2

-----------------------------------------------------------------------------
(* The operations preserve the invariant *)

LEMMA InitEstablishes == Init => IInv
<1> SUFFICES ASSUME Init PROVE IInv
  OBVIOUS
<1> USE DEF Init
<1>0. payload \in [BinlogName -> Seq(Event)] /\ meta \in [BinlogName -> Metadata]
  <2>1. << >> \in Seq(Event)
    OBVIOUS
  <2> QED BY <2>1, EmptyTypes
<1>1. TypeOK
  <2>1. /\ index \in Seq(BinlogName) /\ records \in Seq(BinlogName)
        /\ tmp \in Seq(Event) /\ event_buffer \in Seq(Event)
        /\ boundary \in 0 .. Len(event_buffer)
    OBVIOUS
  <2>2. /\ payloads \subseteq BinlogName /\ metas \subseteq BinlogName
        /\ purged_gtids \subseteq Gtid /\ gtids_in_event_buffer \subseteq Gtid
        /\ crashes \in 0 .. MaxCrashes /\ failures \in 0 .. MaxFailures
        /\ current \in Metadata
        /\ ready_ts \in TimestampRange /\ incomplete_ts \in TimestampRange
    BY StorageAssumption, EmptyTypes
  <2> QED BY StorageAssumption, <1>0, <2>1, <2>2 DEF TypeOK
<1>2. StreamInv /\ BufferInv
  BY DEF StreamInv, BufferInv, BackendCalls, Opening, Flushing
<1>3. NameSet(index) = {}
  BY NameSetFacts, index \in Seq(BinlogName)
<1>4. ObjectsInv /\ SizesInv /\ CheckpointInv
  BY StorageAssumption, <1>3 DEF ObjectsInv, SizesInv, CheckpointInv, Flushing
<1> QED BY <1>1, <1>2, <1>4 DEF IInv

LEMMA ConstructPreserves == IInv /\ Construct => IInv'
<1> SUFFICES ASSUME IInv, Construct PROVE IInv'
  OBVIOUS
<1> USE DEF IInv, bounds
<1>0. UNCHANGED <<index, payloads, payload, metas, meta, crashes, failures>>
  BY DEF Construct
<1>1. CASE ~StorageIsValid
  <2>1. pc' = "refused" /\ UNCHANGED <<initialized, memory>> /\ pc \in Off
    BY <1>1 DEF Construct, Off
  <2> USE DEF memory, buffers
  <2>2. TypeOK'
    BY <1>0, <2>1 DEF TypeOK
  <2>3. StreamInv' /\ BufferInv'
    BY <1>0, <2>1 DEF StreamInv, BufferInv, BackendCalls, Opening, Flushing
  <2>4. ObjectsInv' /\ SizesInv' /\ CheckpointInv'
    BY <1>0, <2>1 DEF ObjectsInv, SizesInv, CheckpointInv, Flushing
  <2> QED BY <2>2, <2>3, <2>4
<1>2. CASE StorageIsValid
  <2>1. /\ initialized' = TRUE /\ pc' = "ready" /\ records' = index
        /\ current' = IF index = << >> THEN EmptyRecord
                      ELSE meta[index[Len(index)]]
        /\ purged_gtids' = IF index = << >> THEN {} ELSE meta[index[1]].added
        /\ after' = "none" /\ stream' = NoName /\ tmp' = << >>
        /\ last_checkpoint' = 0
        /\ ClearBuffers
    BY <1>2 DEF Construct
  <2> USE DEF ClearBuffers
  <2>2. index # << >> => index[1] \in BinlogName /\ index[Len(index)] \in BinlogName
    BY DEF TypeOK
  <2>8. current' \in Metadata /\ purged_gtids' \subseteq Gtid
    <3>1. \A n \in BinlogName : meta[n] \in Metadata /\ meta[n].added \subseteq Gtid
      BY DEF TypeOK, Metadata
    <3> QED BY <2>1, <2>2, <3>1, EmptyTypes
  <2>3. TypeOK'
    BY StorageAssumption, EmptyTypes, <1>0, <2>1, <2>8, SMTT(30) DEF TypeOK
  <2>4. StreamInv' /\ BufferInv'
    BY <2>1 DEF StreamInv, BufferInv, BackendCalls, Opening, Flushing
  <2>5. ObjectsInv' /\ CheckpointInv'
    BY StorageAssumption, <1>0, <2>1 DEF ObjectsInv, CheckpointInv, Flushing
  <2>6. index # << >> => index[Len(index)] \in NameSet(index)
    BY NameSetFacts DEF TypeOK
  <2>7. SizesInv'
    BY <1>0, <2>1, <2>6 DEF SizesInv, Flushing
  <2> QED BY <2>3, <2>4, <2>5, <2>7
<1> QED BY <1>1, <1>2

LEMMA SetPurgedPreserves == IInv /\ SetPurged => IInv'
<1> SUFFICES ASSUME IInv, NEW gtids \in SUBSET Gtid, set_purged_gtids(gtids)
             PROVE  IInv'
  BY DEF SetPurged
<1> USE DEF IInv, set_purged_gtids, objects, buffers, bounds
<1>1. TypeOK'
  BY DEF TypeOK
<1>2. StreamInv' /\ BufferInv'
  BY DEF StreamInv, BufferInv
<1>3. ObjectsInv' /\ SizesInv' /\ CheckpointInv'
  BY DEF ObjectsInv, SizesInv, CheckpointInv
<1> QED BY <1>1, <1>2, <1>3

LEMMA StopPreserves == IInv /\ Stop => IInv'
BY DestroyPreserves DEF Stop

LEMMA OpenExistingPreserves ==
  ASSUME IInv, NEW name \in BinlogName, OpenExisting(name)
  PROVE  IInv'
<1> USE DEF IInv, OpenExisting, CheckpointAt, objects, bounds
<1>1. /\ records # << >> /\ name = records[Len(records)]
      /\ name \in NameSet(records) /\ index = records
      /\ event_buffer = << >> /\ boundary = 0
  BY NameSetFacts DEF TypeOK, StreamInv, ObjectsInv, is_empty
<1>2. get_current_position = current.size /\ current.size \in Nat
  BY <1>1 DEF get_current_position, TypeOK, Metadata
<1>3. TypeOK'
  <2>1. current.seq \in SequenceNumber /\ tmp' \in Seq(Event) /\ last_checkpoint' \in Nat
    BY <1>2 DEF TypeOK, Metadata
  <2> QED BY <2>1 DEF TypeOK
<1>4. StreamInv' /\ BufferInv'
  BY <1>1, StorageAssumption
  DEF StreamInv, BufferInv, BackendCalls, Opening, Flushing
<1>5. ObjectsInv'
  BY <1>1 DEF ObjectsInv, Flushing
<1>6. SizesInv'
  BY <1>1 DEF SizesInv, Flushing
<1>7. CheckpointInv'
  BY <1>2 DEF CheckpointInv, Flushing
<1> QED BY <1>3, <1>4, <1>5, <1>6, <1>7

LEMMA OpenNewPreserves ==
  ASSUME IInv, NEW name \in BinlogName, OpenNew(name)
  PROVE  IInv'
<1> USE DEF IInv, OpenNew, buffers, bounds
<1>1. /\ index = records /\ name \notin NameSet(index)
      /\ event_buffer = << >> /\ boundary = 0 /\ after = "none"
  BY DEF TypeOK, StreamInv, ObjectsInv
<1>2. /\ payloads \subseteq payloads' /\ payloads' \subseteq BinlogName
      /\ payload' \in [BinlogName -> Seq(Event)]
      /\ \A n \in BinlogName \ {name} : payload'[n] = payload[n]
  <2>1. CASE Backend = "file"
    <3>1. << >> \in Seq(Event) /\ payload \in [BinlogName -> Seq(Event)]
      BY DEF TypeOK
    <3> QED BY <2>1, <3>1 DEF TypeOK
  <2>2. CASE Backend # "file"
    BY <2>2 DEF TypeOK
  <2> QED BY <2>1, <2>2
<1>3. TypeOK'
  BY <1>2 DEF TypeOK, BackendCalls
<1>4. StreamInv' /\ BufferInv'
  BY <1>1, StorageAssumption
  DEF StreamInv, BufferInv, BackendCalls, Opening, Flushing
<1>5. ObjectsInv'
  BY <1>1, <1>2 DEF ObjectsInv, Flushing
<1>6. SizesInv'
  BY <1>1, <1>2, NameSetFacts DEF SizesInv, TypeOK, Flushing
<1>7. CheckpointInv'
  BY DEF CheckpointInv, Flushing
<1> QED BY <1>3, <1>4, <1>5, <1>6, <1>7

LEMMA OpenPreserves == IInv /\ Open => IInv'
<1> SUFFICES ASSUME IInv, NEW name \in BinlogName,
                    OpenExisting(name) \/ OpenNew(name) \/ OpenNotLatest(name)
             PROVE  IInv'
  BY DEF Open
<1>1. CASE OpenExisting(name)
  BY <1>1, OpenExistingPreserves
<1>2. CASE OpenNew(name)
  BY <1>2, OpenNewPreserves
<1>3. CASE OpenNotLatest(name)
  BY <1>3, DestroyPreserves DEF OpenNotLatest
<1> QED BY <1>1, <1>2, <1>3

\* The buffer grows by one event; a flush that is not due leaves less than
\* checkpoint_size of complete transactions in it.
LEMMA WritePreserves == IInv /\ Write => IInv'
<1> SUFFICES ASSUME IInv, NEW e \in WrittenEvent, NEW elapsed \in BOOLEAN,
                    write_event(e, elapsed)
             PROVE  IInv'
  BY DEF Write
<1> USE DEF IInv, objects, bounds
<1> DEFINE ts  == add_timestamp(incomplete_ts, e.ts)
           seq == IF e.seq # 0 THEN e.seq ELSE incomplete_seq
           end == IF e.boundary THEN Len(event_buffer) + 1 ELSE boundary
<1>1. /\ pc = "ready" /\ stream # NoName
      /\ event_buffer' = Append(event_buffer, e) /\ boundary' = end
      /\ incomplete_seq' = seq
      /\ UNCHANGED <<objects, purged_gtids, records, current, stream, tmp,
                     last_checkpoint, bounds>>
  BY DEF write_event
<1>2. /\ e \in Event /\ e.ts \in Nat /\ e.seq \in SequenceNumber
      /\ e.boundary \in BOOLEAN /\ e.gtid \in Gtid \cup {NoGtid}
  BY StorageAssumption DEF Event
<1>3. /\ event_buffer' \in Seq(Event) /\ Len(event_buffer') = Len(event_buffer) + 1
      /\ event_buffer'[Len(event_buffer) + 1] = e
      /\ \A i \in 1 .. Len(event_buffer) : event_buffer'[i] = event_buffer[i]
      /\ boundary \in 0 .. Len(event_buffer) /\ Len(event_buffer) \in Nat
  BY <1>1, <1>2 DEF TypeOK
<1>4. /\ gtids_in_event_buffer' \subseteq Gtid
      /\ ready_ts' \in TimestampRange /\ incomplete_ts' \in TimestampRange
      /\ ready_seq' \in SequenceNumber /\ incomplete_seq' \in SequenceNumber
  <2>1. ts \in TimestampRange /\ add_range(ready_ts, ts) \in TimestampRange
    BY <1>2, RangeType DEF TypeOK
  <2>2. CASE e.boundary
    <3>1. /\ gtids_in_event_buffer' = IF ReplicationMode = "gtid" /\ e.gtid # NoGtid
                                      THEN gtids_in_event_buffer \cup {e.gtid}
                                      ELSE gtids_in_event_buffer
          /\ ready_ts' = add_range(ready_ts, ts) /\ incomplete_ts' = EmptyRange
          /\ ready_seq' = seq
      BY <2>2 DEF write_event
    <3> QED BY <1>1, <1>2, <2>1, <3>1, EmptyTypes DEF TypeOK
  <2>3. CASE ~e.boundary
    <3>1. /\ incomplete_ts' = ts
          /\ UNCHANGED <<gtids_in_event_buffer, ready_ts, ready_seq>>
      BY <2>3 DEF write_event
    <3> QED BY <1>1, <1>2, <2>1, <3>1 DEF TypeOK
  <2> QED BY <2>2, <2>3
<1>5. \/ pc' = "flush_write" /\ after' = "write" /\ end # 0
      \/ pc' = pc /\ after' = after /\ ~CheckpointIsDue(end, elapsed)
  BY DEF write_event, CheckpointIsDue
<1>6. end \in 0 .. Len(event_buffer')
  BY <1>3
<1>7. TypeOK'
  BY <1>1, <1>3, <1>4, <1>5, <1>6 DEF TypeOK, BackendCalls
<1>8. StreamInv'
  BY <1>1, <1>5 DEF StreamInv, BackendCalls, Opening, Flushing
<1>9. BufferInv'
  <2>1. after' # "close"
    BY <1>1, <1>5 DEF StreamInv
  <2>2. CASE e.boundary
    <3>1. end = Len(event_buffer) + 1 /\ end # 0 /\ incomplete_ts' = EmptyRange
      BY <1>3, <2>2, SMTT(30) DEF write_event
    <3> QED BY <1>1, <1>3, <2>1, <2>2, <3>1 DEF BufferInv
  <2>3. CASE ~e.boundary
    <3>1. end = boundary /\ UNCHANGED <<gtids_in_event_buffer, ready_ts>>
      BY <2>3 DEF write_event
    <3>2. end # Len(event_buffer')
      BY <1>3, <3>1
    <3>3. /\ boundary # 0 => event_buffer[boundary].boundary
          /\ boundary = 0 => gtids_in_event_buffer = {} /\ ready_ts = EmptyRange
      BY DEF BufferInv
    <3>4. boundary' = boundary
      BY <1>1, <3>1
    <3>5. boundary # 0 => event_buffer'[boundary] = event_buffer[boundary]
      BY <1>3
    <3> HIDE DEF IInv, end
    <3> QED BY <1>1, <2>1, <3>1, <3>2, <3>3, <3>4, <3>5 DEF BufferInv
  <2> QED BY <2>2, <2>3
<1>10. ObjectsInv'
  BY <1>1, <1>5 DEF ObjectsInv, Flushing
<1>11. SizesInv'
  BY <1>1, <1>5 DEF SizesInv, Flushing
<1>12. CheckpointInv'
  <2> SUFFICES ASSUME CheckpointSize # 0 PROVE CheckpointInv'
    BY DEF CheckpointInv
  <2>1. last_checkpoint \in Nat /\ current.size \in Nat /\ CheckpointSize \in Nat
        /\ end \in Nat
    BY StorageAssumption, <1>3 DEF TypeOK, Metadata
  <2>2. last_checkpoint <= current.size
    BY <1>1 DEF CheckpointInv
  <2>3. pc' = "ready" => end < CheckpointSize
    BY <1>1, <1>5, <2>1, <2>2 DEF CheckpointIsDue
  <2> QED BY <1>1, <2>2, <2>3 DEF CheckpointInv
<1> QED BY <1>7, <1>8, <1>9, <1>10, <1>11, <1>12

\* The end of close_binlog finds the whole buffer flushed.
LEMMA ClosePreserves == IInv /\ Close => IInv'
<1> SUFFICES ASSUME IInv, Close PROVE IInv'
  OBVIOUS
<1> USE DEF IInv, Close, close_binlog, objects, bounds
<1>1. CASE has_event_data_to_flush
  <2>1. /\ boundary # 0 /\ pc' = "flush_write" /\ after' = "close"
        /\ UNCHANGED <<event_buffer, stream, tmp, last_checkpoint>>
    BY <1>1 DEF has_event_data_to_flush
  <2>2. TypeOK'
    BY <2>1 DEF TypeOK, BackendCalls
  <2>3. StreamInv' /\ BufferInv'
    BY <2>1 DEF StreamInv, BufferInv, BackendCalls, Opening, Flushing
  <2>4. ObjectsInv' /\ SizesInv' /\ CheckpointInv'
    BY <2>1 DEF ObjectsInv, SizesInv, CheckpointInv, Flushing
  <2> QED BY <2>2, <2>3, <2>4
<1>2. CASE ~has_event_data_to_flush
  <2>1. /\ boundary = 0 /\ boundary = Len(event_buffer)
        /\ pc' = "ready" /\ after' = "none" /\ stream' = NoName /\ tmp' = << >>
        /\ event_buffer' = << >> /\ last_checkpoint' \in {current.size, last_checkpoint}
    BY <1>2 DEF has_event_data_to_flush, CloseStream, CheckpointAt
  <2>2. TypeOK'
    <3>1. current.size \in Nat /\ last_checkpoint \in Nat
      BY DEF TypeOK, Metadata
    <3>2. /\ last_checkpoint' \in Nat /\ tmp' \in Seq(Event)
          /\ event_buffer' \in Seq(Event) /\ boundary' \in 0 .. Len(event_buffer')
      BY <2>1, <3>1
    <3> QED BY <2>1, <3>2 DEF TypeOK
  <2>3. StreamInv' /\ BufferInv'
    BY <2>1 DEF StreamInv, BufferInv, BackendCalls, Opening, Flushing
  <2>4. ObjectsInv' /\ SizesInv' /\ CheckpointInv'
    BY <2>1 DEF ObjectsInv, SizesInv, CheckpointInv, Flushing
  <2> QED BY <2>2, <2>3, <2>4
<1> QED BY <1>1, <1>2

LEMMA DiscardPreserves == IInv /\ DiscardAndFlush => IInv'
<1> SUFFICES ASSUME IInv, DiscardAndFlush PROVE IInv'
  OBVIOUS
<1> USE DEF IInv, DiscardAndFlush, objects, bounds
<1>1. /\ event_buffer' \in Seq(Event) /\ Len(event_buffer') = boundary
      /\ boundary \in Nat /\ boundary' = boundary
      /\ boundary # 0 => event_buffer'[boundary] = event_buffer[boundary]
      /\ boundary = 0 => event_buffer' = << >>
  BY DEF TypeOK
<1>2. \/ pc' = "flush_write" /\ after' = "lost" /\ boundary # 0
      \/ pc' = pc /\ after' = after /\ boundary = 0
  BY DEF has_event_data_to_flush
<1>3. TypeOK'
  BY <1>1, <1>2, EmptyTypes DEF TypeOK, BackendCalls
<1>4. StreamInv'
  BY <1>1, <1>2 DEF StreamInv, BackendCalls, Opening, Flushing
<1>5. BufferInv'
  BY <1>1, <1>2 DEF BufferInv, StreamInv
<1>6. ObjectsInv' /\ SizesInv' /\ CheckpointInv'
  BY <1>1, <1>2 DEF ObjectsInv, SizesInv, CheckpointInv, Flushing
<1> QED BY <1>3, <1>4, <1>5, <1>6

-----------------------------------------------------------------------------
(* The backend calls preserve the invariant *)

\* A write to the open stream appends to the payload, or replaces it by the
\* temporary file with the data appended to it.
LEMMA WriteToStreamFacts ==
  ASSUME TypeOK, stream \in BinlogName, NEW d \in Seq(Event), WriteToStream(d)
  PROVE  /\ payloads' = payloads \cup {stream}
         /\ payload' \in [BinlogName -> Seq(Event)] /\ tmp' \in Seq(Event)
         /\ \A n \in BinlogName \ {stream} : payload'[n] = payload[n]
         /\ EndsAtBoundary(d) => EndsAtBoundary(payload'[stream])
         /\ Backend # "s3" => Len(payload'[stream]) = Len(payload[stream]) + Len(d)
         /\ Backend = "s3" => /\ payload'[stream] = tmp'
                             /\ Len(tmp') = Len(tmp) + Len(d)
<1> USE DEF WriteToStream, StreamContent
<1>1. payload \in [BinlogName -> Seq(Event)] /\ tmp \in Seq(Event)
  BY DEF TypeOK
<1>2. /\ StreamContent(d) \in Seq(Event)
      /\ EndsAtBoundary(d) => EndsAtBoundary(StreamContent(d))
      /\ Backend # "s3" => Len(StreamContent(d)) = Len(payload[stream]) + Len(d)
      /\ Backend = "s3" => Len(StreamContent(d)) = Len(tmp) + Len(d)
  <2>1. CASE Backend = "s3"
    BY <1>1, <2>1, AppendFacts
  <2>2. CASE Backend # "s3"
    BY <1>1, <2>2, AppendFacts
  <2> QED BY <2>1, <2>2
<1>3. payload'[stream] = StreamContent(d)
  BY <1>1 DEF WriteToStream
<1>4. payload' \in [BinlogName -> Seq(Event)]
  BY <1>1, <1>2
<1> QED BY <1>1, <1>2, <1>3, <1>4

LEMMA OpenMagicPreserves == IInv /\ OpenMagic => IInv'
<1> SUFFICES ASSUME IInv, OpenMagic PROVE IInv'
  OBVIOUS
<1> USE DEF IInv, buffers, bounds
<1>1. /\ pc = "open_magic" /\ pc' = "open_meta" /\ WriteToStream(<<Magic>>)
      /\ records' = Append(records, stream)
      /\ UNCHANGED <<initialized, index, metas, meta, after, purged_gtids, stream,
                     buffers, last_checkpoint, bounds>>
  BY DEF OpenMagic
<1>2. /\ stream \in BinlogName /\ index = records /\ stream \notin NameSet(index)
      /\ event_buffer = << >> /\ boundary = 0
  BY <1>1, SMTT(30) DEF TypeOK, StreamInv, ObjectsInv, BackendCalls, Opening
<1>3. /\ payloads' = payloads \cup {stream}
      /\ payload' \in [BinlogName -> Seq(Event)] /\ tmp' \in Seq(Event)
      /\ \A n \in BinlogName \ {stream} : payload'[n] = payload[n]
      /\ EndsAtBoundary(payload'[stream])
      /\ Len(payload'[stream]) >= 1
      /\ Backend = "s3" => Len(tmp') >= 1
  <2>1. <<Magic>> \in Seq(Event) /\ Len(<<Magic>>) = 1
    BY EmptyTypes
  <2>2. /\ payload[stream] \in Seq(Event) /\ tmp \in Seq(Event)
        /\ Len(payload[stream]) \in Nat /\ Len(tmp) \in Nat
    BY <1>2 DEF TypeOK
  <2>3. /\ payloads' = payloads \cup {stream}
        /\ payload' \in [BinlogName -> Seq(Event)] /\ tmp' \in Seq(Event)
        /\ \A n \in BinlogName \ {stream} : payload'[n] = payload[n]
        /\ EndsAtBoundary(<<Magic>>) => EndsAtBoundary(payload'[stream])
        /\ Backend # "s3" => Len(payload'[stream]) = Len(payload[stream]) + 1
        /\ Backend = "s3" => payload'[stream] = tmp' /\ Len(tmp') = Len(tmp) + 1
    <3> HIDE DEF IInv
    <3>1. TypeOK
      BY DEF IInv
    <3> QED BY <1>1, <1>2, <2>1, <3>1, WriteToStreamFacts
  <2> HIDE DEF IInv
  <2>4. Len(payload'[stream]) >= 1 /\ (Backend = "s3" => Len(tmp') >= 1)
    <3>1. CASE Backend = "s3"
      BY <2>2, <2>3, <3>1
    <3>2. CASE Backend # "s3"
      BY <2>2, <2>3, <3>2
    <3> QED BY <3>1, <3>2
  <2> QED BY <2>3, <2>4, EmptyTypes
<1>4. current' \in Metadata /\ current'.size = 1
  <2>1. get_gtids \subseteq Gtid
    BY DEF get_gtids, TypeOK, Metadata
  <2>2. current' = [EmptyRecord EXCEPT !.size = 1, !.previous = get_gtids]
    BY DEF OpenMagic, magic_binlog_offset
  <2> QED BY <2>1, <2>2, EmptyTypes DEF Metadata
<1>5. /\ records' \in Seq(BinlogName) /\ records' # << >>
      /\ NameSet(records') = NameSet(index) \cup {stream}
      /\ records'[Len(records')] = stream
  <2>1. records \in Seq(BinlogName)
    BY DEF TypeOK
  <2> HIDE DEF IInv
  <2>2. /\ Append(records, stream) # << >>
        /\ NameSet(Append(records, stream)) = NameSet(records) \cup {stream}
        /\ Append(records, stream)[Len(Append(records, stream))] = stream
    BY <1>2, <2>1, NameSetFacts
  <2>3. Append(records, stream) \in Seq(BinlogName)
    BY <1>2, <2>1
  <2> QED BY <1>1, <1>2, <2>2, <2>3
<1>6. TypeOK'
  BY <1>1, <1>2, <1>3, <1>4, <1>5 DEF TypeOK, BackendCalls
<1>7. StreamInv' /\ BufferInv'
  BY <1>1 DEF StreamInv, BufferInv, BackendCalls, Opening, Flushing
<1>8. ObjectsInv'
  BY <1>1, <1>2, <1>3, <1>5 DEF ObjectsInv, Flushing
<1>9. SizesInv'
  BY <1>1, <1>2, <1>3, <1>4, <1>5, NameSetFacts DEF SizesInv, TypeOK, Flushing
<1>10. CheckpointInv'
  BY <1>1 DEF CheckpointInv, Flushing
<1> QED BY <1>6, <1>7, <1>8, <1>9, <1>10

\* What saving the metadata of the current file does to the objects.
LEMMA SaveFacts ==
  ASSUME TypeOK, stream \in BinlogName, SaveBinlogMetadata
  PROVE  /\ metas' = metas \cup {stream} /\ metas' \subseteq BinlogName
         /\ meta' \in [BinlogName -> Metadata]
         /\ meta'[stream] = current
         /\ \A n \in BinlogName \ {stream} : meta'[n] = meta[n]
BY DEF TypeOK, SaveBinlogMetadata

LEMMA OpenMetaPreserves == IInv /\ OpenMeta => IInv'
<1> SUFFICES ASSUME IInv, OpenMeta PROVE IInv'
  OBVIOUS
<1> USE DEF IInv, OpenMeta, memory, buffers, bounds
<1>1. /\ stream \in BinlogName /\ stream \notin NameSet(index)
      /\ stream = records[Len(records)] /\ records # << >>
  BY DEF TypeOK, StreamInv, ObjectsInv, BackendCalls
<1>2. /\ metas' = metas \cup {stream} /\ metas' \subseteq BinlogName
      /\ meta' \in [BinlogName -> Metadata] /\ meta'[stream] = current
      /\ \A n \in BinlogName \ {stream} : meta'[n] = meta[n]
  BY <1>1, SaveFacts
<1>3. TypeOK'
  BY <1>2 DEF TypeOK, BackendCalls
<1>4. StreamInv' /\ BufferInv'
  BY DEF StreamInv, BufferInv, BackendCalls, Opening, Flushing
<1>5. ObjectsInv'
  BY <1>1, <1>2 DEF ObjectsInv, Flushing
<1>6. SizesInv'
  BY <1>1, <1>2, NameSetFacts DEF SizesInv, TypeOK, Flushing
<1>7. CheckpointInv'
  BY DEF CheckpointInv, Flushing
<1> QED BY <1>3, <1>4, <1>5, <1>6, <1>7

LEMMA OpenIndexPreserves == IInv /\ OpenIndex => IInv'
<1> SUFFICES ASSUME IInv, OpenIndex PROVE IInv'
  OBVIOUS
<1> USE DEF IInv, OpenIndex, bounds
<1>1. /\ stream \in BinlogName /\ stream = records[Len(records)]
      /\ NameSet(records) = NameSet(index) \cup {stream}
      /\ event_buffer = << >> /\ boundary = 0
  BY SMTT(30) DEF TypeOK, StreamInv, ObjectsInv, BackendCalls, Opening
<1>2. current.size \in Nat /\ get_current_position = current.size
  BY <1>1 DEF TypeOK, Metadata, get_current_position
<1>3. last_checkpoint' \in Nat /\ (CheckpointSize # 0 => last_checkpoint' = current.size)
  BY <1>2 DEF CheckpointAt, TypeOK
<1>4. TypeOK'
  BY <1>3, StorageAssumption DEF TypeOK
<1>5. StreamInv' /\ BufferInv'
  BY DEF StreamInv, BufferInv, BackendCalls, Opening, Flushing
<1>6. ObjectsInv'
  BY <1>1 DEF ObjectsInv, Flushing
<1>7. SizesInv'
  BY <1>1 DEF SizesInv, Flushing
<1>8. CheckpointInv'
  BY <1>1, <1>2, <1>3, StorageAssumption DEF CheckpointInv, Flushing
<1> QED BY <1>4, <1>5, <1>6, <1>7, <1>8

\* The part of the buffer that a flush writes ends a transaction.
LEMMA ReadyEventsFacts ==
  ASSUME TypeOK, BufferInv, boundary # 0
  PROVE  /\ ReadyEvents \in Seq(Event) /\ Len(ReadyEvents) = boundary
         /\ boundary \in Nat /\ EndsAtBoundary(ReadyEvents)
<1>1. /\ event_buffer \in Seq(Event) /\ boundary \in 0 .. Len(event_buffer)
      /\ event_buffer[boundary].boundary
  BY DEF TypeOK, BufferInv
<1> QED BY <1>1, AppendFacts DEF ReadyEvents

\* While a file is flushed the open stream is the latest file of the index.
LEMMA FlushingFacts ==
  ASSUME IInv, pc \in Flushing
  PROVE  /\ stream \in BinlogName /\ index = records /\ boundary # 0
         /\ stream \in NameSet(index) /\ stream = records[Len(records)]
         /\ records # << >> /\ current.size \in Nat
         /\ current.size <= Len(payload[stream])
         /\ Backend = "s3" => current.size <= Len(tmp) /\ meta[stream].size <= Len(tmp)
<1>1. /\ stream \in BinlogName /\ index = records /\ boundary # 0
      /\ stream \in NameSet(index) /\ stream = records[Len(records)]
      /\ current.size \in Nat
  BY DEF IInv, TypeOK, StreamInv, ObjectsInv, BackendCalls, Flushing, Metadata
<1>2. records # << >>
  BY <1>1, NameSetFacts DEF IInv, TypeOK
<1>3. stream # NoName
  BY <1>1, StorageAssumption
<1> QED BY <1>1, <1>2, <1>3 DEF IInv, SizesInv

LEMMA FlushWritePreserves == IInv /\ FlushWrite => IInv'
<1> SUFFICES ASSUME IInv, FlushWrite PROVE IInv'
  OBVIOUS
<1>1. /\ pc = "flush_write" /\ pc' = "flush_meta" /\ WriteToStream(ReadyEvents)
      /\ UNCHANGED <<initialized, index, metas, meta, after, purged_gtids, records,
                     stream, buffers, last_checkpoint, bounds>>
  BY DEF FlushWrite
<1>2. TypeOK /\ StreamInv /\ BufferInv /\ ObjectsInv /\ SizesInv /\ CheckpointInv
  BY DEF IInv
<1>3. /\ stream \in BinlogName /\ index = records /\ boundary # 0
      /\ stream \in NameSet(index) /\ stream = records[Len(records)]
      /\ records # << >> /\ current.size \in Nat
      /\ current.size <= Len(payload[stream])
      /\ Backend = "s3" => current.size <= Len(tmp) /\ meta[stream].size <= Len(tmp)
  BY <1>1, FlushingFacts DEF Flushing
<1>4. /\ ReadyEvents \in Seq(Event) /\ Len(ReadyEvents) = boundary
      /\ boundary \in Nat /\ EndsAtBoundary(ReadyEvents)
  BY <1>2, <1>3, ReadyEventsFacts
<1>5. /\ payloads' = payloads \cup {stream}
      /\ payload' \in [BinlogName -> Seq(Event)] /\ tmp' \in Seq(Event)
      /\ \A n \in BinlogName \ {stream} : payload'[n] = payload[n]
      /\ EndsAtBoundary(payload'[stream])
      /\ Backend # "s3" => Len(payload'[stream]) = Len(payload[stream]) + boundary
      /\ Backend = "s3" => payload'[stream] = tmp' /\ Len(tmp') = Len(tmp) + boundary
  BY <1>1, <1>2, <1>3, <1>4, WriteToStreamFacts
<1>6. current' \in Metadata /\ current'.size = current.size + boundary
  <2>1. /\ current \in Metadata /\ add_range(current.ts, ready_ts) \in TimestampRange
        /\ gtids_in_event_buffer \subseteq Gtid /\ ready_seq \in SequenceNumber
    BY <1>2, RangeType DEF TypeOK, Metadata, TimestampRange
  <2>2. current' = [current EXCEPT !.size = @ + boundary,
                                   !.added = @ \cup gtids_in_event_buffer,
                                   !.ts = add_range(@, ready_ts),
                                   !.seq = ready_seq]
    BY DEF FlushWrite
  <2>3. /\ current.size + boundary \in Nat
        /\ current.added \cup gtids_in_event_buffer \in SUBSET Gtid
        /\ add_range(current.ts, ready_ts) \in [min : Nat, max : Nat]
    <3>1. current.size + boundary \in Nat
      BY <1>3, <1>4
    <3>2. current.added \subseteq Gtid
      BY <2>1 DEF Metadata
    <3> QED BY <2>1, <3>1, <3>2 DEF TimestampRange
  <2>4. \E s \in Nat, a \in SUBSET Gtid, t \in [min : Nat, max : Nat],
            q \in SequenceNumber :
          /\ s = current.size + boundary
          /\ current' = [current EXCEPT !.size = s, !.added = a, !.ts = t, !.seq = q]
    BY <2>1, <2>2, <2>3, Zenon
  <2> QED BY <2>1, <2>4 DEF Metadata
<1>7. /\ Len(payload[stream]) \in Nat /\ Len(tmp) \in Nat
      /\ \A n \in BinlogName : meta[n].size \in Nat
  <2>1. payload[stream] \in Seq(Event) /\ tmp \in Seq(Event)
    BY <1>2, <1>3 DEF TypeOK
  <2>2. \A n \in BinlogName : meta[n].size \in Nat
    BY <1>2 DEF TypeOK, Metadata
  <2> QED BY <2>1, <2>2
<1>8. TypeOK'
  <2>1. payloads' \subseteq BinlogName
    BY <1>2, <1>3, <1>5 DEF TypeOK
  <2> QED BY <1>1, <1>2, <1>5, <1>6, <2>1 DEF TypeOK, BackendCalls, buffers, bounds
<1>9. StreamInv' /\ BufferInv'
  BY <1>1, <1>2, <1>3
  DEF StreamInv, BufferInv, BackendCalls, Opening, Flushing, buffers
<1>10. ObjectsInv'
  BY <1>1, <1>2, <1>3, <1>5 DEF ObjectsInv, Flushing
<1>11. SizesInv'
  <2>1. /\ meta[stream].size <= Len(payload[stream])
        /\ \A n \in NameSet(index) : n \in BinlogName
    BY <1>2, <1>3, NameSetFacts DEF SizesInv, TypeOK
  <2>2. /\ current'.size <= Len(payload'[stream])
        /\ meta[stream].size <= Len(payload'[stream])
        /\ Backend = "s3" => /\ current'.size <= Len(tmp')
                            /\ meta[stream].size <= Len(tmp')
    BY <1>3, <1>4, <1>5, <1>6, <1>7, <2>1, SMTT(30)
  <2> QED BY <1>1, <1>2, <1>3, <1>5, <2>1, <2>2 DEF SizesInv, Flushing
<1>12. CheckpointInv'
  <2>1. last_checkpoint \in Nat
    BY <1>2 DEF TypeOK
  <2> QED BY <1>1, <1>2, <1>3, <1>4, <1>6, <2>1
          DEF CheckpointInv, Flushing, buffers
<1> QED BY <1>8, <1>9, <1>10, <1>11, <1>12 DEF IInv

\* What is said of the objects holds after the metadata of the file that is
\* being flushed has been saved: the payload was written before.
LEMMA FlushSaveFacts ==
  ASSUME IInv, pc = "flush_meta", SaveBinlogMetadata,
         UNCHANGED <<index, payloads, payload>>
  PROVE  /\ (metas \subseteq BinlogName)' /\ (meta \in [BinlogName -> Metadata])'
         /\ (NameSet(index) \subseteq payloads \cap metas)'
         /\ (\A n \in NameSet(index) :
               /\ meta[n].size <= Len(payload[n])
               /\ meta[n].size = Len(payload[n]) => EndsAtBoundary(payload[n]))'
         /\ meta'[stream] = current
<1>1. /\ stream \in BinlogName /\ stream \in NameSet(index)
      /\ current.size <= Len(payload[stream])
  BY FlushingFacts DEF Flushing
<1>2. /\ metas' = metas \cup {stream} /\ metas' \subseteq BinlogName
      /\ meta' \in [BinlogName -> Metadata] /\ meta'[stream] = current
      /\ \A n \in BinlogName \ {stream} : meta'[n] = meta[n]
  BY <1>1, SaveFacts DEF IInv
<1>3. NameSet(index) \subseteq BinlogName
  BY NameSetFacts DEF IInv, TypeOK
<1>4. EndsAtBoundary(payload[stream])
  BY DEF IInv, SizesInv
<1> QED BY <1>1, <1>2, <1>3, <1>4 DEF IInv, ObjectsInv, SizesInv

LEMMA FlushMetaPreserves == IInv /\ FlushMeta => IInv'
<1> SUFFICES ASSUME IInv, FlushMeta PROVE IInv'
  OBVIOUS
<1>1. /\ pc = "flush_meta" /\ SaveBinlogMetadata
      /\ UNCHANGED <<initialized, index, payloads, payload, crashes, failures>>
  BY DEF FlushMeta, bounds
<1>2. TypeOK /\ StreamInv /\ BufferInv /\ ObjectsInv /\ SizesInv /\ CheckpointInv
  BY DEF IInv
<1>3. /\ (metas \subseteq BinlogName)' /\ (meta \in [BinlogName -> Metadata])'
      /\ (NameSet(index) \subseteq payloads \cap metas)'
      /\ (\A n \in NameSet(index) :
            /\ meta[n].size <= Len(payload[n])
            /\ meta[n].size = Len(payload[n]) => EndsAtBoundary(payload[n]))'
      /\ meta'[stream] = current
  BY <1>1, FlushSaveFacts
<1>4. CASE after = "destroy"
  <2>1. pc' = "down" /\ ForgetMemory
    BY <1>4 DEF FlushMeta
  <2> QED BY <1>1, <1>2, <1>3, <2>1, ForgetPreserves DEF TypeOK
<1>5. CASE after # "destroy"
  <2>1. /\ pc' = "ready" /\ after' = "none" /\ boundary' = 0
        /\ gtids_in_event_buffer' = {} /\ ready_ts' = EmptyRange
        /\ UNCHANGED <<purged_gtids, records, current, incomplete_ts, ready_seq,
                       incomplete_seq>>
    BY <1>5 DEF FlushMeta, CloseStream
  <2>2. /\ stream \in BinlogName /\ index = records /\ boundary # 0
        /\ stream \in NameSet(index) /\ stream = records[Len(records)]
        /\ records # << >> /\ current.size \in Nat
        /\ current.size <= Len(payload[stream])
        /\ Backend = "s3" => current.size <= Len(tmp)
    BY <1>1, FlushingFacts DEF Flushing
  <2>3. /\ event_buffer' \in Seq(Event) /\ Len(event_buffer') \in Nat
        /\ event_buffer' = << >> \/ ~(after = "close")
        /\ Len(event_buffer') = 0 => incomplete_ts' = EmptyRange
    <3>1. event_buffer \in Seq(Event) /\ boundary \in 0 .. Len(event_buffer)
      BY <1>2 DEF TypeOK
    <3>2. CASE after = "close"
      <4>1. event_buffer' = << >> /\ boundary = Len(event_buffer)
        BY <1>2, <3>2 DEF FlushMeta, CloseStream, BufferInv
      <4> QED BY <1>2, <2>1, <4>1 DEF BufferInv
    <3>3. CASE after # "close"
      <4>1. event_buffer' = SubSeq(event_buffer, boundary + 1, Len(event_buffer))
        BY <1>5, <3>3 DEF FlushMeta
      <4>2. event_buffer' \in Seq(Event) /\ Len(event_buffer') = Len(event_buffer) - boundary
        BY <3>1, <4>1, AppendFacts
      <4> QED BY <1>2, <2>1, <3>1, <3>3, <4>2 DEF BufferInv
    <3> QED BY <3>2, <3>3
  <2>4. /\ \/ stream' = NoName /\ tmp' = << >> /\ event_buffer' = << >>
           \/ UNCHANGED <<stream, tmp>>
        /\ last_checkpoint' \in {current.size, last_checkpoint}
    BY <1>5 DEF FlushMeta, CloseStream, CheckpointAt
  <2>5. TypeOK'
    <3>1. stream' \in BinlogName \cup {NoName} /\ tmp' \in Seq(Event)
      <4>1. tmp \in Seq(Event) /\ << >> \in Seq(Event)
        BY <1>2 DEF TypeOK
      <4> QED BY <2>2, <2>4, <4>1
    <3>2. boundary' \in 0 .. Len(event_buffer')
      BY <2>1, <2>3
    <3>3. last_checkpoint' \in Nat
      <4>1. last_checkpoint \in Nat
        BY <1>2 DEF TypeOK
      <4> QED BY <2>2, <2>4, <4>1
    <3> QED BY <1>1, <1>2, <1>3, <2>1, <2>3, <3>1, <3>2, <3>3, EmptyTypes DEF TypeOK
  <2>6. StreamInv'
    BY <2>1, <2>2, <2>4, StorageAssumption
    DEF StreamInv, BackendCalls, Opening, Flushing
  <2>7. BufferInv'
    BY <2>1, <2>3 DEF BufferInv
  <2>8. ObjectsInv'
    BY <1>1, <1>3, <2>1, <2>2, <2>4 DEF ObjectsInv, Flushing
  <2>9. SizesInv'
    BY <1>1, <1>3, <2>1, <2>2, <2>4 DEF SizesInv, Flushing
  <2>10. CheckpointInv'
    BY <1>1, <1>2, <2>1, <2>2, <2>4, StorageAssumption, SMTT(30) DEF CheckpointInv, Flushing
  <2> QED BY <2>5, <2>6, <2>7, <2>8, <2>9, <2>10 DEF IInv
<1> QED BY <1>4, <1>5

-----------------------------------------------------------------------------
(* Failures and kills preserve the invariant *)

\* What a write under way is about to add, and where.
LEMMA DataToWriteFacts ==
  ASSUME IInv, pc \in {"open_magic", "flush_write"}
  PROVE  /\ stream \in BinlogName /\ DataToWrite \in Seq(Event)
         /\ EndsAtBoundary(DataToWrite)
         /\ pc = "open_magic" => stream \notin NameSet(index)
<1>1. TypeOK /\ StreamInv /\ BufferInv /\ ObjectsInv
  BY DEF IInv
<1>2. stream \in BinlogName
  BY <1>1 DEF TypeOK, StreamInv, BackendCalls
<1>3. CASE pc = "open_magic"
  <2>1. DataToWrite = <<Magic>> /\ stream \notin NameSet(index)
    BY <1>1, <1>3 DEF DataToWrite, ObjectsInv
  <2> QED BY <1>2, <1>3, <2>1, EmptyTypes
<1>4. CASE pc = "flush_write"
  <2>1. DataToWrite = ReadyEvents /\ boundary # 0
    BY <1>1, <1>4 DEF DataToWrite, StreamInv, Flushing
  <2> QED BY <1>1, <1>2, <1>4, <2>1, ReadyEventsFacts
<1> QED BY <1>3, <1>4

\* A part of the data in a directory file makes it longer than its metadata says,
\* so the constructor will not accept it.
LEMMA WritePartFacts ==
  ASSUME IInv, pc \in {"open_magic", "flush_write"}, WritePart,
         UNCHANGED <<index, meta>>
  PROVE  /\ payload' \in [BinlogName -> Seq(Event)]
         /\ (\A n \in NameSet(index) :
               /\ meta[n].size <= Len(payload[n])
               /\ meta[n].size = Len(payload[n]) => EndsAtBoundary(payload[n]))'
<1>1. PICK k \in 0 .. Len(DataToWrite) :
        payload' = [payload EXCEPT ![stream] = @ \o SubSeq(DataToWrite, 1, k)]
  BY DEF WritePart
<1>2. /\ stream \in BinlogName /\ DataToWrite \in Seq(Event)
      /\ payload \in [BinlogName -> Seq(Event)] /\ payload[stream] \in Seq(Event)
      /\ \A n \in BinlogName : meta[n].size \in Nat
      /\ NameSet(index) \subseteq BinlogName
  BY DataToWriteFacts, NameSetFacts DEF IInv, TypeOK, Metadata
<1> DEFINE part == SubSeq(DataToWrite, 1, k)
<1>3. /\ part \in Seq(Event) /\ Len(part) = k /\ k \in Nat
      /\ k = 0 => payload[stream] \o part = payload[stream]
  <2>1. DataToWrite \in Seq(Event) /\ payload[stream] \in Seq(Event)
    BY <1>2
  <2>2. /\ SubSeq(DataToWrite, 1, k) \in Seq(Event)
        /\ Len(SubSeq(DataToWrite, 1, k)) = k
        /\ k = 0 => payload[stream] \o SubSeq(DataToWrite, 1, k) = payload[stream]
    BY <2>1, AppendFacts, Zenon
  <2>3. k \in Nat
    BY <2>1
  <2> QED BY <2>2, <2>3
<1> HIDE DEF part
<1>4. /\ payload[stream] \o part \in Seq(Event)
      /\ Len(payload[stream] \o part) = Len(payload[stream]) + k
      /\ Len(payload[stream]) \in Nat
  <2>1. payload[stream] \in Seq(Event) /\ part \in Seq(Event) /\ Len(part) = k
    BY <1>2, <1>3
  <2> QED BY <2>1
<1>5. /\ payload' \in [BinlogName -> Seq(Event)]
      /\ payload'[stream] = payload[stream] \o part
      /\ \A n \in BinlogName \ {stream} : payload'[n] = payload[n]
  <2>1. payload' = [payload EXCEPT ![stream] = payload[stream] \o part]
    BY <1>1, <1>2 DEF part
  <2> QED BY <1>2, <1>4, <2>1
<1>6. ASSUME NEW n \in NameSet(index)
      PROVE  /\ meta[n].size <= Len(payload'[n])
             /\ meta[n].size = Len(payload'[n]) => EndsAtBoundary(payload'[n])
  <2>1. /\ meta[n].size <= Len(payload[n]) /\ n \in BinlogName
        /\ meta[n].size = Len(payload[n]) => EndsAtBoundary(payload[n])
    BY <1>2 DEF IInv, SizesInv
  <2>2. CASE n # stream
    BY <1>5, <2>1, <2>2
  <2>3. CASE n = stream /\ k = 0
    BY <1>3, <1>5, <2>1, <2>3
  <2>4. CASE n = stream /\ k # 0
    <3> DEFINE new == Len(payload[stream] \o part)
    <3>1. payload'[n] = payload[stream] \o part /\ meta[n].size \in Nat
      BY <1>2, <1>5, <2>4
    <3>2. meta[n].size <= Len(payload[stream])
      BY <2>1, <2>4
    <3>3. new = Len(payload[stream]) + k /\ Len(payload[stream]) \in Nat /\ k \in Nat
      BY <1>3, <1>4
    <3> HIDE DEF new
    <3>4. meta[n].size < new /\ new \in Nat
      BY <2>4, <3>1, <3>2, <3>3
    <3>5. meta[n].size <= new /\ meta[n].size # new
      BY <3>1, <3>4
    <3> QED BY <3>1, <3>5 DEF new
  <2> QED BY <2>2, <2>3, <2>4
<1> QED BY <1>5, <1>6

LEMMA KillPreserves == IInv /\ Kill => IInv'
<1> SUFFICES ASSUME IInv, Kill PROVE IInv'
  OBVIOUS
<1>1. /\ pc' = "down" /\ ForgetMemory
      /\ UNCHANGED <<initialized, index, payloads, metas, meta, failures>>
  BY DEF Kill
<1>2. crashes' \in 0 .. MaxCrashes
  BY StorageAssumption DEF Kill, IInv, TypeOK
<1>3. /\ payload' \in [BinlogName -> Seq(Event)]
      /\ (\A n \in NameSet(index) :
            /\ meta[n].size <= Len(payload[n])
            /\ meta[n].size = Len(payload[n]) => EndsAtBoundary(payload[n]))'
  <2>1. CASE Backend = "file" /\ pc \in {"open_magic", "flush_write"}
    BY <1>1, <2>1, WritePartFacts DEF Kill
  <2>2. CASE ~(Backend = "file" /\ pc \in {"open_magic", "flush_write"})
    <3>1. payload' = payload
      BY <2>2 DEF Kill
    <3> QED BY <1>1, <3>1 DEF IInv, TypeOK, SizesInv
  <2> QED BY <2>1, <2>2
<1> QED BY <1>1, <1>2, <1>3, ForgetPreserves DEF IInv, TypeOK, ObjectsInv

LEMMA FailsType ==
  ASSUME IInv, Fails
  PROVE  crashes' \in 0 .. MaxCrashes /\ failures' \in 0 .. MaxFailures
BY StorageAssumption DEF Fails, IInv, TypeOK

LEMMA WriteFailsPreserves == IInv /\ WriteFails => IInv'
<1> SUFFICES ASSUME IInv, WriteFails PROVE IInv'
  OBVIOUS
<1>1. /\ pc \in {"open_magic", "flush_write"} /\ Fails
      /\ UNCHANGED <<initialized, index, metas, meta>>
  BY DEF WriteFails
<1>2. crashes' \in 0 .. MaxCrashes /\ failures' \in 0 .. MaxFailures
  BY <1>1, FailsType
<1>3. TypeOK /\ ObjectsInv /\ SizesInv
  BY DEF IInv
<1>4. CASE /\ IF Backend = "file" THEN WritePart ELSE UNCHANGED payload
           /\ pc' = "down" /\ ForgetMemory
           /\ UNCHANGED payloads
  <2>1. /\ payload' \in [BinlogName -> Seq(Event)]
        /\ (\A n \in NameSet(index) :
              /\ meta[n].size <= Len(payload[n])
              /\ meta[n].size = Len(payload[n]) => EndsAtBoundary(payload[n]))'
    <3>1. CASE Backend = "file"
      BY <1>1, <1>4, <3>1, WritePartFacts
    <3>2. CASE Backend # "file"
      BY <1>1, <1>3, <1>4, <3>2 DEF TypeOK, SizesInv
    <3> QED BY <3>1, <3>2
  <2> QED BY <1>1, <1>2, <1>3, <1>4, <2>1, ForgetPreserves DEF TypeOK, ObjectsInv
<1>5. CASE /\ Backend = "s3"
           /\ \/ UNCHANGED <<payloads, payload>>
              \/ /\ payloads' = payloads \cup {stream}
                 /\ payload' = [payload EXCEPT ![stream] = tmp \o DataToWrite]
           /\ Unwind(tmp \o DataToWrite)
  <2> DEFINE uploaded == tmp \o DataToWrite
  <2>1. /\ stream \in BinlogName /\ DataToWrite \in Seq(Event)
        /\ EndsAtBoundary(DataToWrite)
        /\ pc = "open_magic" => stream \notin NameSet(index)
        /\ tmp \in Seq(Event) /\ payload \in [BinlogName -> Seq(Event)]
        /\ NameSet(index) \subseteq BinlogName
        /\ Len(tmp) \in Nat /\ Len(DataToWrite) \in Nat
        /\ \A n \in BinlogName : meta[n].size \in Nat
    <3>1. /\ stream \in BinlogName /\ DataToWrite \in Seq(Event)
          /\ EndsAtBoundary(DataToWrite)
          /\ pc = "open_magic" => stream \notin NameSet(index)
      BY <1>1, DataToWriteFacts
    <3>2. /\ tmp \in Seq(Event) /\ payload \in [BinlogName -> Seq(Event)]
          /\ index \in Seq(BinlogName)
          /\ \A n \in BinlogName : meta[n].size \in Nat
      BY <1>3 DEF TypeOK, Metadata
    <3>3. NameSet(index) \subseteq BinlogName
      BY <3>2, NameSetFacts
    <3>4. Len(tmp) \in Nat /\ Len(DataToWrite) \in Nat
      BY <3>1, <3>2
    <3> QED BY <3>1, <3>2, <3>3, <3>4
  <2>2. /\ uploaded \in Seq(Event) /\ EndsAtBoundary(uploaded)
        /\ Len(uploaded) = Len(tmp) + Len(DataToWrite)
    BY <2>1, AppendFacts
  <2>3. pc = "flush_write" =>
          /\ stream \in NameSet(index) /\ current.size \in Nat
          /\ current.size <= Len(payload[stream])
          /\ current.size <= Len(tmp) /\ meta[stream].size <= Len(tmp)
    BY <1>5, FlushingFacts DEF Flushing
  <2>4. pc = "flush_write" =>
          current.size <= Len(uploaded) /\ meta[stream].size <= Len(uploaded)
    BY <2>1, <2>2, <2>3
  <2>5. /\ (payloads \subseteq BinlogName)'
        /\ (payload \in [BinlogName -> Seq(Event)])'
        /\ payloads \subseteq payloads'
        /\ payload'[stream] \in {payload[stream], uploaded}
        /\ \A n \in BinlogName \ {stream} : payload'[n] = payload[n]
    BY <1>3, <1>5, <2>1, <2>2 DEF TypeOK
  <2>6. (\A n \in NameSet(index) :
           /\ meta[n].size <= Len(payload[n])
           /\ meta[n].size = Len(payload[n]) => EndsAtBoundary(payload[n]))'
    <3>1. ASSUME NEW n \in NameSet(index)
          PROVE  /\ meta[n].size <= Len(payload'[n])
                 /\ meta[n].size = Len(payload'[n]) => EndsAtBoundary(payload'[n])
      <4>1. CASE payload'[n] = payload[n]
        BY <1>3, <4>1 DEF SizesInv
      <4>2. CASE payload'[n] # payload[n]
        <5>1. n = stream /\ pc = "flush_write" /\ payload'[n] = uploaded
          BY <1>1, <2>1, <2>5, <4>2
        <5> QED BY <2>2, <2>4, <5>1
      <4> QED BY <4>1, <4>2
    <3> QED BY <1>1, <3>1
  <2>7. (NameSet(index) \subseteq payloads \cap metas)'
    BY <1>1, <1>3, <2>5 DEF ObjectsInv
  <2>8. pc \in Flushing =>
          /\ UNCHANGED index
          /\ current.size <= Len(payload'[stream])
          /\ Backend = "s3" => /\ current.size <= Len(uploaded)
                              /\ meta'[stream].size <= Len(uploaded)
    BY <1>1, <2>3, <2>4, <2>5 DEF Flushing
  <2>9. Unwind(uploaded) /\ pc \in BackendCalls
    BY <1>1, <1>5 DEF BackendCalls
  <2>10. /\ (initialized \in BOOLEAN)' /\ (index \in Seq(BinlogName))'
         /\ (metas \subseteq BinlogName)' /\ (meta \in [BinlogName -> Metadata])'
    BY <1>1, <1>3 DEF TypeOK
  <2> HIDE DEF uploaded
  <2> QED BY <1>2, <2>2, <2>5, <2>6, <2>7, <2>8, <2>9, <2>10, UnwindPreserves
<1> QED BY <1>4, <1>5 DEF WriteFails

LEMMA PutFailsPreserves == IInv /\ PutFails => IInv'
<1> SUFFICES ASSUME IInv, PutFails PROVE IInv'
  OBVIOUS
<1>1. /\ Unwind(tmp) /\ Fails /\ pc \in BackendCalls
      /\ UNCHANGED <<initialized, payloads, payload>>
  BY DEF PutFails, BackendCalls
<1>2. crashes' \in 0 .. MaxCrashes /\ failures' \in 0 .. MaxFailures
  BY <1>1, FailsType
<1>3. TypeOK /\ StreamInv /\ ObjectsInv /\ SizesInv
  BY DEF IInv
<1>4. stream \in BinlogName
  BY <1>1, <1>3 DEF TypeOK, StreamInv
<1>5. NameSet(index) \subseteq BinlogName
  BY <1>3, NameSetFacts DEF TypeOK
<1> DEFINE Kept ==
      /\ (index \in Seq(BinlogName))'
      /\ (metas \subseteq BinlogName)' /\ (meta \in [BinlogName -> Metadata])'
      /\ (NameSet(index) \subseteq payloads \cap metas)'
      /\ (\A n \in NameSet(index) :
            /\ meta[n].size <= Len(payload[n])
            /\ meta[n].size = Len(payload[n]) => EndsAtBoundary(payload[n]))'
      /\ pc \in Flushing =>
           /\ UNCHANGED index
           /\ current.size <= Len(payload'[stream])
           /\ Backend = "s3" => /\ current.size <= Len(tmp)
                               /\ meta'[stream].size <= Len(tmp)
<1>6. SUFFICES Kept
  <2>1. /\ (initialized \in BOOLEAN)' /\ tmp \in Seq(Event)
        /\ (payloads \subseteq BinlogName)'
        /\ (payload \in [BinlogName -> Seq(Event)])'
    BY <1>1, <1>3 DEF TypeOK
  <2> QED BY <1>1, <1>2, <2>1, UnwindPreserves
<1>7. CASE UNCHANGED <<index, metas, meta>>
  <2>1. pc \in Flushing =>
          /\ current.size <= Len(payload[stream])
          /\ Backend = "s3" => current.size <= Len(tmp) /\ meta[stream].size <= Len(tmp)
    BY FlushingFacts
  <2> QED BY <1>1, <1>3, <1>7, <2>1 DEF TypeOK, ObjectsInv, SizesInv
<1>8. CASE pc = "open_meta" /\ SaveBinlogMetadata /\ UNCHANGED index
  <2>1. /\ metas' = metas \cup {stream} /\ metas' \subseteq BinlogName
        /\ meta' \in [BinlogName -> Metadata]
        /\ \A n \in BinlogName \ {stream} : meta'[n] = meta[n]
    BY <1>3, <1>4, <1>8, SaveFacts
  <2>2. stream \notin NameSet(index) /\ pc \notin Flushing
    BY <1>3, <1>8 DEF ObjectsInv, Flushing
  <2> QED BY <1>1, <1>3, <1>5, <1>8, <2>1, <2>2 DEF TypeOK, ObjectsInv, SizesInv
<1>9. CASE pc = "flush_meta" /\ SaveBinlogMetadata /\ UNCHANGED index
  <2>1. /\ current.size <= Len(payload[stream])
        /\ Backend = "s3" => current.size <= Len(tmp)
    BY <1>9, FlushingFacts DEF Flushing
  <2>2. meta'[stream] = current
    BY <1>1, <1>9, FlushSaveFacts
  <2> QED BY <1>1, <1>3, <1>9, <2>1, <2>2, FlushSaveFacts DEF TypeOK
<1>10. CASE pc = "open_index" /\ index' = records /\ UNCHANGED <<metas, meta>>
  <2>1. /\ NameSet(records) = NameSet(index) \cup {stream} /\ pc \notin Flushing
        /\ stream \in payloads /\ stream \in metas
        /\ meta[stream].size <= Len(payload[stream])
        /\ EndsAtBoundary(payload[stream])
    BY <1>3, <1>10 DEF ObjectsInv, SizesInv, Flushing
  <2> QED BY <1>1, <1>3, <1>10, <2>1 DEF TypeOK, ObjectsInv, SizesInv
<1> QED BY <1>7, <1>8, <1>9, <1>10 DEF PutFails

-----------------------------------------------------------------------------
(* The theorems *)

LEMMA NextPreserves == IInv /\ [Next]_vars => IInv'
<1> SUFFICES ASSUME IInv, [Next]_vars PROVE IInv'
  OBVIOUS
<1>1. CASE Construct
  BY <1>1, ConstructPreserves
<1>2. CASE Call
  BY <1>2, SetPurgedPreserves, OpenPreserves, WritePreserves, ClosePreserves,
     DiscardPreserves, StopPreserves DEF Call
<1>3. CASE BackendStep
  BY <1>3, OpenMagicPreserves, OpenMetaPreserves, OpenIndexPreserves,
     FlushWritePreserves, FlushMetaPreserves DEF BackendStep
<1>4. CASE WriteFails \/ PutFails \/ Kill
  BY <1>4, WriteFailsPreserves, PutFailsPreserves, KillPreserves
<1>5. CASE UNCHANGED vars
  <2> USE <1>5 DEF vars, objects, memory, buffers, bounds
  <2>1. TypeOK'
    BY DEF IInv, TypeOK
  <2>2. StreamInv' /\ BufferInv'
    BY DEF IInv, StreamInv, BufferInv
  <2>3. ObjectsInv' /\ SizesInv' /\ CheckpointInv'
    BY DEF IInv, ObjectsInv, SizesInv, CheckpointInv
  <2> QED BY <2>1, <2>2, <2>3 DEF IInv
<1> QED BY <1>1, <1>2, <1>3, <1>4, <1>5 DEF Next

LEMMA InvariantHolds == Spec => []IInv
BY InitEstablishes, NextPreserves, PTL DEF Spec

\* Every variable has its type, whatever is killed or fails: in particular no
\* write reaches a stream that is not open, and the transaction boundary never
\* lies beyond the end of the event buffer.
THEOREM TypeCorrect == Spec => []TypeOK
<1>1. IInv => TypeOK
  BY DEF IInv
<1> QED BY <1>1, InvariantHolds, PTL

\* A file of the index has its payload and its metadata at every point at which
\* open_new_binlog_file_internal and the flush can be interrupted or can fail.
THEOREM IndexedFilesAreComplete == Spec => []IndexedObjectsExist
<1>1. IInv => IndexedObjectsExist
  BY DEF IInv, ObjectsInv, IndexedObjectsExist
<1> QED BY <1>1, InvariantHolds, PTL

\* A file whose size agrees with its metadata, the only kind the constructor
\* accepts, ends with a whole transaction: a partial write or a flush retried by
\* the destructor leaves a file the constructor refuses or a file of whole
\* transactions, never half of one.
THEOREM AcceptedFilesAreWhole == Spec => []AcceptedFilesEndAtBoundary
<1>1. IInv => AcceptedFilesEndAtBoundary
  BY DEF IInv, SizesInv, AcceptedFilesEndAtBoundary
<1> QED BY <1>1, InvariantHolds, PTL

\* With checkpointing by size write_event never leaves checkpoint_size or more of
\* complete transactions unflushed, for every checkpoint_size and whatever
\* checkpoint_interval, reopened files and lost connections do in between.
THEOREM UnflushedIsBounded == Spec => []UnflushedDataIsBounded
<1>1. IInv => UnflushedDataIsBounded
  BY DEF IInv, CheckpointInv, UnflushedDataIsBounded
<1> QED BY <1>1, InvariantHolds, PTL

\* The assertions at the end of open_binlog hold under the caller's contract.
THEOREM OpenAssertionsHold == Spec => []EmptyBufferLeavesNothing
<1>1. IInv => EmptyBufferLeavesNothing
  <2> SUFFICES ASSUME IInv, event_buffer = << >>
               PROVE  /\ boundary = 0 /\ gtids_in_event_buffer = {}
                      /\ ready_ts = EmptyRange /\ incomplete_ts = EmptyRange
    BY DEF EmptyBufferLeavesNothing
  <2>1. boundary = 0 /\ boundary = Len(event_buffer)
    BY DEF IInv, TypeOK
  <2> QED BY <2>1 DEF IInv, BufferInv
<1> QED BY <1>1, InvariantHolds, PTL

=============================================================================
