------------------------------- MODULE Storage -------------------------------
(****************************************************************************)
(* The streaming storage of the binlog server: class binsrv::storage on top *)
(* of a storage backend (a directory or an S3 bucket).                      *)
(*                                                                          *)
(* The backend holds, per binlog file, a payload object (the binlog bytes)  *)
(* and a metadata object; one index object lists the files; metadata.json   *)
(* marks an initialised storage.  The process keeps the records of the      *)
(* files and an event buffer that reaches the backend only in whole         *)
(* transactions.                                                            *)
(*                                                                          *)
(* Every backend call is a step of its own: the process can be killed       *)
(* before it and the call can fail.  Binlog data is counted in events: the  *)
(* magic signature and every event have size 1.  An event carries, beside   *)
(* its data, the arguments of storage::write_event that belong to it.       *)
(****************************************************************************)
EXTENDS Naturals, Sequences

CONSTANTS
  BinlogName,            \* names of binlog files
  NoName,                \* no stream is open
  Data,                  \* what the bytes of an event say
  MagicData,             \* the binlog magic signature
  Gtid,                  \* global transaction ids
  NoGtid,                \* the empty gtid
  WrittenEvent,          \* the events a caller may write
  Timestamp,             \* event timestamps, 0 is the epoch (no timestamp)
  SequenceNumber,        \* logical timestamps of transactions, 0 is none
  ReplicationMode,       \* "position" or "gtid"
  Backend,               \* "file" or "s3"
  CheckpointSize,        \* storage.checkpoint_size, 0 disables it
  CheckpointInterval,    \* whether storage.checkpoint_interval is set
  MaxFileSize,           \* bound: size of a binlog file
  MaxCrashes,            \* bound: kills of the process
  MaxFailures            \* bound: failures of backend calls

Event == [data : Data, boundary : BOOLEAN, gtid : Gtid \cup {NoGtid},
          ts : Timestamp, seq : SequenceNumber]

ASSUME StorageAssumption ==
  /\ WrittenEvent \subseteq Event
  /\ NoName \notin BinlogName
  /\ NoGtid \notin Gtid
  /\ MagicData \in Data
  /\ Timestamp \subseteq Nat /\ 0 \in Timestamp
  /\ SequenceNumber \subseteq Nat /\ 0 \in SequenceNumber
  /\ ReplicationMode \in {"position", "gtid"}
  /\ Backend \in {"file", "s3"}
  /\ CheckpointSize \in Nat
  /\ CheckpointInterval \in BOOLEAN
  /\ MaxFileSize \in Nat /\ MaxCrashes \in Nat /\ MaxFailures \in Nat

VARIABLES
  \* objects of the backend
  initialized,           \* metadata.json exists
  index,                 \* content of the index object, << >> when it is absent
  payloads, payload,     \* existing payload objects, their content
  metas, meta,           \* existing metadata objects, their content
  \* the process
  pc,                    \* the next backend call, or "down", "ready", "refused"
  after,                 \* what the flush under way belongs to
  purged_gtids,
  records,               \* names of binlog_records_
  current,               \* binlog_records_.back() without its name
  stream,                \* the name the open stream writes to, or NoName
  tmp,                   \* the temporary file behind an S3 stream
  event_buffer,
  boundary,              \* last_transaction_boundary_position_in_event_buffer_
  gtids_in_event_buffer,
  ready_ts, incomplete_ts,
  ready_seq, incomplete_seq,
  last_checkpoint,       \* last_checkpoint_position_
  \* counters of the bounds
  crashes, failures

objects == <<initialized, index, payloads, payload, metas, meta>>
buffers == <<event_buffer, boundary, gtids_in_event_buffer, ready_ts,
             incomplete_ts, ready_seq, incomplete_seq>>
memory == <<after, purged_gtids, records, current, stream, tmp, buffers,
            last_checkpoint>>
bounds == <<crashes, failures>>
vars == <<objects, pc, memory, bounds>>

Magic == [data |-> MagicData, boundary |-> TRUE, gtid |-> NoGtid,
          ts |-> 0, seq |-> 0]

magic_binlog_offset == 1

-----------------------------------------------------------------------------
(* Timestamp ranges: util::ctime_timestamp_range, empty when min is the epoch *)

EmptyRange == [min |-> 0, max |-> 0]

add_timestamp(r, t) ==
  IF t = 0 THEN r
  ELSE IF r.min = 0 THEN [min |-> t, max |-> t]
  ELSE [min |-> IF t < r.min THEN t ELSE r.min,
        max |-> IF t > r.max THEN t ELSE r.max]

add_range(r, s) ==
  IF s.min = 0 THEN r ELSE add_timestamp(add_timestamp(r, s.min), s.max)

Metadata == [size : Nat, previous : SUBSET Gtid, added : SUBSET Gtid,
             ts : [min : Nat, max : Nat], seq : SequenceNumber]

EmptyRecord == [size |-> 0, previous |-> {}, added |-> {}, ts |-> EmptyRange,
                seq |-> 0]

NameSet(names) == {names[i] : i \in DOMAIN names}

-----------------------------------------------------------------------------
(* Accessors *)

is_empty == records = << >>

has_event_data_to_flush == boundary # 0

get_current_position == current.size + Len(event_buffer)

\* Mutant: the gtids added to the current file are left out.
get_gtids_without_added ==
  IF ReplicationMode = "position" THEN {}
  ELSE IF is_empty THEN purged_gtids ELSE current.previous

\* The gtids the storage reports to the server: buffered ones are not included.
get_gtids ==
  IF ReplicationMode = "position" THEN {}
  ELSE IF is_empty THEN purged_gtids
  ELSE current.previous \cup current.added

-----------------------------------------------------------------------------
(* Construction and destruction *)

Init ==
  /\ initialized = FALSE /\ index = << >>
  /\ payloads = {} /\ payload = [n \in BinlogName |-> << >>]
  /\ metas = {} /\ meta = [n \in BinlogName |-> EmptyRecord]
  /\ pc = "down" /\ after = "none"
  /\ purged_gtids = {} /\ records = << >> /\ current = EmptyRecord
  /\ stream = NoName /\ tmp = << >>
  /\ event_buffer = << >> /\ boundary = 0 /\ gtids_in_event_buffer = {}
  /\ ready_ts = EmptyRange /\ incomplete_ts = EmptyRange
  /\ ready_seq = 0 /\ incomplete_seq = 0 /\ last_checkpoint = 0
  /\ crashes = 0 /\ failures = 0

\* The state the constructor of a streaming storage accepts: the index, the
\* payload and the metadata objects name the same files, and every payload has
\* the size its metadata records.
StorageIsValid ==
  \/ index = << >> /\ payloads = {} /\ metas = {}
  \/ /\ index # << >>
     /\ NameSet(index) = payloads
     /\ NameSet(index) = metas
     /\ \A n \in NameSet(index) : meta[n].size = Len(payload[n])

ClearBuffers ==
  /\ event_buffer' = << >> /\ boundary' = 0 /\ gtids_in_event_buffer' = {}
  /\ ready_ts' = EmptyRange /\ incomplete_ts' = EmptyRange
  /\ ready_seq' = 0 /\ incomplete_seq' = 0

ForgetMemory ==
  /\ after' = "none" /\ purged_gtids' = {} /\ records' = << >>
  /\ current' = EmptyRecord /\ stream' = NoName /\ tmp' = << >>
  /\ last_checkpoint' = 0
  /\ ClearBuffers

\* The constructor.  On an empty backend it saves metadata.json; otherwise it
\* loads the index and the metadata of every file, or throws.
Construct ==
  /\ pc \in {"down", "refused"}
  /\ \/ /\ StorageIsValid
        /\ initialized' = TRUE
        /\ pc' = "ready"
        /\ records' = index
        /\ current' = IF index = << >> THEN EmptyRecord
                      ELSE meta[index[Len(index)]]
        /\ purged_gtids' = IF index = << >> THEN {} ELSE meta[index[1]].added
        /\ after' = "none" /\ stream' = NoName /\ tmp' = << >>
        /\ last_checkpoint' = 0
        /\ ClearBuffers
     \/ /\ ~StorageIsValid
        /\ pc' = "refused"
        /\ UNCHANGED <<initialized, memory>>
  /\ UNCHANGED <<index, payloads, payload, metas, meta, bounds>>

\* What the destructor does, at the end of the program or while an exception
\* unwinds: it flushes the complete transactions of the buffer.
Destroy ==
  IF has_event_data_to_flush
  THEN /\ pc' = "flush_write" /\ after' = "destroy"
       /\ UNCHANGED <<purged_gtids, records, current, stream, tmp, buffers,
                      last_checkpoint>>
  ELSE pc' = "down" /\ ForgetMemory

\* The program ends, normally or by an exception raised outside of the storage.
Stop ==
  /\ pc = "ready"
  /\ Destroy
  /\ UNCHANGED <<objects, bounds>>

-----------------------------------------------------------------------------
(* Operations of the storage *)

set_purged_gtids(gtids) ==
  /\ pc = "ready" /\ ReplicationMode = "gtid" /\ is_empty
  /\ purged_gtids' = gtids
  /\ UNCHANGED <<objects, pc, after, records, current, stream, tmp, buffers,
                 last_checkpoint, bounds>>

CheckpointAt(position) ==
  last_checkpoint' = IF CheckpointSize # 0 THEN position ELSE last_checkpoint

\* open_binlog of the latest known file: the stream is opened for append.
OpenExisting(name) ==
  /\ pc = "ready" /\ stream = NoName
  /\ ~is_empty /\ name = records[Len(records)]
  /\ stream' = name
  /\ tmp' = IF Backend = "s3" THEN payload[name] ELSE << >>
  /\ ready_seq' = current.seq /\ incomplete_seq' = current.seq
  /\ CheckpointAt(get_current_position)
  /\ UNCHANGED <<objects, pc, after, purged_gtids, records, current,
                 event_buffer, boundary, gtids_in_event_buffer, ready_ts,
                 incomplete_ts, bounds>>

\* open_binlog of an unknown file: the stream is opened for create, which
\* truncates the file of a directory and leaves an S3 object alone.
OpenNew(name) ==
  /\ pc = "ready" /\ stream = NoName
  /\ name \notin NameSet(records)
  /\ stream' = name
  /\ tmp' = << >>
  /\ IF Backend = "file"
     THEN /\ payloads' = payloads \cup {name}
          /\ payload' = [payload EXCEPT ![name] = << >>]
     ELSE UNCHANGED <<payloads, payload>>
  /\ pc' = "open_magic"
  /\ UNCHANGED <<initialized, index, metas, meta, after, purged_gtids, records,
                 current, buffers, last_checkpoint, bounds>>

\* open_binlog of a known file that is not the latest: it throws.
OpenNotLatest(name) ==
  /\ pc = "ready" /\ stream = NoName
  /\ name \in NameSet(records) /\ name # records[Len(records)]
  /\ Destroy
  /\ UNCHANGED <<objects, bounds>>

\* What the stream holds after data has been written to it.
StreamContent(data) ==
  (IF Backend = "s3" THEN tmp ELSE payload[stream]) \o data

\* write_data_to_stream: a directory file is appended to, an S3 object is
\* uploaded anew from the temporary file.
WriteToStream(data) ==
  /\ payloads' = payloads \cup {stream}
  /\ payload' = [payload EXCEPT ![stream] = StreamContent(data)]
  /\ tmp' = IF Backend = "s3" THEN StreamContent(data) ELSE tmp

\* Mutant: a new file does not take over the gtids of the previous ones.
OpenMagic_forgets_gtids ==
  /\ pc = "open_magic"
  /\ WriteToStream(<<Magic>>)
  /\ records' = Append(records, stream)
  /\ current' = [EmptyRecord EXCEPT !.size = magic_binlog_offset]
  /\ pc' = "open_meta"
  /\ UNCHANGED <<initialized, index, metas, meta, after, purged_gtids, stream,
                 buffers, last_checkpoint, bounds>>

\* open_new_binlog_file_internal, its three backend calls in order.
OpenMagic ==
  /\ pc = "open_magic"
  /\ WriteToStream(<<Magic>>)
  /\ records' = Append(records, stream)
  /\ current' = [EmptyRecord EXCEPT !.size = magic_binlog_offset,
                                    !.previous = get_gtids]
  /\ pc' = "open_meta"
  /\ UNCHANGED <<initialized, index, metas, meta, after, purged_gtids, stream,
                 buffers, last_checkpoint, bounds>>

SaveBinlogMetadata ==
  /\ metas' = metas \cup {stream}
  /\ meta' = [meta EXCEPT ![stream] = current]

OpenMeta ==
  /\ pc = "open_meta"
  /\ SaveBinlogMetadata
  /\ pc' = "open_index"
  /\ UNCHANGED <<initialized, index, payloads, payload, memory, bounds>>

\* Mutant: the index is not saved.
OpenIndex_unsaved ==
  /\ pc = "open_index"
  /\ ready_seq' = 0 /\ incomplete_seq' = 0
  /\ CheckpointAt(get_current_position)
  /\ pc' = "ready"
  /\ UNCHANGED <<objects, after, purged_gtids, records, current, stream, tmp,
                 event_buffer, boundary, gtids_in_event_buffer, ready_ts,
                 incomplete_ts, bounds>>

OpenIndex ==
  /\ pc = "open_index"
  /\ index' = records
  /\ ready_seq' = 0 /\ incomplete_seq' = 0
  /\ CheckpointAt(get_current_position)
  /\ pc' = "ready"
  /\ UNCHANGED <<initialized, payloads, payload, metas, meta, after,
                 purged_gtids, records, current, stream, tmp, event_buffer,
                 boundary, gtids_in_event_buffer, ready_ts, incomplete_ts,
                 bounds>>

\* Mutant: one byte more than checkpoint_size is needed.
CheckpointIsDue_late(new_boundary, elapsed) ==
  /\ new_boundary # 0
  /\ \/ /\ CheckpointSize # 0
        /\ current.size + new_boundary > last_checkpoint + CheckpointSize
     \/ CheckpointInterval /\ elapsed

\* A flush at the end of a transaction is due by size, or by the clock.
CheckpointIsDue(new_boundary, elapsed) ==
  /\ new_boundary # 0
  /\ \/ /\ CheckpointSize # 0
        /\ current.size + new_boundary >= last_checkpoint + CheckpointSize
     \/ CheckpointInterval /\ elapsed

\* The caller never hands over a transaction again that it has been told is
\* stored, or that is still in the buffer: the server skips the gtids of
\* get_gtids and sends every other one once per connection.
NotKnown(gtid) ==
  gtid = NoGtid \/ gtid \notin get_gtids \cup gtids_in_event_buffer

write_event(e, elapsed) ==
  /\ pc = "ready" /\ stream # NoName
  /\ get_current_position < MaxFileSize
  /\ LET ts  == add_timestamp(incomplete_ts, e.ts)
         seq == IF e.seq # 0 THEN e.seq ELSE incomplete_seq
         end == IF e.boundary THEN Len(event_buffer) + 1 ELSE boundary
     IN  /\ event_buffer' = Append(event_buffer, e)
         /\ boundary' = end
         /\ IF e.boundary
            THEN /\ gtids_in_event_buffer' =
                      IF ReplicationMode = "gtid" /\ e.gtid # NoGtid
                      THEN gtids_in_event_buffer \cup {e.gtid}
                      ELSE gtids_in_event_buffer
                 /\ ready_ts' = add_range(ready_ts, ts)
                 /\ incomplete_ts' = EmptyRange
                 /\ ready_seq' = seq
            ELSE /\ incomplete_ts' = ts
                 /\ UNCHANGED <<gtids_in_event_buffer, ready_ts, ready_seq>>
         /\ incomplete_seq' = seq
         /\ IF CheckpointIsDue(end, elapsed)
            THEN pc' = "flush_write" /\ after' = "write"
            ELSE UNCHANGED <<pc, after>>
  /\ UNCHANGED <<objects, purged_gtids, records, current, stream, tmp,
                 last_checkpoint, bounds>>

\* The end of close_binlog, after its flush.
CloseStream(position) ==
  /\ pc' = "ready" /\ after' = "none"
  /\ stream' = NoName /\ tmp' = << >>
  /\ event_buffer' = << >>
  /\ CheckpointAt(position)

\* Mutant: the buffer is not flushed before it is cleared.
close_binlog_unflushed ==
  /\ pc = "ready" /\ stream # NoName
  /\ CloseStream(current.size)
  /\ UNCHANGED <<objects, purged_gtids, records, current, boundary,
                 gtids_in_event_buffer, ready_ts, incomplete_ts, ready_seq,
                 incomplete_seq, bounds>>

close_binlog ==
  /\ pc = "ready" /\ stream # NoName
  /\ IF has_event_data_to_flush
     THEN /\ pc' = "flush_write" /\ after' = "close"
          /\ UNCHANGED <<event_buffer, stream, tmp, last_checkpoint>>
     ELSE CloseStream(current.size)
  /\ UNCHANGED <<objects, purged_gtids, records, current, boundary,
                 gtids_in_event_buffer, ready_ts, incomplete_ts, ready_seq,
                 incomplete_seq, bounds>>

\* Mutant: the timestamps of the discarded events stay.
DiscardAndFlush_keeps_timestamps ==
  /\ pc = "ready"
  /\ event_buffer' = SubSeq(event_buffer, 1, boundary)
  /\ incomplete_seq' = ready_seq
  /\ IF has_event_data_to_flush
     THEN pc' = "flush_write" /\ after' = "lost"
     ELSE UNCHANGED <<pc, after>>
  /\ UNCHANGED <<objects, purged_gtids, records, current, stream, tmp, boundary,
                 gtids_in_event_buffer, ready_ts, incomplete_ts, ready_seq,
                 last_checkpoint, bounds>>

\* discard_incomplete_transaction_events, then flush_event_buffer: what the
\* receiver does when the connection is lost.
DiscardAndFlush ==
  /\ pc = "ready"
  /\ event_buffer' = SubSeq(event_buffer, 1, boundary)
  /\ incomplete_ts' = EmptyRange
  /\ incomplete_seq' = ready_seq
  /\ IF has_event_data_to_flush
     THEN pc' = "flush_write" /\ after' = "lost"
     ELSE UNCHANGED <<pc, after>>
  /\ UNCHANGED <<objects, purged_gtids, records, current, stream, tmp,
                 boundary, gtids_in_event_buffer, ready_ts, ready_seq,
                 last_checkpoint, bounds>>

-----------------------------------------------------------------------------
(* flush_event_buffer_internal: write the data, then save the metadata *)

ReadyEvents == SubSeq(event_buffer, 1, boundary)

\* Mutant: the whole buffer is written, an incomplete transaction included.
FlushWrite_whole_buffer ==
  /\ pc = "flush_write"
  /\ WriteToStream(event_buffer)
  /\ current' = [current EXCEPT !.size = @ + Len(event_buffer),
                                !.added = @ \cup gtids_in_event_buffer,
                                !.ts = add_range(@, ready_ts),
                                !.seq = ready_seq]
  /\ pc' = "flush_meta"
  /\ UNCHANGED <<initialized, index, metas, meta, after, purged_gtids, records,
                 stream, buffers, last_checkpoint, bounds>>

\* Mutant: the data stays in the temporary file until the stream is closed.
FlushWrite_uploads_late ==
  /\ pc = "flush_write"
  /\ tmp' = StreamContent(ReadyEvents)
  /\ current' = [current EXCEPT !.size = @ + boundary,
                                !.added = @ \cup gtids_in_event_buffer,
                                !.ts = add_range(@, ready_ts),
                                !.seq = ready_seq]
  /\ pc' = "flush_meta"
  /\ UNCHANGED <<initialized, index, payloads, payload, metas, meta, after,
                 purged_gtids, records, stream, buffers, last_checkpoint, bounds>>

FlushWrite ==
  /\ pc = "flush_write"
  /\ WriteToStream(ReadyEvents)
  /\ current' = [current EXCEPT !.size = @ + boundary,
                                !.added = @ \cup gtids_in_event_buffer,
                                !.ts = add_range(@, ready_ts),
                                !.seq = ready_seq]
  /\ pc' = "flush_meta"
  /\ UNCHANGED <<initialized, index, metas, meta, after, purged_gtids, records,
                 stream, buffers, last_checkpoint, bounds>>

\* After the metadata is saved the flushed prefix leaves the buffer, and the
\* operation the flush belongs to completes.
FlushMeta ==
  /\ pc = "flush_meta"
  /\ SaveBinlogMetadata
  /\ IF after = "destroy"
     THEN pc' = "down" /\ ForgetMemory
     ELSE /\ boundary' = 0 /\ gtids_in_event_buffer' = {}
          /\ ready_ts' = EmptyRange
          /\ IF after = "close"
             THEN CloseStream(current.size)
             ELSE /\ event_buffer' = SubSeq(event_buffer, boundary + 1,
                                            Len(event_buffer))
                  /\ last_checkpoint' = IF after = "write" THEN current.size
                                        ELSE last_checkpoint
                  /\ pc' = "ready" /\ after' = "none"
                  /\ UNCHANGED <<stream, tmp>>
          /\ UNCHANGED <<purged_gtids, records, current, incomplete_ts,
                         ready_seq, incomplete_seq>>
  /\ UNCHANGED <<initialized, index, payloads, payload, bounds>>

-----------------------------------------------------------------------------
(* Failures and kills *)

\* An exception leaves the operation under way.  The destructor then flushes
\* whatever the buffer still calls ready; an exception of its own is swallowed.
Unwind(new_tmp) ==
  IF has_event_data_to_flush /\ after # "destroy"
  THEN /\ pc' = "flush_write" /\ after' = "destroy" /\ tmp' = new_tmp
       /\ UNCHANGED <<purged_gtids, records, current, stream, buffers,
                      last_checkpoint>>
  ELSE pc' = "down" /\ ForgetMemory

Fails ==
  /\ failures < MaxFailures
  /\ failures' = failures + 1
  /\ UNCHANGED crashes

\* The data of the write under way, and a part of it that has reached a file.
DataToWrite == IF pc = "open_magic" THEN <<Magic>> ELSE ReadyEvents

WritePart ==
  \E k \in 0 .. Len(DataToWrite) :
    payload' = [payload EXCEPT ![stream] = @ \o SubSeq(DataToWrite, 1, k)]

\* A failed write.  A stream of the standard library stays bad after it, so the
\* destructor's flush fails at once: a directory file keeps a part of the data,
\* a temporary file that cannot be written leaves the S3 object as it was.  A
\* failed upload, which may have replaced the object or not, leaves all of the
\* data in the temporary file, and the destructor's flush adds it again.
WriteFails ==
  /\ pc \in {"open_magic", "flush_write"}
  /\ \/ /\ IF Backend = "file" THEN WritePart ELSE UNCHANGED payload
        /\ pc' = "down" /\ ForgetMemory
        /\ UNCHANGED payloads
     \/ /\ Backend = "s3"
        /\ \/ UNCHANGED <<payloads, payload>>
           \/ /\ payloads' = payloads \cup {stream}
              /\ payload' = [payload EXCEPT ![stream] = tmp \o DataToWrite]
        /\ Unwind(tmp \o DataToWrite)
  /\ Fails
  /\ UNCHANGED <<initialized, index, metas, meta>>

\* A failed put_object: the object may have been replaced before the error was
\* raised (an fsync after the rename, a lost response).
PutFails ==
  /\ \/ /\ pc \in {"open_meta", "flush_meta"}
        /\ SaveBinlogMetadata \/ UNCHANGED <<metas, meta>>
        /\ UNCHANGED index
     \/ /\ pc = "open_index"
        /\ index' = records \/ UNCHANGED index
        /\ UNCHANGED <<metas, meta>>
  /\ Unwind(tmp)
  /\ Fails
  /\ UNCHANGED <<initialized, payloads, payload>>

\* The process is killed: the backend keeps its objects, the memory is gone.  A
\* write to a directory file may have been under way.
Kill ==
  /\ pc \notin {"down", "refused"}
  /\ crashes < MaxCrashes
  /\ crashes' = crashes + 1
  /\ pc' = "down"
  /\ ForgetMemory
  /\ IF Backend = "file" /\ pc \in {"open_magic", "flush_write"}
     THEN WritePart ELSE UNCHANGED payload
  /\ UNCHANGED <<initialized, index, payloads, metas, meta, failures>>

-----------------------------------------------------------------------------
(* The storage under a caller that keeps to its contract *)

SetPurged == \E gtids \in SUBSET Gtid : set_purged_gtids(gtids)

Open ==
  /\ pc = "ready" /\ stream = NoName
  /\ \E name \in BinlogName :
       OpenExisting(name) \/ OpenNew(name) \/ OpenNotLatest(name)

Write ==
  \E e \in WrittenEvent, elapsed \in BOOLEAN :
    NotKnown(e.gtid) /\ write_event(e, elapsed)

\* A file is closed after its ROTATE or STOP event, or when the next file
\* starts: no transaction is then half received.
Close == boundary = Len(event_buffer) /\ close_binlog

Call == SetPurged \/ Open \/ Write \/ Close \/ DiscardAndFlush \/ Stop

BackendStep == OpenMagic \/ OpenMeta \/ OpenIndex \/ FlushWrite \/ FlushMeta

Next == Construct \/ Call \/ BackendStep \/ WriteFails \/ PutFails \/ Kill

Spec == Init /\ [][Next]_vars

-----------------------------------------------------------------------------
(* Properties *)

TimestampRange == [min : Nat, max : Nat]

BackendCalls ==
  {"open_magic", "open_meta", "open_index", "flush_write", "flush_meta"}

\* Every variable has its type: names, sizes, gtid sets and buffers are what
\* the fields of binsrv::storage and the objects of the backend can hold.
TypeOK ==
  /\ initialized \in BOOLEAN /\ index \in Seq(BinlogName)
  /\ payloads \subseteq BinlogName /\ payload \in [BinlogName -> Seq(Event)]
  /\ metas \subseteq BinlogName /\ meta \in [BinlogName -> Metadata]
  /\ pc \in {"down", "ready", "refused"} \cup BackendCalls
  /\ after \in {"none", "write", "close", "lost", "destroy"}
  /\ purged_gtids \subseteq Gtid /\ records \in Seq(BinlogName)
  /\ current \in Metadata
  /\ stream \in BinlogName \cup {NoName} /\ tmp \in Seq(Event)
  /\ event_buffer \in Seq(Event) /\ boundary \in 0 .. Len(event_buffer)
  /\ gtids_in_event_buffer \subseteq Gtid
  /\ ready_ts \in TimestampRange /\ incomplete_ts \in TimestampRange
  /\ ready_seq \in SequenceNumber /\ incomplete_seq \in SequenceNumber
  /\ last_checkpoint \in Nat
  /\ crashes \in 0 .. MaxCrashes /\ failures \in 0 .. MaxFailures

\* At every point at which the process can be killed or a backend call can
\* fail, a file listed in the index has its payload and its metadata object:
\* open_new_binlog_file_internal saves the index last.
IndexedObjectsExist ==
  NameSet(index) \subseteq payloads \cap metas

EndsAtBoundary(s) == s # << >> /\ s[Len(s)].boundary

\* A payload whose size is the one its metadata records, the only kind the
\* constructor accepts, ends with a whole transaction: the event buffer is
\* flushed up to the last transaction boundary only.
AcceptedFilesEndAtBoundary ==
  \A n \in NameSet(index) :
    meta[n].size = Len(payload[n]) => EndsAtBoundary(payload[n])

CompletedGtids(s) ==
  {s[i].gtid : i \in {j \in DOMAIN s : s[j].boundary}} \ {NoGtid}

Timestamps(s) == {s[i].ts : i \in DOMAIN s} \ {0}

\* The last sequence number of the events of s, 0 when there is none.
IsLastSequenceNumber(seq, s) ==
  \/ seq = 0 /\ \A i \in DOMAIN s : s[i].seq = 0
  \/ \E i \in DOMAIN s : /\ s[i].seq = seq /\ seq # 0
                         /\ \A j \in i + 1 .. Len(s) : s[j].seq = 0

\* The metadata object describes the payload it is stored with: its gtids are
\* those of the transactions in the payload, its time range is tight, and its
\* last sequence number is the last one of the payload.  Search and resumption
\* rely on it; flush_event_buffer_internal and the ready/incomplete split of
\* write_event maintain it.
MetadataDescribesPayload ==
  \A n \in NameSet(index) :
    LET p == payload[n]
        m == meta[n]
    IN  m.size = Len(p) =>
          /\ ReplicationMode = "gtid" => m.added = CompletedGtids(p)
          /\ IF Timestamps(p) = {} THEN m.ts = EmptyRange
             ELSE /\ {m.ts.min, m.ts.max} \subseteq Timestamps(p)
                  /\ \A t \in Timestamps(p) : m.ts.min <= t /\ t <= m.ts.max
          /\ IsLastSequenceNumber(m.seq, p)

\* The gtids the storage reports when it asks the server to resume (get_gtids)
\* are exactly those it was created with and those of the transactions in its
\* files, whatever was killed or discarded before.
ResumeSetIsExact ==
  ReplicationMode = "gtid" /\ pc = "ready" /\ ~is_empty =>
    get_gtids = meta[index[1]].previous
                  \cup UNION {CompletedGtids(payload[n]) : n \in NameSet(index)}

Committed(n) ==
  IF n \in NameSet(index) THEN SubSeq(payload[n], 1, meta[n].size) ELSE << >>

\* No transaction is in the storage twice (write_event, the flush and the
\* resumption by gtids together).
NoTransactionStoredTwice ==
  \A m, n \in NameSet(index) :
    \A i \in DOMAIN Committed(m), j \in DOMAIN Committed(n) :
      /\ Committed(m)[i].boundary /\ Committed(n)[j].boundary
      /\ Committed(m)[i].gtid = Committed(n)[j].gtid
      /\ Committed(m)[i].gtid # NoGtid
      => m = n /\ i = j

\* With checkpointing by size, less than checkpoint_size of complete
\* transactions waits in the buffer whenever no operation is under way, so a
\* kill loses no more than that (write_event flushes as soon as it is due).
UnflushedDataIsBounded ==
  pc = "ready" /\ CheckpointSize # 0 => boundary < CheckpointSize

\* An empty buffer leaves nothing behind in the variables that describe it, as
\* the assertions at the end of open_binlog say.
EmptyBufferLeavesNothing ==
  pc = "ready" /\ event_buffer = << >> =>
    /\ boundary = 0 /\ gtids_in_event_buffer = {}
    /\ ready_ts = EmptyRange /\ incomplete_ts = EmptyRange

\* Between operations, and before the first backend call of a flush, the objects
\* are in a state the constructor accepts, so a kill there costs only what is in
\* the buffer; so they are after a termination through the destructor that met
\* no failure.
StorageIsResumable ==
  \/ pc = "ready"
  \/ pc = "flush_write" /\ failures = 0
  \/ pc = "down" /\ crashes + failures = 0
  => StorageIsValid

Archive ==
  INSTANCE BinlogArchive WITH
    log <- [n \in BinlogName |-> Committed(n)],
    file <- IF index = << >> THEN NoName ELSE index[Len(index)],
    pending <- event_buffer

\* As long as no backend call fails, the storage implements the archive it
\* promises, kills included: saving the metadata of a file is the step at which
\* the flushed transactions join it.
ImplementsArchive == Archive!Spec

=============================================================================
