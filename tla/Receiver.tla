------------------------------ MODULE Receiver -------------------------------
(****************************************************************************)
(* The fetch and pull modes of the binlog server: main, the receive loop    *)
(* and the event processing of app.cpp, composed with the storage, a reader *)
(* context and the MySQL server they read from.                             *)
(*                                                                          *)
(* The server is external.  Its binlog grows by preambles, transactions and *)
(* terminators; a connection dumps it from a position or without a set of   *)
(* gtids.  The event at index i of a file starts at position i and ends at  *)
(* position i + 1.                                                          *)
(****************************************************************************)
EXTENDS Naturals, Sequences, SequencesExt

CONSTANTS
  BinlogName, NoName, Data, MagicData, Gtid, NoGtid, WrittenEvent, Timestamp,
  SequenceNumber, ReplicationMode, Backend, CheckpointSize, CheckpointInterval,
  MaxFileSize, MaxCrashes, MaxFailures,
  OperationModes,       \* of "fetch" and "pull", those the program is started in
  Rewrite,              \* whether replication.rewrite is configured
  RewriteFileSize,      \* replication.rewrite.file_size
  ServerFiles,          \* the binlog the server will have written:
                        \*   << [transactions |-> << gtids >>, end |-> code] >>
  TransactionLength,    \* events of a transaction
  MaxDisconnects,       \* bound: connections lost while events are available
  MaxEofs               \* bound: dumps the server ends itself in pull mode

VARIABLES
  initialized, index, payloads, payload, metas, meta, pc, after, purged_gtids,
  records, current, stream, tmp, event_buffer, boundary,
  gtids_in_event_buffer, ready_ts, incomplete_ts, ready_seq, incomplete_seq,
  last_checkpoint, crashes, failures,
  server,               \* [file, length]: how much of ServerFiles is written
  operation_mode,       \* of the program, chosen when it is started
  main,                 \* where the main thread is
  connection,           \* the dump of the open connection, or NoConnection
  ctx,                  \* the reader context of the connection
  queue,                \* rewrite mode: events still to be processed
  calls,                \* storage calls still to be made for the current event
  termination_flag,
  threw,                \* an event made the receive loop throw
  disconnects, eofs

S == INSTANCE Storage
RC == INSTANCE ReaderContext

storage ==
  <<initialized, index, payloads, payload, metas, meta, pc, after, purged_gtids,
    records, current, stream, tmp, event_buffer, boundary,
    gtids_in_event_buffer, ready_ts, incomplete_ts, ready_seq, incomplete_seq,
    last_checkpoint, crashes, failures>>
program == <<main, connection, ctx, queue, calls>>
history == <<threw, disconnects, eofs>>
process == <<operation_mode, termination_flag>>
rvars == <<storage, server, program, process, history>>

-----------------------------------------------------------------------------
(* The server *)

PreambleLength == 2

FileLength(n) ==
  PreambleLength + TransactionLength * Len(ServerFiles[n].transactions)
    + (IF ServerFiles[n].end = "none" THEN 0 ELSE 1)

PreviousGtids(n) ==
  UNION {ToSet(ServerFiles[m].transactions) : m \in 1 .. n - 1}

BaseEvent ==
  [code |-> "query", artificial |-> FALSE, ts |-> 0, next |-> 0,
   name |-> NoName, position |-> 0, gtid |-> NoGtid, seq |-> 0, length |-> 0,
   body |-> {}, part |-> 0]

\* The transaction the event at index i of file n belongs to, its number.
TransactionAt(i) == ((i - PreambleLength - 1) \div TransactionLength) + 1
PartAt(i) == ((i - PreambleLength - 1) % TransactionLength) + 1

ServerEvent(n, i) ==
  LET base == [BaseEvent EXCEPT !.ts = n, !.next = i + 1]
      j    == TransactionAt(i)
  IN  IF i = 1 THEN [base EXCEPT !.code = "format_description"]
      ELSE IF i = 2 THEN [base EXCEPT !.code = "previous_gtids_log",
                                      !.body = PreviousGtids(n)]
      ELSE IF j > Len(ServerFiles[n].transactions)
      THEN [base EXCEPT !.code = ServerFiles[n].end, !.name = n + 1,
                        !.position = RC!MagicOffset]
      ELSE LET g == ServerFiles[n].transactions[j]
               e == [base EXCEPT !.body = {g}, !.part = PartAt(i)]
           IN  IF PartAt(i) = 1
               THEN [e EXCEPT !.code = "gtid_log", !.gtid = g, !.seq = j,
                              !.length = TransactionLength]
               ELSE e

ArtificialRotate(name, position) ==
  [BaseEvent EXCEPT !.code = "rotate", !.artificial = TRUE, !.name = name,
                    !.position = position]

PseudoFormatDescription ==
  [BaseEvent EXCEPT !.code = "format_description"]

Written(n) == IF n < server.file THEN FileLength(n) ELSE server.length

NoConnection == [file |-> 0]

NewFile(n) == [file |-> n, length |-> PreambleLength]

\* The server writes the next whole group.  A ROTATE event comes with the next
\* file.  After a STOP event or a crash (a file without terminator) the server
\* starts again with the next file, and no connection has survived that.
ServerWrites ==
  /\ LET n == server.file
         k == server.length + 1
     IN  IF k <= FileLength(n)
         THEN server' =
                IF TransactionAt(k) <= Len(ServerFiles[n].transactions)
                THEN [server EXCEPT !.length = @ + TransactionLength]
                ELSE IF ServerFiles[n].end = "rotate" THEN NewFile(n + 1)
                ELSE [server EXCEPT !.length = k]
         ELSE /\ n < Len(ServerFiles) /\ connection = NoConnection
              /\ server' = NewFile(n + 1)
  /\ UNCHANGED <<storage, program, process, history>>

\* Between its STOP event and its restart the server cannot be reached.
ServerIsUp ==
  ServerFiles[server.file].end = "stop" =>
    server.length < FileLength(server.file)

\* COM_BINLOG_DUMP from a position, COM_BINLOG_DUMP_GTID without a set of gtids:
\* the latter starts with the last file whose previous gtids are in the set.
DumpFrom(name, position) ==
  [file |-> name, index |-> position, rotate |-> TRUE,
   pseudo |-> position > RC!MagicOffset, skip |-> {}]

DumpWithout(gtids) ==
  LET files == {n \in 1 .. server.file : PreviousGtids(n) \subseteq gtids}
  IN  [file |-> CHOOSE n \in files : \A m \in files : m <= n,
       index |-> RC!MagicOffset, rotate |-> TRUE, pseudo |-> FALSE,
       skip |-> gtids]

\* Indices of the current file that the dump still has to send.
Unsent(c) ==
  {i \in c.index .. Written(c.file) :
     LET e == ServerEvent(c.file, i) IN e.part = 0 \/ e.body \cap c.skip = {}}

\* The next event of a dump with the dump after it: at most one.
Upcoming(c) ==
  IF c.rotate
  THEN {<<ArtificialRotate(c.file, c.index), [c EXCEPT !.rotate = FALSE]>>}
  ELSE IF c.pseudo
  THEN {<<PseudoFormatDescription, [c EXCEPT !.pseudo = FALSE]>>}
  ELSE IF Unsent(c) # {}
  THEN LET i == CHOOSE i \in Unsent(c) : \A k \in Unsent(c) : i <= k
       IN  {<<ServerEvent(c.file, i), [c EXCEPT !.index = i + 1]>>}
  ELSE IF c.file < server.file
  THEN {<<ArtificialRotate(c.file + 1, RC!MagicOffset),
          [c EXCEPT !.file = @ + 1, !.index = RC!MagicOffset]>>}
  ELSE {}

-----------------------------------------------------------------------------
(* main: construction, connection, idle mode, termination *)

Init ==
  /\ S!Init
  /\ server = [file |-> 1, length |-> PreambleLength]
  /\ main = "off" /\ connection = NoConnection
  /\ ctx = RC!NewContext(ReplicationMode, NoName, 0)
  /\ queue = << >> /\ calls = << >>
  /\ operation_mode \in OperationModes /\ termination_flag = FALSE
  /\ threw = FALSE
  /\ disconnects = 0 /\ eofs = 0

\* The main thread is between two storage calls, in the given place.
At(place) == main = place /\ pc = "ready" /\ calls = << >>

\* get_current_binlog_name
LatestName == IF S!is_empty THEN NoName ELSE records[Len(records)]

Disconnected ==
  /\ connection' = NoConnection
  /\ ctx' = RC!NewContext(ReplicationMode, NoName, 0)
  /\ queue' = << >> /\ calls' = << >>

\* main returns, or an exception leaves it: the storage is destroyed.
LeaveMain ==
  /\ S!Stop
  /\ main' = "off"
  /\ Disconnected

StartProgram ==
  /\ main = "off"
  /\ S!Construct
  /\ main' = IF pc' = "ready" THEN "connecting" ELSE "off"
  /\ Disconnected
  /\ operation_mode' \in OperationModes /\ termination_flag' = FALSE
  /\ UNCHANGED <<server, history>>

\* open_connection_and_switch_to_replication, then the context of the loop.
Connect ==
  /\ At("connecting") /\ ServerIsUp
  /\ IF ReplicationMode = "gtid" /\ S!is_empty
     THEN S!set_purged_gtids({})
     ELSE UNCHANGED storage
  /\ connection' = IF ReplicationMode = "gtid" THEN DumpWithout(S!get_gtids')
                   ELSE IF S!is_empty THEN DumpFrom(1, RC!MagicOffset)
                   ELSE DumpFrom(LatestName, S!get_current_position)
  /\ ctx' = RC!NewContext(ReplicationMode, LatestName, S!get_current_position)
  /\ main' = "receiving"
  /\ UNCHANGED <<server, queue, calls, process, history>>

ConnectFails ==
  /\ At("connecting")
  /\ \/ operation_mode = "fetch" /\ LeaveMain
     \/ /\ operation_mode = "pull" /\ main' = "sleeping"
        /\ UNCHANGED <<storage, connection, ctx, queue, calls>>
  /\ UNCHANGED <<server, process, history>>

\* Mutant: the loop does not come out of idle mode.
Sleep_forever ==
  /\ At("sleeping") /\ termination_flag
  /\ LeaveMain
  /\ UNCHANGED <<server, process, history>>

\* The pull loop: wait_for_interruptable and the next attempt.
Sleep ==
  /\ At("sleeping")
  /\ IF termination_flag THEN LeaveMain
     ELSE /\ main' = "connecting"
          /\ UNCHANGED <<storage, connection, ctx, queue, calls>>
  /\ UNCHANGED <<server, process, history>>

\* custom_signal_handler
Signal ==
  /\ main # "off" /\ ~termination_flag
  /\ termination_flag' = TRUE
  /\ UNCHANGED <<storage, server, operation_mode, program, history>>

-----------------------------------------------------------------------------
(* The storage calls of one event *)

DataOf(ev) == [code |-> ev.code, next |-> ev.next, body |-> ev.body,
               part |-> ev.part]

StorageEvent(ev, c) ==
  [data |-> DataOf(ev), boundary |-> RC!is_at_transaction_boundary(c),
   gtid |-> c.gtid, ts |-> ev.ts, seq |-> c.seq]

\* process_artificial_rotate_event: keep the open file, or open another one.
RotateCalls(ev) ==
  IF ~RC!IsArtificialRotate(ev) THEN << >>
  ELSE IF stream = NoName THEN <<[op |-> "open", name |-> ev.name]>>
  ELSE IF ev.name = LatestName THEN << >>
  ELSE <<[op |-> "close"], [op |-> "open", name |-> ev.name]>>

ReusedAtWrongPosition(ev) ==
  /\ RC!IsArtificialRotate(ev)
  /\ stream # NoName /\ ev.name = LatestName
  /\ ReplicationMode = "position" /\ ev.position # S!get_current_position

\* Mutant: info-only events are written.
WriteCalls_always(ev, c, info_only) ==
  IF RC!IsArtificialRotate(ev) THEN << >>
  ELSE <<[op |-> "write", event |-> StorageEvent(ev, c)]>>

WriteCalls(ev, c, info_only) ==
  IF info_only THEN << >>
  ELSE <<[op |-> "write", event |-> StorageEvent(ev, c)]>>

CloseCalls(ev) ==
  IF ev.code \in RC!EndCodes /\ ~ev.artificial THEN <<[op |-> "close"]>>
  ELSE << >>

OpenThrows(name) == name \in S!NameSet(records) /\ name # LatestName

\* Makes the first of the calls, leaves the rest; open_binlog may throw.
Make(todo) ==
  IF todo = << >> THEN calls' = << >> /\ UNCHANGED <<storage, main, threw>>
  ELSE LET call == Head(todo)
       IN  /\ calls' = Tail(todo)
           /\ \/ /\ call.op = "close" /\ S!close_binlog
                 /\ UNCHANGED <<main, threw>>
              \/ /\ call.op = "write"
                 /\ \E elapsed \in BOOLEAN : S!write_event(call.event, elapsed)
                 /\ UNCHANGED <<main, threw>>
              \/ /\ call.op = "open" /\ ~OpenThrows(call.name)
                 /\ S!OpenExisting(call.name) \/ S!OpenNew(call.name)
                 /\ UNCHANGED <<main, threw>>
              \/ /\ call.op = "open" /\ OpenThrows(call.name)
                 /\ S!OpenNotLatest(call.name)
                 /\ main' = "off" /\ threw' = TRUE

\* process_binlog_event: the context first, then the storage; what they throw
\* leaves main.
process_binlog_event(ev) ==
  IF RC!Throws(ctx, ev) \/ ReusedAtWrongPosition(ev)
  THEN /\ S!Stop /\ main' = "off" /\ threw' = TRUE
       /\ calls' = << >>
       /\ UNCHANGED ctx
  ELSE LET result == RC!process_event_view(ctx, ev)
       IN  /\ ctx' = result.context
           /\ Make(RotateCalls(ev) \o WriteCalls(ev, ctx', result.info_only)
                     \o CloseCalls(ev))

\* The next storage call of the event in hand.
NextCall ==
  /\ main = "receiving" /\ pc = "ready" /\ calls # << >>
  /\ Make(calls)
  /\ UNCHANGED <<server, connection, ctx, queue, process, disconnects,
                 eofs>>

-----------------------------------------------------------------------------
(* Rewrite mode: events for files of our own *)

SkippedInRewrite ==
  {"format_description", "previous_gtids_log"} \cup RC!EndCodes

\* The binlog the next event goes to, and the events generated before it.
StartsFile ==
  \/ RC!is_fresh(ctx)
  \/ RC!is_at_transaction_boundary(ctx) /\ S!get_current_position >= RewriteFileSize

RewriteName ==
  IF S!is_empty THEN 1
  ELSE IF RC!is_fresh(ctx) THEN LatestName ELSE LatestName + 1

Generated ==
  LET name   == RewriteName
      rotate == [BaseEvent EXCEPT !.code = "rotate", !.name = name, !.ts = 1,
                                  !.position = RC!MagicOffset]
  IN  (IF RC!is_fresh(ctx) THEN << >> ELSE <<rotate>>)
        \o <<ArtificialRotate(name, RC!MagicOffset),
             [BaseEvent EXCEPT !.code = "format_description", !.ts = 1],
             [BaseEvent EXCEPT !.code = "previous_gtids_log", !.ts = 1]>>

\* Mutant: the previous gtids are empty.
Rewritten_without_gtids(ev) ==
  IF RC!IsArtificialRotate(ev) THEN ev
  ELSE IF ev.code = "format_description"
  THEN [ev EXCEPT !.next = RC!MagicOffset + RC!EventSize]
  ELSE IF ev.code = "previous_gtids_log"
  THEN [ev EXCEPT !.next = RC!MagicOffset + 2 * RC!EventSize]
  ELSE [ev EXCEPT !.next = S!get_current_position + RC!EventSize,
                  !.seq = IF ev.code \in RC!GtidCodes THEN incomplete_seq + 1
                          ELSE 0]

\* The form in which an event is processed: placed at its offset, its sequence
\* number counted from the last one of the file (events::rewriter).
Rewritten(ev) ==
  IF RC!IsArtificialRotate(ev) THEN ev
  ELSE IF ev.code = "format_description"
  THEN [ev EXCEPT !.next = RC!MagicOffset + RC!EventSize]
  ELSE IF ev.code = "previous_gtids_log"
  THEN [ev EXCEPT !.next = RC!MagicOffset + 2 * RC!EventSize,
                  !.body = S!get_gtids]
  ELSE [ev EXCEPT !.next = S!get_current_position + RC!EventSize,
                  !.seq = IF ev.code \in RC!GtidCodes THEN incomplete_seq + 1
                          ELSE 0]

\* rewrite_and_process_binlog_event, up to the first storage call.
ProcessQueued ==
  /\ At("receiving") /\ queue # << >>
  /\ queue' = Tail(queue)
  /\ process_binlog_event(Rewritten(Head(queue)))
  /\ UNCHANGED <<server, connection, process, disconnects, eofs>>

-----------------------------------------------------------------------------
(* The receive loop *)

Fetching == At("receiving") /\ queue = << >>

FetchEvent ==
  /\ Fetching /\ ~termination_flag
  /\ \E next \in Upcoming(connection) :
       /\ connection' = next[2]
       /\ IF Rewrite
          THEN /\ queue' = IF next[1].code \in SkippedInRewrite THEN << >>
                           ELSE (IF StartsFile THEN Generated ELSE << >>)
                                  \o <<next[1]>>
               /\ UNCHANGED <<storage, main, ctx, calls, threw>>
          ELSE /\ process_binlog_event(next[1])
               /\ UNCHANGED queue
  /\ UNCHANGED <<server, process, disconnects, eofs>>

\* The end of receive_binlog_events by return: the program ends, or sleeps.
Return ==
  IF operation_mode = "fetch" \/ termination_flag THEN LeaveMain
  ELSE main' = "sleeping" /\ Disconnected /\ UNCHANGED storage

\* Mutant: the loop reconnects without looking at the termination flag.
LoopTerminated_reconnects ==
  /\ Fetching /\ termination_flag
  /\ main' = "connecting" /\ Disconnected
  /\ UNCHANGED <<storage, server, process, history>>

LoopTerminated ==
  /\ Fetching /\ termination_flag
  /\ Return
  /\ UNCHANGED <<server, process, history>>

\* The server ends the dump: always when a non-blocking dump has sent
\* everything, and when it ends a blocking dump on its own account.
FetchEof ==
  /\ Fetching /\ ~termination_flag
  /\ \/ operation_mode = "fetch" /\ Upcoming(connection) = {} /\ UNCHANGED eofs
     \/ operation_mode = "pull" /\ eofs < MaxEofs /\ eofs' = eofs + 1
  /\ Return
  /\ UNCHANGED <<server, process, threw, disconnects>>

Disconnection ==
  disconnects < MaxDisconnects /\ disconnects' = disconnects + 1

\* Mutant: nothing is discarded or flushed when the connection is lost.
FetchLost_keeps_buffer ==
  /\ Fetching /\ ~termination_flag /\ operation_mode = "pull"
  /\ \/ Upcoming(connection) = {} /\ UNCHANGED disconnects
     \/ Disconnection
  /\ main' = "sleeping" /\ Disconnected
  /\ UNCHANGED <<storage, server, process, threw, eofs>>

\* The read timeout of a blocking dump, or a lost connection (CR_SERVER_LOST).
FetchLost ==
  /\ Fetching /\ ~termination_flag /\ operation_mode = "pull"
  /\ \/ Upcoming(connection) = {} /\ UNCHANGED disconnects
     \/ Disconnection
  /\ S!DiscardAndFlush
  /\ main' = "sleeping" /\ Disconnected
  /\ UNCHANGED <<server, process, threw, eofs>>

\* Any other error of fetch_binlog_event, and every one in fetch mode, throws.
FetchFails ==
  /\ Fetching /\ ~termination_flag
  /\ Disconnection
  /\ LeaveMain
  /\ UNCHANGED <<server, process, threw, eofs>>

-----------------------------------------------------------------------------

BackendStep ==
  /\ S!BackendStep
  /\ UNCHANGED <<server, program, process, history>>

BackendFails ==
  /\ S!WriteFails \/ S!PutFails
  /\ main' = "off" /\ Disconnected
  /\ UNCHANGED <<server, process, history>>

Kill ==
  /\ S!Kill
  /\ main' = "off" /\ Disconnected
  /\ UNCHANGED <<server, process, history>>

Next ==
  \/ ServerWrites
  \/ StartProgram \/ Connect \/ ConnectFails \/ Sleep \/ Signal
  \/ FetchEvent \/ ProcessQueued \/ NextCall
  \/ LoopTerminated \/ FetchEof \/ FetchLost \/ FetchFails
  \/ BackendStep \/ BackendFails \/ Kill

Spec == Init /\ [][Next]_rvars

-----------------------------------------------------------------------------
(* Properties *)

DataSeq(events) == [i \in 1 .. Len(events) |-> events[i].data]

ServerData(n) ==
  <<MagicData>> \o [i \in 1 .. Written(n) |-> DataOf(ServerEvent(n, i))]

\* No call of the backend has failed, and no blocking dump was ended by the
\* server: the first can leave a transaction twice in the buffer, the second a
\* part of one.
Undisturbed == failures = 0 /\ eofs = 0

\* Without rewriting, every file of the storage is at all times a prefix of the
\* server's file of that name: nothing is missing, repeated or reordered,
\* whatever reconnections, kills and restarts the program went through.
StoredIsPrefixOfServer ==
  ~Rewrite /\ Undisturbed =>
    \A n \in S!NameSet(index) :
      IsPrefix(DataSeq(S!Committed(n)), ServerData(n))

Content(d) == [body |-> d.body, part |-> d.part]

StoredTransactions ==
  FlattenSeq([k \in 1 .. Len(index) |->
    SelectSeq(DataSeq(S!Committed(index[k])), LAMBDA d : d.part # 0)])

ServerTransactions ==
  FlattenSeq([n \in 1 .. server.file |->
    SelectSeq(ServerData(n), LAMBDA d : d.part # 0)])

\* With rewriting, the transactions in the files of the storage, taken in order,
\* are the server's transactions in order, each of them whole and once, although
\* their files and positions differ.
RewritingKeepsTransactions ==
  Rewrite =>
    IsPrefix([i \in 1 .. Len(StoredTransactions) |-> Content(StoredTransactions[i])],
             [i \in 1 .. Len(ServerTransactions) |-> Content(ServerTransactions[i])])

GtidsOfFiles(k) ==
  UNION {S!CompletedGtids(S!Committed(index[j])) : j \in 1 .. k}

\* A rewritten file starts with a format description and with the gtids of all
\* the files before it (generate_previous_gtids_log_event reports get_gtids,
\* which has caught up because the previous file was closed first).  Every
\* event says where it ends, and the sequence numbers count the transactions
\* from 1, across reconnections and restarts (last_sequence_number of the
\* metadata, get_last_transaction_sequence_number).
RewrittenFilesAreExact ==
  Rewrite =>
    \A k \in 1 .. Len(index) :
      LET e    == S!Committed(index[k])
          d    == DataSeq(e)
          ends == SelectSeq(e, LAMBDA x : x.boundary /\ x.gtid # NoGtid)
      IN  Len(d) > 1 => /\ d[2].code = "format_description"
                        /\ d[3].code = "previous_gtids_log"
                        /\ d[3].body = GtidsOfFiles(k - 1)
                        /\ \A i \in 2 .. Len(d) : d[i].next = i
                        /\ \A i \in 1 .. Len(ends) : ends[i].seq = i

\* Nothing is written to a file behind its ROTATE or STOP event, "the very last
\* event in the binlog" (reader_context, rotate_or_stop_expected).
NothingFollowsTerminator ==
  \A n \in S!NameSet(index) :
    LET d == DataSeq(S!Committed(n))
    IN  \A i \in 1 .. Len(d) - 1 : d[i].code \notin RC!EndCodes


\* The assertions at the end of open_binlog hold.
OpenBinlogAssertions == S!EmptyBufferLeavesNothing

\* Between events the reader context and the storage agree on where the next
\* event goes: the file, and the position that the next event is validated
\* against (context.position_ and storage.get_current_position()).
ContextAgreesWithStorage ==
  Fetching /\ ctx.state \in {"gtid_log_expected", "any_other_expected"} =>
    /\ stream = ctx.name
    /\ S!get_current_position = ctx.position

\* Events of a well-behaved server never make the receive loop throw: however
\* the previous connection ended, the next one is resumed where the reader
\* context and the storage accept it.
ResumptionNeverThrows == Undisturbed => ~threw

-----------------------------------------------------------------------------
(* Fairness.  The single thread of the program runs, and a read of a blocking *)
(* dump times out: weak fairness of its steps.  The environment lets it get    *)
(* somewhere: attempts to connect do not fail for ever, the server writes its  *)
(* binlog although it may have to lose its connections to restart, and a       *)
(* program that is down is started again.                                      *)

Fairness ==
  /\ SF_rvars(ServerWrites) /\ WF_rvars(StartProgram) /\ SF_rvars(Connect)
  /\ WF_rvars(Sleep) /\ WF_rvars(FetchEvent)
  /\ WF_rvars(ProcessQueued) /\ WF_rvars(NextCall)
  /\ WF_rvars(LoopTerminated) /\ WF_rvars(FetchLost)
  /\ WF_rvars(FetchEof) /\ WF_rvars(BackendStep)

FairSpec == Spec /\ Fairness

StoredGtids ==
  UNION {S!CompletedGtids(S!Committed(n)) : n \in S!NameSet(index)}

AllGtids == PreviousGtids(Len(ServerFiles) + 1)

\* In pull mode every transaction of the server ends up in the storage, if the
\* program is not stopped again and again and its storage is not refused: lost
\* connections, failed attempts and terminations only delay it (the pull loop
\* reconnects, and a lost connection or an idle one flushes the buffer).
EverythingIsStored ==
  <>[]~termination_flag => <>(StoredGtids = AllGtids \/ pc = "refused")

\* After a termination signal the program comes to an end: the loop stops, the
\* buffer is flushed by the destructor and the storage is released.
SignalEndsProgram == termination_flag ~> pc = "down"

=============================================================================
