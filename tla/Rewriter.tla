------------------------------ MODULE Rewriter ------------------------------
(* The rewriter at work on bytes: the events of the source's transactions    *)
(* are moved into the storage's files, and the program creates the events    *)
(* those files begin and end with.                                           *)
EXTENDS Events, CommitOrder

CONSTANTS Versions,     \* server versions of the source, encoded
          Gtids,        \* sequence of GTID events: code, and the fields that stay
          TailSizes,    \* body sizes of the event behind a GTID event
          FileSize,     \* rewrite.file_size
          Positions,    \* where the storage's file may stand after a crash
          Histories,    \* sequence of clocks the exploration starts from
          MaxTurns      \* transactions, rotations and crashes

VARIABLES context,      \* of reader_context: what event_view needs
          position,     \* size of the storage's file, 0: there is none
          pending,      \* the events of the transaction that are still to come
          written,      \* the events written since the last transaction began
          refused,      \* an event could not be viewed or rewritten
          turns

rewriterVars == <<context, position, pending, written, refused, turns>>

-----------------------------------------------------------------------------
(* Updating an event in place *)

Patch(b, from, new) == [i \in DOMAIN b |-> IF i \in from .. from + Len(new) - 1
                                          THEN new[i - from + 1] ELSE b[i]]

set_event_size_raw(v, n) == [v EXCEPT !.portion = Patch(@, 10, Low(Nat2Int(n), 4))]

set_next_event_position_raw(v, n) == [v EXCEPT !.portion = Patch(@, 14, Low(n, 4))]

\* The destructor of write_proxy.
RecalculateCrc(v) ==
  IF v.footer_size = 0 THEN v
  ELSE [v EXCEPT !.portion = Patch(@, Len(@) - 3, Low(calculate_crc(v), 4))]

normalized(v, mode) ==
  IF \/ mode = "force_remove_checksum" /\ v.footer_size = 0
     \/ mode = "force_add_checksum" /\ v.footer_size # 0
  THEN "leave_checksum_as_is" ELSE mode

prepare_generic_materialize_internal(v, mode) ==
  CASE mode = "force_add_checksum" -> [v EXCEPT !.portion = @ \o <<0, 0, 0, 0>>,
                                                !.footer_size = footer_size]
    [] mode = "force_remove_checksum" -> [v EXCEPT !.portion = SubSeq(@, 1, Len(@) - footer_size),
                                                   !.footer_size = 0]
    [] mode = "leave_checksum_as_is" -> v

\* Mutant: the size in the header is left as it is.
ResizedNever(v, mode) == v

\* The modification every caller makes: the size when it has changed, and,
\* when the event is moved, the position behind it.
Resized(v, mode) ==
  IF mode = "leave_checksum_as_is" THEN v ELSE set_event_size_raw(v, Len(v.portion))

Relocated(v, offset) == set_next_event_position_raw(v, Add32(offset, Len(v.portion)))

materialize(v, mode) ==
  LET m == normalized(v, mode)
  IN  RecalculateCrc(Resized(prepare_generic_materialize_internal(v, m), m))

\* Mutant: the checksum is not recalculated.
materialize_and_relocate_stale(v, mode, offset) ==
  LET m == normalized(v, mode)
  IN  Relocated(Resized(prepare_generic_materialize_internal(v, m), m), offset)

materialize_and_relocate(v, mode, offset) ==
  LET m == normalized(v, mode)
  IN  RecalculateCrc(Relocated(Resized(prepare_generic_materialize_internal(v, m), m), offset))

\* x has its place and its checksum's; p: its post header
ReplacePostHeader(last_local, x, p) ==
  LET s == Int2Nat(p.v.sequence_number)
      c == Int2Nat(p.v.last_committed)
      new == fix_sequence_number_and_last_committed(last_local, s, c)
      q == [p.v EXCEPT !.sequence_number = Nat2Int(new.sequence_number),
                       !.last_committed = Nat2Int(new.last_committed)]
  IN  IF ~p.ok \/ c >= s THEN [x EXCEPT !.ok = FALSE]
      ELSE RecalculateCrc([x EXCEPT !.portion =
             Patch(@, common_header_size + 1, EncodeGtidLogPostHeader(Writer(42), q).bytes)])

RenumberPostHeader(last_local, x) ==
  ReplacePostHeader(last_local, x, gtid_log_post_header(post_header_of(x)))

rewrite_gtid_log_internal(last_local, v, offset) ==
  LET m == normalized(v, "force_add_checksum")
  IN  RenumberPostHeader(last_local,
        Relocated(Resized(prepare_generic_materialize_internal(v, m), m), offset))

\* Mutant: the first size that is computed is kept.
TaggedSizeOnce(body, tail, original) ==
  LET length(n) == Plus(Nat2Int(n), tail)
  IN  [candidate |-> original,
       size |-> common_header_size + footer_size
                  + tagged_body_size([body EXCEPT !.transaction_length = length(original)])]

\* The size of the event, which the length of the transaction depends on,
\* which is stored in the event; tail: the other events of the transaction.
TaggedSize(body, tail, original) ==
  LET length(n) == Plus(Nat2Int(n), tail)
      size(n) == common_header_size + footer_size
                   + tagged_body_size([body EXCEPT !.transaction_length = length(n)])
  IN  Stabilize(size, original)

positive(n) == [neg |-> FALSE, mag |-> Nat2Int(n)]


\* The body that is decoded is the one that is encoded.
Renumbered(body, new) ==
  [body EXCEPT !.sequence_number = positive(new.sequence_number),
               !.last_committed = positive(new.last_committed)]

\* w: the new body
ReplaceBody(v, w, size, offset) ==
  RecalculateCrc(Relocated(set_event_size_raw(
    [ok |-> w.ok, post_header_size |-> 0, footer_size |-> footer_size,
     portion |-> header_of(v) \o w.bytes \o <<0, 0, 0, 0>>], size), offset))

EncodeResized(v, body, tail, size, offset) ==
  ReplaceBody(v,
    EncodeTaggedBody(Writer(size.size - common_header_size - footer_size),
                     [body EXCEPT !.transaction_length = Plus(Nat2Int(size.candidate), tail)]),
    size.size, offset)

EncodeRenumbered(v, body, tail, offset) ==
  EncodeResized(v, body, tail, TaggedSize(body, tail, Len(v.portion)), offset)

RenumberBody(last_local, v, b, offset) ==
  LET s == Int2Nat(b.v.sequence_number.mag)
      c == Int2Nat(b.v.last_committed.mag)
      length == Int2Nat(b.v.transaction_length)
  IN  IF ~b.ok \/ length < Len(v.portion) \/ c >= s THEN [v EXCEPT !.ok = FALSE]
      ELSE EncodeRenumbered(
             v, Renumbered(b.v, fix_sequence_number_and_last_committed(last_local, s, c)),
             Nat2Int(length - Len(v.portion)), offset)

rewrite_gtid_tagged_log_internal(last_local, v, offset) ==
  RenumberBody(last_local, v, tagged_body(body_of(v)), offset)

rewrite_code(c, last_local, v, offset) ==
  IF c \in {gtid_log, anonymous_gtid_log} THEN rewrite_gtid_log_internal(last_local, v, offset)
  ELSE IF c = gtid_tagged_log THEN rewrite_gtid_tagged_log_internal(last_local, v, offset)
  ELSE materialize_and_relocate(v, "force_add_checksum", offset)

rewrite(last_local, v, offset) ==
  rewrite_code(Code(common_header(header_of(v)).v), last_local, v, offset)

-----------------------------------------------------------------------------
(* The events the program creates *)

server_id == <<1>>
now == <<1>>                    \* any timestamp
no_flags == << >>
artificial_flag == <<32>>
binlog_name == <<98, 46, 49>>   \* any name
gtids == << >>                  \* any encoded set
magic_binlog_offset == <<4>>

generate_rotate_event(footer, offset, is_artificial) ==
  create_event(rotate, offset, IF is_artificial THEN << >> ELSE now, server_id,
               IF is_artificial THEN artificial_flag ELSE no_flags,
               [position |-> magic_binlog_offset], [binlog |-> binlog_name], footer)

generate_format_description_event(version, offset) ==
  create_event(format_description, offset, now, server_id, no_flags,
               [binlog_version |-> <<4>>, server_version |-> VersionText(version),
                create_timestamp |-> now, common_header_length |-> <<19>>,
                lengths |-> get_hardcoded_post_header_lengths(version)],
               [checksum_algorithm |-> <<1>>], TRUE)

generate_previous_gtids_log_event(offset) ==
  create_event(previous_gtids_log, offset, now, server_id, no_flags, << >>,
               [gtids |-> gtids], TRUE)

\* A context before any event: the lengths the program knows for the server's
\* version, none for the events it has no class for.
FreshContext(version) ==
  [fresh |-> TRUE, footer_expected |-> TRUE, verify |-> TRUE, version |-> version,
   lengths |-> get_known_post_header_lengths(version)]

\* process_event_in_format_description_expected_state
DescribedBy(c, e) ==
  [c EXCEPT !.fresh = FALSE, !.version = semantic_version(e.post_header.server_version),
            !.lengths = e.post_header.lengths,
            !.footer_expected = has_checksum_algorithm(e.body)]

AfterFormatDescription(c, bytes) == DescribedBy(c, event(event_view(c, bytes)).event)

\* FORMAT_DESCRIPTION is refused when it is not of the known format, of a later
\* version than the connection, or when its lengths are not the known ones.
AcceptableEvent(c, x) ==
  LET version == semantic_version(x.event.post_header.server_version)
  IN  /\ x.ok
      /\ Code(x.event.header) = format_description =>
           /\ x.event.post_header.binlog_version = <<4>>
           /\ x.event.post_header.common_header_length = <<common_header_size>>
           /\ version <= c.version
           /\ validate_post_header_lengths(x.event.post_header.lengths,
                                           get_known_post_header_lengths(version))

AcceptableView(c, v) == v.ok /\ AcceptableEvent(c, event(v))

Acceptable(c, e) == e.ok /\ AcceptableView(c, event_view(c, e.bytes))

\* ROTATE at the end of the old file, unless this is a new connection;
\* artificial ROTATE, FORMAT_DESCRIPTION and PREVIOUS_GTIDS_LOG of the next.
\* Those of a file that is continued are not stored, and artificial ones never.
PreambleOf(old, art, fde, next, offset, previous) ==
  LET at(offset_, e) == [at |-> offset_, bytes |-> e.bytes, from |-> << >>]
      continued == context.fresh /\ position # << >>
  IN  [ok |-> /\ \A e \in {art, fde} \cup (IF context.fresh THEN {} ELSE {old}) :
                   Acceptable(context, e)
              /\ Acceptable(next, previous),
       context |-> next,
       written |-> (IF context.fresh THEN << >> ELSE <<at(position, old)>>)
                     \o IF continued THEN << >>
                        ELSE <<at(magic_binlog_offset, fde), at(offset, previous)>>,
       position |-> IF continued THEN position ELSE Add32(offset, Len(previous.bytes))]

\* The same, of a file that begins with fde.
PreambleBehind(fde, offset) ==
  PreambleOf(generate_rotate_event(context.footer_expected, position, FALSE),
             generate_rotate_event(context.footer_expected, << >>, TRUE),
             fde, AfterFormatDescription(context, fde.bytes), offset,
             generate_previous_gtids_log_event(offset))

PreambleFrom(fde) == PreambleBehind(fde, Add32(magic_binlog_offset, Len(fde.bytes)))

Preamble == PreambleFrom(generate_format_description_event(context.version, magic_binlog_offset))

-----------------------------------------------------------------------------
(* The source: numbered GTID events that state the length of their           *)
(* transaction, other events, each with a checksum                           *)

Framed(c, payload) ==
  LET size == common_header_size + Len(payload) + footer_size
      w == EncodeHeader(Writer(common_header_size),
                        create_with_offset(<<232, 3>>, size, now, c, <<2>>, no_flags))
      b == w.bytes \o payload
  IN  b \o Low(calculate_crc32(b), 4)

SourceTail(n) == Framed(query, [i \in 1 .. 13 + n |-> i % 256])

StatedLength(body, n) == [body EXCEPT !.transaction_length = Nat2Int(n)]

SourceEvent(c, post_header, body, tail) ==
  LET size(n) == common_header_size + footer_size + PostHeaderSize(c, post_header)
                   + BodySize(c, StatedLength(body, n + tail))
  IN  create_event(c, <<232, 3>>, now, <<2>>, no_flags, post_header,
                   StatedLength(body, Stabilize(size, 0).candidate + tail), TRUE).bytes

SourceGtid(g, sequence_number, last_committed, tail) ==
  IF g.code = gtid_tagged_log
  THEN SourceEvent(g.code, << >>,
                   [g.body EXCEPT !.sequence_number = positive(sequence_number),
                                  !.last_committed = positive(last_committed)], tail)
  ELSE SourceEvent(g.code,
                   [g.post_header EXCEPT !.sequence_number = Nat2Int(sequence_number),
                                         !.last_committed = Nat2Int(last_committed)],
                   g.body, tail)

-----------------------------------------------------------------------------
(* The state machine *)

RewriterInit ==
  /\ \E h \in DOMAIN Histories :
       /\ file = Histories[h].file /\ remote = Histories[h].remote
       /\ begin = Histories[h].begin /\ local = Histories[h].local
       /\ stored = Histories[h].stored
       /\ position \in IF local = 0 THEN {<< >>} ELSE Positions
  /\ \E version \in Versions : context = FreshContext(version)
  /\ pending = << >> /\ written = << >> /\ refused = FALSE /\ turns = 0

\* rewrite_and_process_binlog_event for the GTID event of a transaction.
RewriteGtid(g, last_committed, n) ==
  LET rotates == ~context.fresh /\ ~LessInt(position, FileSize)
      starts == rotates \/ position = << >>
  IN  /\ pending = << >> /\ ~refused /\ turns < MaxTurns
      /\ Gtids[g].code < get_number_of_events(context.version)
      /\ Rewrite(starts, last_committed)
      /\ \E tail \in {SourceTail(n)},
            p \in {IF context.fresh \/ rotates THEN Preamble
                   ELSE [ok |-> TRUE, context |-> context, written |-> << >>,
                         position |-> position]} :
           \E bytes \in {SourceGtid(Gtids[g], remote + 1, last_committed, Len(tail))} :
             \E v \in {event_view(context, bytes)} :
               \E r \in {rewrite(IF starts THEN 0 ELSE local, v, p.position)} :
                 /\ refused' = ~(v.ok /\ p.ok /\ r.ok)
                 /\ context' = p.context
                 /\ written' = Append(p.written, [at |-> p.position, bytes |-> r.portion,
                                                  from |-> bytes])
                 /\ position' = Plus(p.position, Nat2Int(Len(r.portion)))
                 /\ pending' = <<tail>>
      /\ turns' = turns + 1

\* The same, of the event behind it.
RewriteTail ==
  /\ pending # << >> /\ ~refused
  /\ \E v \in {event_view(context, Head(pending))} :
       \E r \in {rewrite(local, v, position)} :
         /\ refused' = ~(v.ok /\ r.ok)
         /\ written' = Append(written, [at |-> position, bytes |-> r.portion,
                                        from |-> Head(pending)])
         /\ position' = Plus(position, Nat2Int(Len(r.portion)))
  /\ pending' = Tail(pending)
  /\ UNCHANGED <<clockVars, context, turns>>

\* The same, of the events the source's files begin and end with: skipped.
\* The source sends them as this program creates them.
SkipPreamble ==
  /\ pending = << >> /\ ~refused /\ turns < MaxTurns
  /\ SourceRotates
  /\ refused' = \E e \in {generate_rotate_event(TRUE, <<232, 3>>, FALSE),
                          generate_rotate_event(TRUE, << >>, TRUE),
                          generate_format_description_event(context.version, magic_binlog_offset),
                          generate_previous_gtids_log_event(<<125>>)} :
                  ~event_view(context, e.bytes).ok
  /\ written' = << >>
  /\ turns' = turns + 1
  /\ UNCHANGED <<context, position, pending>>

\* The program ends, and streams again from what was flushed.
Reconnect ==
  /\ turns < MaxTurns /\ position # << >>
  /\ \E last \in {0, local} : Lose(last)
  /\ position' \in Positions
  /\ context' = FreshContext(context.version)
  /\ pending' = << >> /\ written' = << >> /\ refused' = FALSE
  /\ turns' = turns + 1

RewriterNext ==
  \/ \E g \in DOMAIN Gtids, n \in TailSizes,
        last_committed \in {0, remote - 1, remote} \cap Nat : RewriteGtid(g, last_committed, n)
  \/ RewriteTail
  \/ SkipPreamble
  \/ Reconnect

RewriterSpec == RewriterInit /\ [][RewriterNext]_<<clockVars, rewriterVars>>

-----------------------------------------------------------------------------
(* Properties *)

Decoded(w) == event(event_view(context, w.bytes))

\* Every event the program puts into a file, rewritten or created, is one its
\* reader accepts with the context the file's FORMAT_DESCRIPTION leads to: the
\* checksum, the sizes and all fields, which encode to the same bytes again;
\* and its header says where in the file the next event begins, modulo 2^32.
EventsAreReadable ==
  /\ ~refused
  /\ \A i \in DOMAIN written :
       LET w == written[i]
       IN  /\ \E d \in {Decoded(w)} :
                /\ d.ok
                /\ d.event.header.next_event_position = Add32(w.at, Len(w.bytes))
                /\ encodable(Code(d.event.header)) =>
                     encode_to(Writer(Len(w.bytes)), d.event).bytes = w.bytes
           /\ i < Len(written) /\ written[i + 1].at # magic_binlog_offset =>
                written[i + 1].at = Plus(w.at, Nat2Int(Len(w.bytes)))

GtidEventCodes == {gtid_log, anonymous_gtid_log, gtid_tagged_log}

IsGtid(w) == Code(common_header(SubSeq(w.bytes, 1, common_header_size)).v) \in GtidEventCodes

\* sequence_number and last_committed of a GTID event
Clock(e) ==
  IF Code(e.header) = gtid_tagged_log
  THEN <<Int2Nat(e.body.sequence_number.mag), Int2Nat(e.body.last_committed.mag)>>
  ELSE <<Int2Nat(e.post_header.sequence_number), Int2Nat(e.post_header.last_committed)>>

\* Once a transaction is written, its GTID event states the total size of its
\* events as they are in the storage's file, although that size depends on
\* how many bytes the statement takes; and the numbers in it are the new ones.
GtidEventIsExact ==
  \A i \in DOMAIN written :
    IsGtid(written[i]) =>
      \E e \in {Decoded(written[i]).event} :
        /\ pending = << >> =>
             Int2Nat(e.body.transaction_length)
               = Total([j \in 1 .. Len(written) + 1 - i |-> Len(written[i + j - 1].bytes)])
        /\ Clock(e)[1] = local
        /\ \E t \in stored : t.new = [sequence_number |-> Clock(e)[1],
                                      last_committed |-> Clock(e)[2]]

\* An event without what rewriting may change.
Content(e) ==
  [code |-> Code(e.header), timestamp |-> e.header.timestamp, server |-> e.header.server_id,
   post_header |-> IF Code(e.header) \in {gtid_log, anonymous_gtid_log}
                   THEN [e.post_header EXCEPT !.sequence_number = << >>, !.last_committed = << >>]
                   ELSE e.post_header,
   body |-> IF Code(e.header) # gtid_tagged_log THEN e.body
            ELSE [e.body EXCEPT !.sequence_number = << >>, !.last_committed = << >>,
                                !.transaction_length = << >>]]


\* materialize: an event that loses its checksum is one a reader without
\* checksums accepts, and when it is given one again it is what it was.
ChecksumsComeAndGo ==
  LET bare == [context EXCEPT !.footer_expected = FALSE]
  IN  \A i \in DOMAIN written :
        \E v \in {event_view(context, written[i].bytes)} :
          Code(common_header(header_of(v)).v) # format_description =>
            \E u \in {event_view(bare, materialize(v, "force_remove_checksum").portion)} :
              /\ u.ok /\ Len(u.portion) = Len(v.portion) - footer_size
              /\ materialize(u, "force_add_checksum").portion = v.portion
              /\ materialize(u, "force_remove_checksum").portion = u.portion

=============================================================================
