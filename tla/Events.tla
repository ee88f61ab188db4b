------------------------------- MODULE Events -------------------------------
(* Binlog events as bytes: the common header, the post headers and bodies of *)
(* the events the program interprets, the footer, and the view that cuts an  *)
(* event into them.  Integers are the values of module Bytes; a signed one   *)
(* is [neg, mag], an optional one a set with at most one element.            *)
EXTENDS ByteSpan

-----------------------------------------------------------------------------
(* Event codes, server versions and the post header lengths they imply       *)

unknown == 0
query == 2
stop == 3
rotate == 4
format_description == 15
xid == 16
gtid_log == 33
anonymous_gtid_log == 34
previous_gtids_log == 35
gtid_tagged_log == 42

unspecified == 255      \* unspecified_post_header_length, encoded

latest_known_protocol_server_version == 80300

get_number_of_events(version) ==
  IF version < latest_known_protocol_server_version THEN 42 ELSE 43

\* A version is one number, 80045 for "8.0.45"; -1 is the exception.
Encoded(major, minor, patch) ==
  IF Max({major, minor, patch}) > 255 THEN -1 ELSE 10000 * major + 100 * minor + patch

\* The numbers between the dots.
ThreeNumbers(t, dots) ==
  LET number(from, to) == FoldSteps(LAMBDA n, c : 10 * n + (c - 48), 0, SubSeq(t, from, to))
  IN  IF \/ Cardinality(dots) # 2
         \/ \E i \in DOMAIN t \ dots : t[i] \notin 48 .. 57
         \/ dots \cap {1, Len(t)} # {} \/ Max(dots) = Min(dots) + 1
      THEN -1
      ELSE Encoded(number(1, Min(dots) - 1), number(Min(dots) + 1, Max(dots) - 1),
                   number(Max(dots) + 1, Len(t)))

Dotted(t) == ThreeNumbers(t, {i \in DOMAIN t : t[i] = 46})

\* A suffix after '-' is ignored.
semantic_version(text) ==
  Dotted(SubSeq(text, 1, Min({i - 1 : i \in {j \in DOMAIN text : text[j] = 45}} \cup {Len(text)})))

\* get_string
VersionText(version) ==
  LET decimal(n) == IF n < 10 THEN <<48 + n>> ELSE <<48 + (n \div 10), 48 + (n % 10)>>
  IN  decimal((version \div 10000) % 100) \o <<46>> \o decimal((version \div 100) % 100)
        \o <<46>> \o decimal(version % 100)

format_description_size(version) == 57 + get_number_of_events(version) - 1

\* The lengths of codes 1 .. 42, as the server of that version sends them.
get_hardcoded_post_header_lengths(version) ==
  LET old == version < latest_known_protocol_server_version
      known == (2 :> 13) @@ (4 :> 8) @@ (9 :> 4) @@ (11 :> 4) @@ (17 :> 4) @@ (18 :> 26)
               @@ (19 :> 8) @@ (26 :> 2) @@ (30 :> 10) @@ (31 :> 10) @@ (32 :> 10)
               @@ (33 :> 42) @@ (34 :> 42) @@ (36 :> 18) @@ (37 :> 52) @@ (39 :> 10)
               @@ (40 :> 40) @@ (15 :> format_description_size(version))
  IN  [c \in 1 .. 42 |-> IF c \in DOMAIN known THEN known[c]
                         ELSE IF old /\ c \in 23 .. 25 THEN 8 ELSE 0]

\* The sizes of the generic_post_header classes; a code without a class of
\* its own has no specified length.
get_known_post_header_lengths(version) ==
  [c \in 1 .. 42 |->
     IF c \in {gtid_log, anonymous_gtid_log} THEN 42
     ELSE IF c = format_description THEN format_description_size(version)
     ELSE IF c = rotate THEN 8
     ELSE IF c \in {stop, previous_gtids_log} THEN 0
     ELSE IF c = gtid_tagged_log THEN 0
     ELSE unspecified]

get_post_header_length_for_code(version, lengths, c) ==
  IF c = unknown \/ c >= get_number_of_events(version) THEN unspecified ELSE lengths[c]

\* FALSE: the exception
validate_post_header_lengths(runtime, known) ==
  \A c \in 1 .. 42 : known[c] = unspecified \/ runtime[c] = known[c]

-----------------------------------------------------------------------------
(* Reading fields one after the other into a record                          *)

fixed(n) == [t |-> "fixed", n |-> n]
raw(n) == [t |-> "raw", n |-> n]
packed == [t |-> "packed"]
varlen(n) == [t |-> "varlen", n |-> n]
signed == [t |-> "signed"]

AsSigned(s) == IF s.ok THEN [s EXCEPT !.v = get_unsigned_representation_as_signed(@)] ELSE s

Extract(b, how) ==
  CASE how.t = "fixed" -> extract_fixed_int_from_byte_span(Reader(b), how.n)
    [] how.t = "raw" -> extract_byte_span_from_byte_span(Reader(b), how.n)
    [] how.t = "packed" -> extract_packed_int_from_byte_span(Reader(b))
    [] how.t = "varlen" -> extract_varlen_int_from_byte_span(Reader(b), how.n)
    [] how.t = "signed" -> AsSigned(extract_varlen_int_from_byte_span(Reader(b), 8))

From(b, defaults) == [ok |-> TRUE, rest |-> b, v |-> defaults]

Failed(a) == [a EXCEPT !.ok = FALSE]

\* r has been read for a field.
Taken(a, field, r) ==
  IF r.ok THEN [ok |-> TRUE, rest |-> r.rest, v |-> [a.v EXCEPT ![field] = r.v]] ELSE Failed(a)

Field(a, field, how) ==
  IF a.ok THEN Taken(a, field, Extract(a.rest, how)) ELSE a

Fields(a, fs) == FoldSteps(LAMBDA x, f : Field(x, f[1], f[2]), a, fs)

Check(a, c) == IF c THEN a ELSE Failed(a)

CheckValue(a, c(_)) == Check(a, c(a.v))

\* The whole portion has to be used up.
Finished(a) == Check(a, a.rest = << >>)

\* encode_to of an object: its exception when the room is too small
Room(w, size) == IF w.room < size THEN [w EXCEPT !.ok = FALSE] ELSE w

Insert(w, fs) ==
  insert_byte_span_to_byte_span(w, Joined([i \in DOMAIN fs |-> Low(fs[i][1], fs[i][2])]))

-----------------------------------------------------------------------------
(* The common header and the footer *)

common_header_size == 19
footer_size == 4

header_fields == << <<"timestamp", fixed(4)>>, <<"type_code", fixed(1)>>,
                    <<"server_id", fixed(4)>>, <<"event_size", fixed(4)>>,
                    <<"next_event_position", fixed(4)>>, <<"flags", fixed(2)>> >>

no_header == [timestamp |-> << >>, type_code |-> << >>, server_id |-> << >>,
              event_size |-> << >>, next_event_position |-> << >>, flags |-> << >>]

\* common_header_view: every code of the enumeration has a name
common_header(portion) ==
  CheckValue(Fields(From(portion, no_header), header_fields),
             LAMBDA h : Len(portion) = common_header_size /\ Int2Nat(h.type_code) < 43)

EncodeHeader(w, h) ==
  Insert(Room(w, common_header_size),
         << <<h.timestamp, 4>>, <<h.type_code, 1>>, <<h.server_id, 4>>,
            <<h.event_size, 4>>, <<h.next_event_position, 4>>, <<h.flags, 2>> >>)

Code(h) == Int2Nat(h.type_code)

LOG_EVENT_ARTIFICIAL_F == 5     \* its bit

artificial(h) == LOG_EVENT_ARTIFICIAL_F \in BitsOf(h.flags)

\* Sums of unsigned 32-bit integers wrap.
Add32(offset, n) == Value(Low(Plus(offset, Nat2Int(n)), 4))

create_with_offset(offset, size, timestamp, c, server_id, flags) ==
  LET h == [timestamp |-> timestamp, type_code |-> Nat2Int(c), server_id |-> server_id,
            event_size |-> Nat2Int(size), next_event_position |-> << >>, flags |-> flags]
  IN  IF c = rotate /\ artificial(h) THEN h
      ELSE [h EXCEPT !.next_event_position = Add32(offset, size)]

\* Stands for CRC-32: a checksum of the bytes in four bytes.
calculate_crc32(b) ==
  LET sum[l, h \in DOMAIN b] ==
        IF l = h THEN <<b[l], ((l % 251) + 1) * b[l]>>
        ELSE LET left == sum[l, (l + h) \div 2]
                 right == sum[(l + h) \div 2 + 1, h]
             IN  <<left[1] + right[1], left[2] + right[2]>>
      s == sum[1, Len(b)]
  IN  Value(Low(Nat2Int(s[1] + 1), 2) \o Low(Nat2Int(s[2] + 1), 2))

-----------------------------------------------------------------------------
(* ROTATE: the position and the name of the next file *)

rotate_post_header(portion) ==
  Check(Field(From(portion, [position |-> << >>]), "position", fixed(8)), Len(portion) = 8)

rotate_body(portion) == [ok |-> TRUE, rest |-> << >>, v |-> [binlog |-> portion]]

EncodeRotatePostHeader(w, p) == Insert(Room(w, 8), << <<p.position, 8>> >>)

\* rotate and previous_gtids_log: bytes that are copied
EncodeCopy(w, b) == insert_byte_span_to_byte_span(Room(w, Len(b)), b)

-----------------------------------------------------------------------------
(* FORMAT_DESCRIPTION *)

\* A version's text without the zeros behind it.
normalize_for_c_str(b) ==
  SubSeq(b, 1, Min({i - 1 : i \in {j \in DOMAIN b : b[j] = 0}} \cup {Len(b)}))

\* a: read up to the version
FormatOfVersion(portion, a, version) ==
  IF \/ Len(portion) \notin format_description_size(80000) .. format_description_size(80300)
     \/ version = -1 \/ Len(portion) # format_description_size(version)
  THEN Failed(a)
  ELSE CheckValue([Fields(a, << <<"create_timestamp", fixed(4)>>,
                                <<"common_header_length", fixed(1)>>,
                                <<"lengths", raw(get_number_of_events(version) - 1)>> >>)
                     EXCEPT !.v.lengths = Low(@, 42)],
                  LAMBDA p : Len(portion) = get_post_header_length_for_code(version, p.lengths,
                                                                          format_description))

Versioned(portion, a) == FormatOfVersion(portion, a, semantic_version(a.v.server_version))

format_description_post_header(portion) ==
  Versioned(portion,
    [Fields(From(portion, [binlog_version |-> << >>, server_version |-> << >>,
                           create_timestamp |-> << >>, common_header_length |-> << >>,
                           lengths |-> << >>]),
            << <<"binlog_version", fixed(2)>>, <<"server_version", raw(50)>> >>)
       EXCEPT !.v.server_version = normalize_for_c_str(@)])

EncodeFormatOfVersion(w, p, version) ==
  LET text == p.server_version \o [i \in 1 .. 50 - Len(p.server_version) |-> 0]
      x == insert_byte_span_to_byte_span(
             Insert(Room(w, format_description_size(version)), << <<p.binlog_version, 2>> >>), text)
  IN  insert_byte_span_to_byte_span(
        Insert(x, << <<p.create_timestamp, 4>>, <<p.common_header_length, 1>> >>),
        SubSeq(p.lengths, 1, get_number_of_events(version) - 1))

EncodeFormatDescriptionPostHeader(w, p) ==
  EncodeFormatOfVersion(w, p, semantic_version(p.server_version))

\* checksum_algorithm: 0 off, 1 CRC-32
format_description_body(portion) ==
  CheckValue(Field(From(portion, [checksum_algorithm |-> << >>]), "checksum_algorithm", fixed(1)),
             LAMBDA b : Len(portion) = 1 /\ b.checksum_algorithm \in {<< >>, <<1>>})

has_checksum_algorithm(body) == body.checksum_algorithm # << >>

EncodeFormatDescriptionBody(w, body) == Insert(Room(w, 1), << <<body.checksum_algorithm, 1>> >>)

-----------------------------------------------------------------------------
(* GTID_LOG and ANONYMOUS_GTID_LOG *)

known_logical_ts_code == 2

gtid_log_post_header(portion) ==
  CheckValue(Fields(From(portion, [flags |-> << >>, uuid |-> << >>, gno |-> << >>,
                                   logical_ts_code |-> << >>, last_committed |-> << >>,
                                   sequence_number |-> << >>]),
                    << <<"flags", fixed(1)>>, <<"uuid", raw(16)>>, <<"gno", fixed(8)>>,
                       <<"logical_ts_code", fixed(1)>>, <<"last_committed", fixed(8)>>,
                       <<"sequence_number", fixed(8)>> >>),
             LAMBDA p : Len(portion) = 42 /\ p.logical_ts_code = <<known_logical_ts_code>>)

EncodeGtidLogPostHeader(w, p) ==
  Insert(insert_byte_span_to_byte_span(Insert(Room(w, 42), << <<p.flags, 1>> >>), p.uuid),
         << <<p.gno, 8>>, <<p.logical_ts_code, 1>>, <<p.last_committed, 8>>,
            <<p.sequence_number, 8>> >>)

\* The top bit of an n byte field, which says that another field follows it.
Marked(v, n) == Len(v) = n /\ v[n] >= 128

Mark(v, n) == [Low(v, n) EXCEPT ![n] = @ + 128]

Unmark(v, n) == Value([v EXCEPT ![n] = @ - 128])

\* A field that was read into a std::optional.
AsOptional(a, field) == IF a.ok THEN [a EXCEPT !.v[field] = {@}] ELSE a

\* A field, read by x, and the other one when the mark says that it follows.
OtherField(x, field, other, n) ==
  IF ~x.ok \/ ~Marked(x.v[field], n) THEN x
  ELSE AsOptional(Field([x EXCEPT !.v[field] = Unmark(@, n)], other, fixed(n)), other)

MarkedField(a, field, other, n) == OtherField(Field(a, field, fixed(n)), field, other, n)

\* The versions and the ticket are read when there is room for them.
GroupTicket(b) ==
  IF ~b.ok \/ Len(b.rest) < 8 THEN b
  ELSE AsOptional(Field(b, "commit_group_ticket", fixed(8)), "commit_group_ticket")

ServerVersions(a) ==
  IF ~a.ok \/ Len(a.rest) < 4 THEN a
  ELSE GroupTicket(AsOptional(MarkedField(a, "immediate_server_version",
                                          "original_server_version", 4),
                              "immediate_server_version"))

gtid_log_body(portion) ==
  LET defaults == [immediate_commit_timestamp |-> << >>, original_commit_timestamp |-> {},
                   transaction_length |-> << >>, immediate_server_version |-> {},
                   original_server_version |-> {}, commit_group_ticket |-> {}]
  IN  Finished(ServerVersions(
        Field(MarkedField(From(portion, defaults), "immediate_commit_timestamp",
                          "original_commit_timestamp", 7), "transaction_length", packed)))

The(s) == CHOOSE v \in s : TRUE

gtid_log_body_size(x) ==
  7 + 7 * Cardinality(x.original_commit_timestamp)
    + calculate_packed_int_size(x.transaction_length)
    + Cardinality(x.immediate_server_version)
        * (4 + 4 * Cardinality(x.original_server_version) + 8 * Cardinality(x.commit_group_ticket))

EncodeMarked(w, v, other, n) ==
  IF other = {} THEN Insert(w, << <<v, n>> >>)
  ELSE Insert(w, << <<Mark(v, n), n>>, <<The(other), n>> >>)

EncodeOptional(w, o, n) == IF o = {} THEN w ELSE Insert(w, << <<The(o), n>> >>)

EncodeVersions(w, x) ==
  IF x.immediate_server_version = {} THEN w
  ELSE EncodeOptional(EncodeMarked(w, The(x.immediate_server_version), x.original_server_version, 4),
                      x.commit_group_ticket, 8)

EncodeGtidLogBody(w, x) ==
  EncodeVersions(insert_packed_int_to_byte_span(
                   EncodeMarked(Room(w, gtid_log_body_size(x)), x.immediate_commit_timestamp,
                                x.original_commit_timestamp, 7), x.transaction_length), x)

-----------------------------------------------------------------------------
(* GTID_TAGGED_LOG: version 1, the size of the body, the last field that may *)
(* not be ignored (always 0), then fields behind their identifiers           *)

tagged_fields == <<"flags", "uuid", "gno", "tag", "last_committed", "sequence_number",
                   "immediate_commit_timestamp", "original_commit_timestamp",
                   "transaction_length", "immediate_server_version",
                   "original_server_version", "commit_group_ticket">>

tagged_optional == {"original_commit_timestamp", "original_server_version",
                    "commit_group_ticket"}

no_tagged == [f \in ToSet(tagged_fields) |-> IF f \in tagged_optional THEN {} ELSE << >>]

\* A fixed number of bytes, each as a varlen integer.
AppendByte(a, r) ==
  IF r.ok THEN [ok |-> TRUE, rest |-> r.rest, v |-> a.v \o Low(r.v, 1)] ELSE Failed(a)

VarlenBytes(b, n) ==
  FoldSteps(LAMBDA a, i : IF a.ok THEN AppendByte(a, Extract(a.rest, varlen(1))) ELSE a,
            From(b, << >>), [i \in 1 .. n |-> i])

\* A string behind its size.
SizedBytes(size) ==
  IF size.ok /\ Len(size.v) <= 1 THEN Extract(size.rest, raw(Int2Nat(size.v))) ELSE Failed(size)

process_field_data(a, field) ==
  CASE field = "flags" -> Field(a, field, varlen(1))
    [] field = "uuid" -> Taken(a, field, VarlenBytes(a.rest, 16))
    [] field \in {"gno", "last_committed", "sequence_number"} -> Field(a, field, signed)
    [] field = "tag" -> Taken(a, field, SizedBytes(Extract(a.rest, varlen(8))))
    [] field = "immediate_server_version" -> Field(a, field, varlen(4))
    [] field = "original_server_version" -> AsOptional(Field(a, field, varlen(4)), field)
    [] field \in tagged_optional -> AsOptional(Field(a, field, varlen(8)), field)
    [] OTHER -> Field(a, field, varlen(8))

\* The field behind its identifier; last is the one before it.
FieldAfter(s, id, i) ==
  IF ~id.ok THEN [s EXCEPT !.ended = TRUE]
  ELSE IF i <= s.last \/ i > 12 THEN [s EXCEPT !.a = Failed(@)]
  ELSE [a |-> process_field_data([s.a EXCEPT !.rest = id.rest], tagged_fields[i]), last |-> i,
        seen |-> s.seen \cup {tagged_fields[i]}, ended |-> FALSE]

IdentifiedField(s, id) == FieldAfter(s, id, Int2Nat(id.v) + 1)

\* One turn of the loop over the fields.
NextField(s) ==
  IF s.ended \/ ~s.a.ok THEN s ELSE IdentifiedField(s, Extract(s.a.rest, varlen(1)))

AllFields(b) ==
  FoldSteps(LAMBDA s, i : NextField(s),
            [a |-> From(b, no_tagged), last |-> 0, seen |-> {}, ended |-> FALSE],
            [i \in 1 .. 13 |-> i])

AllSeen(s) == Check(Finished(s.a), ToSet(tagged_fields) \ tagged_optional \subseteq s.seen)

\* p: the version, the size and the last non-ignorable field
BehindPreamble(portion, p) ==
  IF p.ok /\ p.v = [version |-> <<1>>, size |-> Nat2Int(Len(portion)), last |-> << >>]
  THEN AllSeen(AllFields(p.rest)) ELSE Failed(From(portion, no_tagged))

tagged_body(portion) ==
  BehindPreamble(portion,
    Fields(From(portion, [version |-> << >>, size |-> << >>, last |-> << >>]),
           << <<"version", varlen(1)>>, <<"size", varlen(8)>>, <<"last", varlen(1)>> >>))

\* What is written for a field: varlen integers, then bytes as they are.
Data(x, field) ==
  LET varlens == CASE field = "uuid" -> [i \in 1 .. 16 |-> Value(<<x.uuid[i]>>)]
                   [] field = "tag" -> <<Nat2Int(Len(x.tag))>>
                   [] field \in {"gno", "last_committed", "sequence_number"} ->
                        <<get_signed_representation_as_unsigned(x[field])>>
                   [] field \in tagged_optional -> <<The(x[field])>>
                   [] OTHER -> <<x[field]>>
  IN  [varlens |-> varlens, bytes |-> IF field = "tag" THEN x.tag ELSE << >>]

Present(x) == SelectSeq(tagged_fields, LAMBDA f : f \notin tagged_optional \/ x[f] # {})

FieldId(f) == Nat2Int((CHOOSE i \in DOMAIN tagged_fields : tagged_fields[i] = f) - 1)

DataSize(d) ==
  Len(d.bytes) + Total([i \in DOMAIN d.varlens |-> calculate_varlen_int_size(d.varlens[i])])

calculate_tlv_section_size(x) ==
  LET fields == Present(x)
  IN  Total([i \in DOMAIN fields |-> calculate_varlen_int_size(FieldId(fields[i]))
                                       + DataSize(Data(x, fields[i]))])

DataBytes(d) == Joined([i \in DOMAIN d.varlens |-> varlen_int(d.varlens[i])]) \o d.bytes

encode_tlv_section_to(w, x) ==
  LET fields == Present(x)
  IN  insert_byte_span_to_byte_span(w,
        Joined([i \in DOMAIN fields |-> varlen_int(FieldId(fields[i]))
                                          \o DataBytes(Data(x, fields[i]))]))

\* The loops that look for a size which is the size of what contains it: at
\* most 9 turns; the last candidate, and what it gives.
Stabilize(recalculated(_), first) ==
  LET turn[i \in 0 .. 9, n \in Nat, r \in Nat] ==
        IF r = n \/ i = 9 THEN [candidate |-> n, size |-> r]
        ELSE turn[i + 1, r, recalculated(r)]
  IN  turn[0, first, recalculated(first)]

\* tail and, in front of it, the size of both.
WithOwnSize(tail) ==
  tail + Stabilize(LAMBDA n : calculate_varlen_int_size(Nat2Int(tail + n)), 1).candidate

tagged_body_size(x) == WithOwnSize(2 + calculate_tlv_section_size(x))

EncodePreamble(w, size) ==
  insert_byte_span_to_byte_span(Room(w, size),
    varlen_int(<<1>>) \o varlen_int(Nat2Int(size)) \o varlen_int(<< >>))

EncodeTaggedBody(w, x) == encode_tlv_section_to(EncodePreamble(w, tagged_body_size(x)), x)

-----------------------------------------------------------------------------
(* Class event: what the code of the header selects; codes that have no      *)
(* class of their own are neither interpreted nor encoded                    *)

empty(portion) == [ok |-> portion = << >>, rest |-> << >>, v |-> << >>]

uninterpreted(portion) == [ok |-> TRUE, rest |-> << >>, v |-> << >>]

emplace_post_header(c, portion) ==
  CASE c = rotate -> rotate_post_header(portion)
    [] c = format_description -> format_description_post_header(portion)
    [] c \in {gtid_log, anonymous_gtid_log} -> gtid_log_post_header(portion)
    [] c \in {stop, previous_gtids_log, gtid_tagged_log} -> empty(portion)
    [] OTHER -> uninterpreted(portion)

emplace_body(c, portion) ==
  CASE c = rotate -> rotate_body(portion)
    [] c = format_description -> format_description_body(portion)
    [] c \in {gtid_log, anonymous_gtid_log} -> gtid_log_body(portion)
    [] c = previous_gtids_log -> [ok |-> TRUE, rest |-> << >>, v |-> [gtids |-> portion]]
    [] c = gtid_tagged_log -> tagged_body(portion)
    [] c = stop -> empty(portion)
    [] OTHER -> uninterpreted(portion)

encodable(c) == c \in {rotate, format_description, gtid_log, anonymous_gtid_log,
                       previous_gtids_log, gtid_tagged_log, stop}

PostHeaderSize(c, p) ==
  CASE c = rotate -> 8
    [] c = format_description -> format_description_size(semantic_version(p.server_version))
    [] c \in {gtid_log, anonymous_gtid_log} -> 42
    [] OTHER -> 0

BodySize(c, x) ==
  CASE c = rotate -> Len(x.binlog)
    [] c = format_description -> 1
    [] c \in {gtid_log, anonymous_gtid_log} -> gtid_log_body_size(x)
    [] c = previous_gtids_log -> Len(x.gtids)
    [] c = gtid_tagged_log -> tagged_body_size(x)
    [] OTHER -> 0

EncodePostHeader(w, c, p) ==
  CASE c = rotate -> EncodeRotatePostHeader(w, p)
    [] c = format_description -> EncodeFormatDescriptionPostHeader(w, p)
    [] c \in {gtid_log, anonymous_gtid_log} -> EncodeGtidLogPostHeader(w, p)
    [] OTHER -> w

EncodeBody(w, c, x) ==
  CASE c = rotate -> EncodeCopy(w, x.binlog)
    [] c = format_description -> EncodeFormatDescriptionBody(w, x)
    [] c \in {gtid_log, anonymous_gtid_log} -> EncodeGtidLogBody(w, x)
    [] c = previous_gtids_log -> EncodeCopy(w, x.gtids)
    [] c = gtid_tagged_log -> EncodeTaggedBody(w, x)
    [] OTHER -> w

\* An event is [header, post_header, body, footer], footer {} or {crc}.
calculate_encoded_size(e) ==
  LET c == Code(e.header)
  IN  common_header_size + PostHeaderSize(c, e.post_header) + BodySize(c, e.body)
        + footer_size * Cardinality(e.footer)

encode_to(w, e) ==
  LET c == Code(e.header)
  IN  IF ~encodable(c) THEN [w EXCEPT !.ok = FALSE]
      ELSE EncodeOptional(
             EncodeBody(EncodePostHeader(EncodeHeader(Room(w, calculate_encoded_size(e)), e.header),
                                         c, e.post_header), c, e.body),
             e.footer, footer_size)

\* [ok, bytes], ok FALSE the exception: a footer goes where the size in the
\* header has left room for it.
Checksummed(w, include_checksum) ==
  IF ~w.ok \/ (include_checksum /\ w.room # footer_size) THEN [ok |-> FALSE, bytes |-> << >>]
  ELSE [ok |-> TRUE,
        bytes |-> w.bytes \o IF include_checksum THEN Low(calculate_crc32(w.bytes), 4)
                             ELSE Low(<< >>, w.room)]

encode_and_checksum(e, include_checksum) ==
  Checksummed(encode_to(Writer(Int2Nat(e.header.event_size)), e), include_checksum)

\* FORMAT_DESCRIPTION has a footer whatever include_checksum says.
create_event(c, offset, timestamp, server_id, flags, post_header, body, include_checksum) ==
  LET size == common_header_size + PostHeaderSize(c, post_header) + BodySize(c, body)
                + IF include_checksum THEN footer_size ELSE 0
  IN  encode_and_checksum(
        [header |-> create_with_offset(offset, size, timestamp, c, server_id, flags),
         post_header |-> post_header, body |-> body, footer |-> {}],
        include_checksum \/ c = format_description)

-----------------------------------------------------------------------------
(* event_view: the parts of an event.  A context is [footer_expected,        *)
(* verify, version, lengths] of reader_context; a view is [ok, portion,      *)
(* post_header_size, footer_size].                                           *)

header_of(v) == SubSeq(v.portion, 1, common_header_size)

post_header_of(v) ==
  SubSeq(v.portion, common_header_size + 1, common_header_size + v.post_header_size)

body_of(v) == SubSeq(v.portion, common_header_size + v.post_header_size + 1,
                     Len(v.portion) - v.footer_size)

footer_of(v) == SubSeq(v.portion, Len(v.portion) - v.footer_size + 1, Len(v.portion))

calculate_crc(v) == calculate_crc32(SubSeq(v.portion, 1, Len(v.portion) - v.footer_size))

\* v: the parts, by the sizes that the code c and the context imply
validate_view(context, v, c) ==
  LET fde_body == format_description_body(body_of(v))
  IN  /\ v.post_header_size >= 0 /\ v.post_header_size # unspecified
      /\ Len(v.portion) >= common_header_size + v.post_header_size + v.footer_size
      /\ context.verify =>
           /\ c = format_description => fde_body.ok
           /\ v.footer_size # 0 /\ (c = format_description => has_checksum_algorithm(fde_body.v))
                => Low(calculate_crc(v), 4) = footer_of(v)

Validated(context, v, c) == [v EXCEPT !.ok = @ /\ validate_view(context, v, c)]

\* h: the header the portion begins with
view_of(context, portion, h, c) ==
  LET footer == IF c = format_description \/ context.footer_expected THEN footer_size ELSE 0
  IN  Validated(context,
        [ok |-> h.ok /\ h.v.event_size = Nat2Int(Len(portion)),
         portion |-> portion, footer_size |-> footer,
         post_header_size |->
           IF c = format_description THEN Len(portion) - (common_header_size + 1 + footer)
           ELSE get_post_header_length_for_code(context.version, context.lengths, c)], c)

headed_view(context, portion, h) == view_of(context, portion, h, Code(h.v))

event_view(context, portion) ==
  headed_view(context, portion,
              common_header(SubSeq(portion, 1, Min({common_header_size, Len(portion)}))))

\* event(view): the parts that were read, put together
Composed(v, h, p, b) ==
  [ok |-> v.ok /\ p.ok /\ b.ok,
   event |-> [header |-> h, post_header |-> p.v, body |-> b.v,
              footer |-> IF v.footer_size = 0 THEN {} ELSE {Value(footer_of(v))}]]

WithHeader(v, h) ==
  Composed(v, h, emplace_post_header(Code(h), post_header_of(v)), emplace_body(Code(h), body_of(v)))

event(v) == WithHeader(v, common_header(header_of(v)).v)

=============================================================================
