----------------------------- MODULE GtidCodec ------------------------------
(* The two forms in which class gtid_set leaves the program: the text that   *)
(* is written to metadata files and read from the configuration, and the     *)
(* bytes of PREVIOUS_GTIDS_LOG events and of the dump command.  Text is a    *)
(* sequence of tokens: UUIDs, tags and numbers, and the separators.          *)
EXTENDS GtidIntervals, ByteSpan

CONSTANTS UuidBytes, TagBytes     \* the 16 bytes of a UUID, the letters of a tag

\* operator<=> of uuid and tag: maps are iterated in this order
Less(a, b) ==
  \/ \E i \in DOMAIN a \cap DOMAIN b : a[i] < b[i] /\ \A j \in 1 .. i - 1 : a[j] = b[j]
  \/ Len(a) < Len(b) /\ SubSeq(b, 1, Len(a)) = a

Sorted(S, before(_, _)) == SetToSortSeq(S, before)

TagsOf(o, u) ==
  Sorted({x \in o.tsids : x[1] = u}, LAMBDA x, y : Less(TagBytes[x[2]], TagBytes[y[2]]))

UuidsOf(o) == Sorted(o.uuids, LAMBDA u, v : Less(UuidBytes[u], UuidBytes[v]))

IntervalsOf(o, x) == Sorted(o.gnos[x], LAMBDA i, j : i.lo < j.lo)

\* The entries of both maps, in the order of the nested loops.
Entries(o) == LET us == UuidsOf(o) IN Joined([i \in DOMAIN us |-> TagsOf(o, us[i])])

-----------------------------------------------------------------------------
(* Text *)

Empty_tag == CHOOSE t \in Tag : TagBytes[t] = << >>

str(o) ==
  LET us == UuidsOf(o)
      interval(i) == <<<<":">>, <<"gno", i.lo>>>>
                       \o IF i.hi - 1 = i.lo THEN << >> ELSE <<<<"-">>, <<"gno", i.hi - 1>>>>
      tagged_gnos(x) == LET is == IntervalsOf(o, x)
                        IN  (IF TagBytes[x[2]] = << >> THEN << >>
                             ELSE <<<<":">>, <<"tag", x[2]>>>>)
                              \o Joined([k \in DOMAIN is |-> interval(is[k])])
      uuid_set(u) == LET xs == TagsOf(o, u)
                     IN  <<<<"uuid", u>>>> \o Joined([k \in DOMAIN xs |-> tagged_gnos(xs[k])])
  IN  Joined([k \in DOMAIN us |-> (IF k = 1 THEN << >> ELSE <<<<",">>, <<" ">>>>)
                                    \o uuid_set(us[k])])

\* gtid_set_parser.  at: what the rest of the text is parsed as.
Parser(o) == [at |-> "uuid", uuid |-> {}, tag |-> {}, lower |-> {}, result |-> o]

Sole(s) == CHOOSE v \in s : TRUE

ParseFailed(p) == [p EXCEPT !.at = "failed"]

\* add_interval of the parser's UUID and tag
AddParsed(p, upper) ==
  LET x == <<Sole(p.uuid), Sole(p.tag)>>
      lower == Sole(p.lower)
  IN  IF upper < lower \/ ~validate_components(x, lower) THEN ParseFailed(p)
      ELSE [p EXCEPT !.result = InsertInto(@, x, lower, upper + 1)]

\* Mutant: the tag of the UUID before is kept.
parse_uuid_keeping_tag(p, u) ==
  [p EXCEPT !.uuid = {u}, !.at = "colon", !.tag = IF @ = {} THEN {Empty_tag} ELSE @]

parse_uuid(p, u) == [p EXCEPT !.uuid = {u}, !.tag = {Empty_tag}, !.at = "colon"]

\* What may follow an interval: another one, another UUID, or the end, which
\* anything else is taken for.
parse_separator(p, token) ==
  IF p.at = "failed" THEN p
  ELSE [p EXCEPT !.at = IF token = <<":">> THEN "interval"
                        ELSE IF token = <<",">> THEN "space" ELSE "end"]

parse_token(p, token) ==
  CASE p.at \in {"failed", "end"} -> p
    [] p.at = "uuid" /\ token[1] = "uuid" -> parse_uuid(p, token[2])
    [] p.at = "space" /\ token[1] = " " -> p
    [] p.at = "space" /\ token[1] = "uuid" -> parse_uuid(p, token[2])
    [] p.at = "colon" /\ token[1] = ":" -> [p EXCEPT !.at = "interval"]
    [] p.at = "interval" /\ token[1] = "tag" -> [p EXCEPT !.tag = {token[2]}, !.at = "tag"]
    [] p.at = "tag" /\ token[1] = ":" -> [p EXCEPT !.at = "lower"]
    [] p.at \in {"interval", "lower"} /\ token[1] = "gno" ->
         [p EXCEPT !.lower = {token[2]}, !.at = "bound"]
    [] p.at = "bound" /\ token[1] = "-" -> [p EXCEPT !.at = "upper"]
    [] p.at = "bound" /\ token[1] # "-" -> parse_separator(AddParsed(p, Sole(p.lower)), token)
    [] p.at = "upper" /\ token[1] = "gno" -> [AddParsed(p, token[2]) EXCEPT !.at =
                                                IF @ = "failed" THEN @ ELSE "separator"]
    [] p.at = "separator" -> parse_separator(p, token)
    [] OTHER -> ParseFailed(p)

\* gtid_set(string_view): [ok, v]
FromText(text) ==
  LET p == FoldSteps(parse_token, Parser(Empty), text)
      q == IF p.at = "bound" THEN parse_separator(AddParsed(p, Sole(p.lower)), <<"">>) ELSE p
  IN  [ok |-> text = << >> \/ q.at \in {"separator", "end"}, v |-> q.result]

-----------------------------------------------------------------------------
(* Bytes *)

\* Mutant: only the first entry is looked at.
contains_tags_first(o) == o.tsids # {} /\ TagBytes[Entries(o)[1][2]] # << >>

contains_tags(o) == \E x \in o.tsids : TagBytes[x[2]] # << >>

gtid_set_encoded_size(o) ==
  LET es == Entries(o)
      tag(x) == IF contains_tags(o)
                THEN calculate_varlen_int_size(Nat2Int(Len(TagBytes[x[2]]))) + Len(TagBytes[x[2]])
                ELSE 0
  IN  8 + Total([k \in DOMAIN es |-> 16 + tag(es[k]) + 8 + 16 * Cardinality(o.gnos[es[k]])])

\* The format is in the first and the last byte of the header.
header_encoder(tagged, n) ==
  IF tagged THEN <<1>> \o Low(Nat2Int(n), 6) \o <<1>> ELSE Low(Nat2Int(n), 8)

gtid_set_encode_to(w, o) ==
  LET es == Entries(o)
      tag(x) == IF contains_tags(o)
                THEN varlen_int(Nat2Int(Len(TagBytes[x[2]]))) \o TagBytes[x[2]] ELSE << >>
      interval(i) == Low(Nat2Int(i.lo), 8) \o Low(Nat2Int(i.hi), 8)
      entry(x) == LET is == IntervalsOf(o, x)
                  IN  UuidBytes[x[1]] \o tag(x) \o Low(Nat2Int(Len(is)), 8)
                        \o Joined([k \in DOMAIN is |-> interval(is[k])])
  IN  insert_byte_span_to_byte_span(w, header_encoder(contains_tags(o), Len(es))
                                         \o Joined([k \in DOMAIN es |-> entry(es[k])]))

\* The reader and the object read so far; ok FALSE is the exception.
process_intervals(r, o, x) ==
  LET n == extract_fixed_int_from_byte_span(r, 8)
      entry == [o EXCEPT !.uuids = @ \cup {x[1]}, !.tsids = @ \cup {x}]
      turn_(a, k) ==
        LET lower == extract_fixed_int_from_byte_span(a.r, 8)
            upper == extract_fixed_int_from_byte_span(lower, 8)
        IN  IF ~upper.ok \/ ~LessInt(lower.v, upper.v) THEN [a EXCEPT !.r.ok = FALSE]
            ELSE [r |-> upper, o |-> InsertInto(a.o, x, Int2Nat(lower.v), Int2Nat(upper.v))]
  IN  IF ~n.ok THEN [r |-> n, o |-> o]
      ELSE FoldSteps(turn_, [r |-> n, o |-> entry], [k \in 1 .. Int2Nat(n.v) |-> k])

\* gtid_set(const_byte_span): [ok, v]
FromBytes(b) ==
  LET h == extract_byte_span_from_byte_span(Reader(b), 8)
      tagged == h.v[8] = 1
      count == Int2Nat(Value(IF tagged THEN SubSeq(h.v, 2, 7) ELSE h.v))
      tsid(a, k) ==
        LET u == extract_byte_span_from_byte_span(a.r, 16)
            length == extract_varlen_int_from_byte_span(u, 8)
            name == extract_byte_span_from_byte_span(length, Int2Nat(length.v))
            r == IF tagged THEN name ELSE u
            x == <<CHOOSE v \in Uuid : UuidBytes[v] = u.v,
                   IF tagged THEN CHOOSE t \in Tag : TagBytes[t] = name.v ELSE Empty_tag>>
        IN  IF ~r.ok THEN [a EXCEPT !.r.ok = FALSE] ELSE process_intervals(r, a.o, x)
      end == FoldSteps(tsid, [r |-> h, o |-> Empty], [k \in 1 .. count |-> k])
  IN  IF ~h.ok \/ h.v[8] > 1 THEN [ok |-> FALSE, v |-> Empty]
      ELSE [ok |-> end.r.ok /\ end.r.rest = << >>, v |-> end.o]

-----------------------------------------------------------------------------
(* Properties *)

\* A set that is written as text is read back from it, whatever the order of
\* its tags and UUIDs; and two texts with a comma between them are read as the
\* union of the sets, although their entries are then neither sorted nor apart.
TextIsExact ==
  /\ FromText(str(data)) = [ok |-> TRUE, v |-> data]
  /\ data # Empty /\ values # Empty =>
       LET r == FromText(str(values) \o <<<<",">>>> \o str(data))
       IN  r.ok /\ Canonical(r.v) /\ Members(r.v) = Members(data) \cup Members(values)

\* A set that is encoded takes the bytes that were calculated for it, no more
\* and no fewer, and is decoded from them: the header tells the decoder
\* whether there are tags.
BytesAreExact ==
  LET size == gtid_set_encoded_size(data)
      w == gtid_set_encode_to(Writer(size), data)
  IN  w.ok /\ w.room = 0 /\ FromBytes(w.bytes) = [ok |-> TRUE, v |-> data]

=============================================================================
