--------------------------- MODULE ServerMessages ---------------------------
(* The messages a MySQL server sends and their codecs.  A definition named   *)
(* after a class is the message with default fields, Encode... is its        *)
(* accumulate_fields and Decode... its decode.  caps is the set of shared    *)
(* capabilities.                                                             *)
EXTENDS Wire

-----------------------------------------------------------------------------
(* Positions of capability, status and cursor flags; field types             *)

long_flag == 2
connect_with_schema == 3
protocol_41 == 9
ssl == 11
transactions == 13
secure_connection == 15
plugin_auth == 19
connect_attributes == 20
client_auth_method_data_varint == 21
session_track == 23
text_result_with_session_tracking == 24
optional_resultset_metadata == 25
query_attributes == 27

session_state_changed == 14

param_count_available == 3

\* Field types: a value with a length, a value with a one byte length, values
\* of 8, 4, 2 and 1 bytes.  Json has a length in client::Query only.
Json == 245
LengthEncodedType == {0, 15, 16} \cup 246 .. 255
TimeType == {7, 10, 11, 12}
FixedSizeType == [t \in {1, 2, 3, 4, 5, 8, 9, 13} |->
                    CASE t \in {5, 8} -> 8 [] t \in {3, 4, 9} -> 4
                      [] t \in {2, 13} -> 2 [] t = 1 -> 1]

\* The size in front of a value of type t, none for a type of fixed size.
EncodeFieldSize(t, n) ==
  IF t \in LengthEncodedType THEN VarInt(Nat2Int(n))
  ELSE If(t \in TimeType, Int1(n))

\* The wire type that follows a size of its own, or none.
DecodeField(b, t) ==
  IF t \in LengthEncodedType THEN DecodeVarString(b)
  ELSE IF t \in TimeType THEN DecodeSizedString(b, 1)
  ELSE IF t \in DOMAIN FixedSizeType THEN DecodeString(b, FixedSizeType[t])
  ELSE DecodeError

\* The null bits of a sequence of optional values, from bit offset on.
NullBitmap(values, offset) ==
  BitBytes({offset + i - 1 : i \in {j \in DOMAIN values : values[j] = {}}},
           bytes_per_bits(Len(values) + offset))

\* The value of an optional that has one.
TheValue(o) == CHOOSE x \in o : TRUE

-----------------------------------------------------------------------------
(* server::Greeting *)

server_Greeting ==
  [type |-> "server_Greeting", protocol_version |-> << >>, version |-> << >>,
   connection_id |-> << >>, auth_method_data |-> << >>, capabilities |-> {},
   collation |-> << >>, status_flags |-> {}, auth_method_name |-> << >>]

EncodeServerGreeting(m) ==
  LET data == m.auth_method_data
      has(c) == c \in m.capabilities
      start == accumulate(<<FixedInt(1, m.protocol_version), NulTermString(m.version),
                            FixedInt(4, m.connection_id),
                            NulTermString(SubSeq(data, 1, Min({8, Len(data)})))>>)
      more == \/ \E c \in m.capabilities : c >= 16
              \/ m.status_flags # {} \/ m.collation # << >>
  IN  IF m.protocol_version = <<9>> THEN start
      ELSE accumulate(<<
             start, Flags(2, m.capabilities),
             If(more, accumulate(<<
               FixedInt(1, m.collation), Flags(2, m.status_flags),
               Flags(2, {c - 16 : c \in {d \in m.capabilities : d >= 16}}),
               Int1(IF has(plugin_auth) THEN Len(data) ELSE 0), Void(10),
               If(has(secure_connection),
                  String(SubSeq(data, 9, Len(data)))
                    \o If(has(plugin_auth), NulTermString(m.auth_method_name)))>>))>>)

\* The second part of the auth method data, n bytes with the first, and the
\* method's name.
DecodeSecondData(a) ==
  LET has(c) == c \in a.v.capabilities
      n == IF has(plugin_auth) THEN Int2Nat(a.v.n) - 8 ELSE 13
  IN  StepsIf(StepsIf(a, has(secure_connection), << <<"data", str(n)>> >>),
              has(secure_connection) /\ has(plugin_auth), << <<"auth_method_name", nulstr>> >>)

\* a has the two upper bytes of the capabilities in hi.
DecodeData(a) ==
  LET capable == [a EXCEPT !.v.capabilities = @ \cup {c + 16 : c \in a.v.hi}]
      size == IF plugin_auth \in capable.v.capabilities THEN <<"n", int(1)>> ELSE <<"", str(1)>>
  IN  DecodeSecondData(Step(
        RequireThat(Step(capable, size[1], size[2]),
                    LAMBDA x : size[1] = "n" => ~LessInt(x.v.n, <<8>>)), "", str(10)))

\* Behind the lower bytes of the capabilities; 3.21 sends no more.
DecodeUpper(a) ==
  IF a.ok /\ a.rest = << >> THEN a
  ELSE DecodeData(Steps(a, << <<"collation", int(1)>>, <<"status_flags", flags(2)>>,
                              <<"hi", flags(2)>> >>))

DecodeCapabilities(a) ==
  IF a.v.protocol_version = <<9>> THEN a ELSE DecodeUpper(Step(a, "capabilities", flags(2)))

BothData(a) == [a EXCEPT !.v.auth_method_data = @ \o a.v.data]

DecodeServerGreeting(b) ==
  LET start == Start(b, server_Greeting @@ [hi |-> {}, n |-> << >>, data |-> << >>])
      version == RequireThat(Step(start, "protocol_version", int(1)),
                             LAMBDA x : x.v.protocol_version \in {<<9>>, <<10>>})
  IN  WithFieldsOf(BothData(DecodeCapabilities(
        Steps(version, << <<"version", nulstr>>, <<"connection_id", int(4)>>,
                          <<"auth_method_data", nulstr>> >>))), server_Greeting)

-----------------------------------------------------------------------------
(* server::AuthMethodSwitch, AuthMethodData *)

server_AuthMethodSwitch ==
  [type |-> "server_AuthMethodSwitch", auth_method |-> << >>, auth_method_data |-> << >>]

EncodeAuthMethodSwitch(m, caps) ==
  Int1(254) \o If(plugin_auth \in caps,
                  NulTermString(m.auth_method) \o String(m.auth_method_data))

DecodeAuthMethodSwitch(b, caps) ==
  LET cmd == Command(b, 254, server_AuthMethodSwitch)
  IN  StepsIf(cmd, plugin_auth \in caps,
              << <<"auth_method", nulstr>>, <<"auth_method_data", rest>> >>)

server_AuthMethodData == [type |-> "server_AuthMethodData", auth_method_data |-> << >>]

EncodeServerAuthMethodData(m) == Int1(1) \o String(m.auth_method_data)

DecodeServerAuthMethodData(b) ==
  Steps(Command(b, 1, server_AuthMethodData), << <<"auth_method_data", rest>> >>)

-----------------------------------------------------------------------------
(* server::Ok, Eof, Error *)

server_Ok ==
  [type |-> "server_Ok", affected_rows |-> << >>, last_insert_id |-> << >>,
   status_flags |-> {}, warning_count |-> << >>, message |-> << >>,
   session_changes |-> << >>]

\* Rows, insert id, status and warnings as Ok and the Eof of a text resultset
\* with session tracking have them.
EncodeStatus(m, caps) ==
  accumulate(<<VarInt(m.affected_rows), VarInt(m.last_insert_id),
               If({protocol_41, transactions} \cap caps # {}, Flags(2, m.status_flags)),
               If(protocol_41 \in caps, FixedInt(2, m.warning_count))>>)

DecodeStatus(a, caps) ==
  LET rows == Steps(a, << <<"affected_rows", varint>>, <<"last_insert_id", varint>> >>)
      status == StepsIf(rows, {protocol_41, transactions} \cap caps # {},
                        << <<"status_flags", flags(2)>> >>)
  IN  StepsIf(status, protocol_41 \in caps, << <<"warning_count", int(2)>> >>)

EncodeOk(m, caps) ==
  LET tracked == session_track \in caps
  IN  accumulate(<<Int1(0), EncodeStatus(m, caps),
                   If(m.message # << >> \/ tracked, VarString(m.message)),
                   If(tracked /\ session_state_changed \in m.status_flags,
                      VarString(m.session_changes))>>)

\* The session changes, when the status says that there are any.
DecodeChanges(a) ==
  StepsIf(a, session_state_changed \in a.v.status_flags, << <<"session_changes", varstr>> >>)

DecodeOk(b, caps) ==
  TryStepThen(DecodeStatus(Command(b, 0, server_Ok), caps), "message", varstr,
              LAMBDA m : IF session_track \in caps THEN DecodeChanges(m) ELSE m)

server_Eof == [server_Ok EXCEPT !.type = "server_Eof"]

EncodeEof(m, caps) ==
  LET changed == session_state_changed \in m.status_flags
      tracked == session_track \in caps
      text == EncodeStatus(m, caps)
                \o IF ~tracked THEN String(m.message)
                   ELSE If(m.message # << >> \/ changed, VarString(m.message))
                          \o If(changed, VarString(m.session_changes))
  IN  Int1(254) \o IF text_result_with_session_tracking \in caps THEN text
                   ELSE If(protocol_41 \in caps, FixedInt(2, m.warning_count)
                                                   \o Flags(2, m.status_flags))

DecodeEofMessage(a, caps) ==
  IF session_track \in caps THEN DecodeChanges(TryStep(a, "message", varstr))
  ELSE Step(a, "message", rest)

DecodeEof(b, caps) ==
  LET cmd == Command(b, 254, server_Eof)
  IN  IF text_result_with_session_tracking \notin caps
      THEN StepsIf(cmd, protocol_41 \in caps,
                   << <<"warning_count", int(2)>>, <<"status_flags", flags(2)>> >>)
      ELSE DecodeEofMessage(DecodeStatus(cmd, caps), caps)

server_Error ==
  [type |-> "server_Error", error_code |-> << >>, message |-> << >>, sql_state |-> << >>]

EncodeError(m, caps) ==
  accumulate(<<Int1(255), FixedInt(2, m.error_code),
               If(protocol_41 \in caps, Int1(35) \o String(m.sql_state)),
               String(m.message)>>)

DecodeErrorMessage(b, caps) ==
  LET code == Step(Command(b, 255, server_Error), "error_code", int(2))
      state == StepsIf(code, protocol_41 \in caps,
                       << <<"", int(1)>>, <<"sql_state", str(5)>> >>)
  IN  Step(state, "message", rest)

-----------------------------------------------------------------------------
(* The messages of a resultset: server::ColumnCount, ColumnMeta, Row *)

server_ColumnCount == [type |-> "server_ColumnCount", count |-> << >>]

EncodeColumnCount(m) == VarInt(m.count)

DecodeColumnCount(b) == Step(Start(b, server_ColumnCount), "count", varint)

server_ColumnMeta ==
  [type |-> "server_ColumnMeta", catalog |-> << >>, schema |-> << >>, table |-> << >>,
   orig_table |-> << >>, name |-> << >>, orig_name |-> << >>, collation |-> << >>,
   column_length |-> << >>, field_type |-> << >>, flags |-> {}, decimals |-> << >>]

EncodeColumnMeta(m, caps) ==
  LET n == IF long_flag \in caps THEN 2 ELSE 1
  IN  IF protocol_41 \in caps
      THEN accumulate(<<
             VarString(m.catalog), VarString(m.schema), VarString(m.table),
             VarString(m.orig_table), VarString(m.name), VarString(m.orig_name),
             VarInt(<<12>>), FixedInt(2, m.collation), FixedInt(4, m.column_length),
             FixedInt(1, m.field_type), Flags(2, m.flags), FixedInt(1, m.decimals),
             FixedInt(2, << >>)>>)
      ELSE accumulate(<<
             VarString(m.table), VarString(m.name), VarInt(<<3>>),
             FixedInt(3, m.column_length), VarInt(<<1>>), FixedInt(1, m.field_type),
             VarInt(<<n + 1>>), Flags(n, m.flags), FixedInt(1, m.decimals)>>)

\* A size that has to be n, and what it is the size of.
StepsOfSize(a, n, fields) ==
  Steps(RequireThat(Step(a, "n", varint), LAMBDA x : x.v.n = <<n>>), fields)

DecodeColumnMeta320(a, n) ==
  StepsOfSize(
    StepsOfSize(
      StepsOfSize(Steps(a, << <<"table", varstr>>, <<"name", varstr>> >>),
                  3, << <<"column_length", int(3)>> >>),
      1, << <<"field_type", int(1)>> >>),
    n + 1, << <<"flags", flags(n)>>, <<"decimals", int(1)>> >>)

DecodeColumnMeta41(a) ==
  StepsOfSize(
    Steps(a, << <<"catalog", varstr>>, <<"schema", varstr>>, <<"table", varstr>>,
                <<"orig_table", varstr>>, <<"name", varstr>>, <<"orig_name", varstr>> >>),
    12, << <<"collation", int(2)>>, <<"column_length", int(4)>>, <<"field_type", int(1)>>,
           <<"flags", flags(2)>>, <<"decimals", int(1)>>, <<"", str(2)>> >>)

DecodeColumnMeta(b, caps) ==
  LET start == Start(b, server_ColumnMeta @@ [n |-> << >>])
  IN  WithFieldsOf(IF protocol_41 \in caps THEN DecodeColumnMeta41(start)
                   ELSE DecodeColumnMeta320(start, IF long_flag \in caps THEN 2 ELSE 1),
                   server_ColumnMeta)

server_Row == [type |-> "server_Row", fields |-> << >>]

EncodeRow(m) ==
  accumulate([i \in DOMAIN m.fields |->
                IF m.fields[i] = {} THEN Null ELSE VarString(TheValue(m.fields[i]))])

\* o: an optional value
AppendField(a, o, b) == [ok |-> TRUE, rest |-> b, v |-> [a.v EXCEPT !.fields = Append(@, o)]]

\* r: what has been decoded for the next field
AppendDecoded(a, r) ==
  IF r.ok THEN AppendField(a, {r.v}, r.rest) ELSE [a EXCEPT !.ok = FALSE]

\* The loop takes fields off the input until nothing is left of it.
RECURSIVE DecodeFields(_)
DecodeFields(a) ==
  IF ~a.ok \/ a.rest = << >> THEN a
  ELSE IF DecodeNull(a.rest).ok THEN DecodeFields(AppendField(a, {}, Tail(a.rest)))
  ELSE DecodeFields(AppendDecoded(a, DecodeVarString(a.rest)))

DecodeRow(b) == DecodeFields(Start(b, server_Row))

-----------------------------------------------------------------------------
(* server::SendFileRequest, StmtPrepareOk, StmtRow, Statistics *)

server_SendFileRequest == [type |-> "server_SendFileRequest", filename |-> << >>]

EncodeSendFileRequest(m) == Int1(251) \o String(m.filename)

DecodeSendFileRequest(b) ==
  Step(Command(b, 251, server_SendFileRequest), "filename", rest)

server_StmtPrepareOk ==
  [type |-> "server_StmtPrepareOk", statement_id |-> << >>, column_count |-> << >>,
   param_count |-> << >>, warning_count |-> << >>, with_metadata |-> <<1>>]

EncodeStmtPrepareOk(m, caps) ==
  accumulate(<<Int1(0), FixedInt(4, m.statement_id), FixedInt(2, m.column_count),
               FixedInt(2, m.param_count), Int1(0), FixedInt(2, m.warning_count),
               If(optional_resultset_metadata \in caps, FixedInt(1, m.with_metadata))>>)

\* The first byte is not compared.
DecodeStmtPrepareOk(b, caps) ==
  StepsIf(Steps(Start(b, server_StmtPrepareOk),
                << <<"", int(1)>>, <<"statement_id", int(4)>>, <<"column_count", int(2)>>,
                   <<"param_count", int(2)>>, <<"", int(1)>>, <<"warning_count", int(2)>> >>),
          optional_resultset_metadata \in caps, << <<"with_metadata", int(1)>> >>)

server_StmtRow == [type |-> "server_StmtRow", types |-> << >>, fields |-> << >>]

EncodeStmtRow(m) ==
  LET value(i) == TheValue(m.fields[i])
  IN  accumulate(<<Int1(0), NullBitmap(m.fields, 2)>>
                   \o [i \in DOMAIN m.fields |->
                         IF m.fields[i] = {} THEN << >>
                         ELSE EncodeFieldSize(m.types[i], Len(value(i))) \o String(value(i))])

\* A null bit past the bytes taken for the bitmap is read from the byte that
\* follows them in the buffer.
DecodeStmtRow(b, types) ==
  LET cmd == Command(b, 0, [server_StmtRow EXCEPT !.types = types])
      bitmap == Step(cmd, "", str(bytes_per_bits(Len(types))))
      nulls == BitsOf(cmd.rest)
      turn(a, i) == IF ~a.ok THEN a
                    ELSE IF i + 1 \in nulls THEN AppendField(a, {}, a.rest)
                    ELSE AppendDecoded(a, DecodeField(a.rest, types[i]))
  IN  FoldLeft(turn, bitmap, [i \in DOMAIN types |-> i])

server_Statistics == [type |-> "server_Statistics", stats |-> << >>]

EncodeStatistics(m) == String(m.stats)

DecodeStatistics(b) == Step(Start(b, server_Statistics), "stats", rest)

-----------------------------------------------------------------------------
(* Codec<T>: the codec a message's type selects; the types of a StmtRow are  *)
(* an argument of its decoder.                                               *)

EncodeServer(m, caps) ==
  CASE m.type = "server_Greeting" -> EncodeServerGreeting(m)
    [] m.type = "server_AuthMethodSwitch" -> EncodeAuthMethodSwitch(m, caps)
    [] m.type = "server_AuthMethodData" -> EncodeServerAuthMethodData(m)
    [] m.type = "server_Ok" -> EncodeOk(m, caps)
    [] m.type = "server_Eof" -> EncodeEof(m, caps)
    [] m.type = "server_Error" -> EncodeError(m, caps)
    [] m.type = "server_ColumnCount" -> EncodeColumnCount(m)
    [] m.type = "server_ColumnMeta" -> EncodeColumnMeta(m, caps)
    [] m.type = "server_Row" -> EncodeRow(m)
    [] m.type = "server_SendFileRequest" -> EncodeSendFileRequest(m)
    [] m.type = "server_StmtPrepareOk" -> EncodeStmtPrepareOk(m, caps)
    [] m.type = "server_StmtRow" -> EncodeStmtRow(m)
    [] m.type = "server_Statistics" -> EncodeStatistics(m)

DecodeServer(type, b, caps, types) ==
  CASE type = "server_Greeting" -> DecodeServerGreeting(b)
    [] type = "server_AuthMethodSwitch" -> DecodeAuthMethodSwitch(b, caps)
    [] type = "server_AuthMethodData" -> DecodeServerAuthMethodData(b)
    [] type = "server_Ok" -> DecodeOk(b, caps)
    [] type = "server_Eof" -> DecodeEof(b, caps)
    [] type = "server_Error" -> DecodeErrorMessage(b, caps)
    [] type = "server_ColumnCount" -> DecodeColumnCount(b)
    [] type = "server_ColumnMeta" -> DecodeColumnMeta(b, caps)
    [] type = "server_Row" -> DecodeRow(b)
    [] type = "server_SendFileRequest" -> DecodeSendFileRequest(b)
    [] type = "server_StmtPrepareOk" -> DecodeStmtPrepareOk(b, caps)
    [] type = "server_StmtRow" -> DecodeStmtRow(b, types)
    [] type = "server_Statistics" -> DecodeStatistics(b)

=============================================================================
