------------------------------ MODULE MiniMysql ------------------------------
(* The mini MySQL server: a listener and one session coroutine per           *)
(* connection on a single-threaded executor, so a session runs from one      *)
(* suspended read or write to the next.  The frames are the bytes of module  *)
(* Wire.  Names, statements and event bodies are short byte strings.         *)
EXTENDS ClientMessages

CONSTANTS
  Connection,    \* the connections clients may open
  Greetings,     \* Greetings[c]: <<sequence number, client greeting>> pairs
  Requests,      \* Requests[c]: <<sequence number, command payload>> pairs
  MaxRequests    \* bound on the commands of a connection

VARIABLES
  listening,            \* the listener coroutine runs
  next_connection_id,
  session,              \* session[c]: the coroutine and its connection_context
  peer                  \* peer[c]: the client and the socket between

miniVars == <<listening, next_connection_id, session, peer>>

-----------------------------------------------------------------------------
(* Authentication *)

server_username == <<114, 112, 108>>
server_password == <<112>>
default_server_auth_method == <<99, 115>>
server_auth_method_data == [i \in 1 .. 20 |-> 48 + ((i - 1) % 10)]

\* SHA256, a one byte stand-in
calculate_digest(data) == <<FoldSteps(LAMBDA h, b : (31 * h + b + 7) % 251, 5, data)>>

Xor(a, b) == LET x == BitsOf(a) y == BitsOf(b) IN BitBytes((x \cup y) \ (x \cap y), Len(a))

scramble(password, salt) ==
  LET hashed == calculate_digest(password)
  IN  Xor(hashed, calculate_digest(calculate_digest(hashed) \o salt))

-----------------------------------------------------------------------------
(* connection_context *)

get_default_server_capabilities ==
  {0, 1, long_flag, connect_with_schema, 4, 6, 7, protocol_41, transactions,
   secure_connection, 17, 18, plugin_auth, connect_attributes, client_auth_method_data_varint}

\* pc: "none", or where the coroutine is suspended ("write", "header",
\* "payload"), or "ended"; phase: "auth" or "command"; data: the frame that is
\* read; out: the frames that are to be written; after: what follows the last
\* of them; refused: an exception that the client's bytes caused.
NoSession ==
  [pc |-> "none", phase |-> "auth", data |-> << >>, out |-> << >>, after |-> "read",
   refused |-> FALSE, connection_id |-> 0, sequence_number |-> 0, server_capabilities |-> {},
   client |-> client_Greeting]

get_shared_capabilities(s) == s.client.capabilities \cap s.server_capabilities

Ended(s) == [s EXCEPT !.pc = "ended", !.data = << >>, !.out = << >>]

Refused(s) == [Ended(s) EXCEPT !.refused = TRUE]

\* An exception ends the session.
validate_and_update_sequence_number(s, seq_id) ==
  IF seq_id # Nat2Int(s.sequence_number) THEN Refused(s)
  ELSE [s EXCEPT !.sequence_number = (@ + 1) % 256]

\* Frames with the next sequence numbers.
GeneratedAll(s, payloads) ==
  [s EXCEPT !.out = @ \o [i \in DOMAIN payloads |->
                            EncodeFrame(Nat2Int((s.sequence_number + i - 1) % 256), payloads[i])],
            !.sequence_number = (@ + Len(payloads)) % 256]

Generated(s, payload) == GeneratedAll(s, <<payload>>)

Messages(s, ms) ==
  GeneratedAll(s, [i \in DOMAIN ms |-> EncodeServer(ms[i], get_shared_capabilities(s))])

Message(s, m) == Messages(s, <<m>>)

generate_encoded_server_greeting(s) ==
  LET t == [s EXCEPT !.server_capabilities = get_default_server_capabilities]
  IN  Generated(t, EncodeServerGreeting(
        [server_Greeting EXCEPT !.protocol_version = <<10>>, !.version = <<57>>,
           !.connection_id = Nat2Int(s.connection_id),
           !.auth_method_data = server_auth_method_data \o <<0>>,
           !.capabilities = t.server_capabilities,
           !.auth_method_name = default_server_auth_method]))

generate_encoded_fast_auth(s) ==
  Message(s, [server_AuthMethodData EXCEPT !.auth_method_data = <<3>>])

generate_encoded_ok(s) == Message(s, server_Ok)

generate_encoded_eof(s) == Message(s, server_Eof)

generate_encoded_error(s, error_code, sql_state) ==
  Message(s, [server_Error EXCEPT !.error_code = Nat2Int(error_code), !.message = <<69>>,
                                  !.sql_state = sql_state])

generate_encoded_access_denied(s) == generate_encoded_error(s, 1045, <<50, 56, 48, 48, 48>>)
generate_encoded_unknown_command(s) == generate_encoded_error(s, 1047, <<72, 89, 48, 48, 48>>)
generate_encoded_syntax_error(s) == generate_encoded_error(s, 1064, <<52, 50, 48, 48, 48>>)

generate_encoded_binlog_events(s, events) ==
  GeneratedAll(s, [i \in DOMAIN events |-> <<0>> \o events[i]])

check_shared_plugin_auth_supported(s) == plugin_auth \in get_shared_capabilities(s)

\* Mutant: whoever knows the password is the user.
check_client_authentication_any_user(s) ==
  s.client.auth_method_data = scramble(server_password, server_auth_method_data)

check_client_authentication(s) ==
  /\ s.client.username = server_username
  /\ s.client.auth_method_data = scramble(server_password, server_auth_method_data)

\* t: the session with the number of the greeting's frame
WithGreeting(s, greeting, t) ==
  IF ~greeting.ok THEN Refused(s)
  ELSE IF t.refused THEN t
  ELSE [t EXCEPT !.client = greeting.v]

ParseGreeting(s, frame) ==
  WithGreeting(s, DecodeClientGreeting(frame.v.payload, s.server_capabilities),
               validate_and_update_sequence_number(s, frame.v.seq_id))

parse_client_greeting(s) == ParseGreeting(s, DecodeFrame(s.data))

\* Mutant: the numbering goes on from the command before.
enter_command_loop_iteration_numbered(s) == s

\* What it forgets of the last command is assigned again before it is read.
enter_command_loop_iteration(s) == [s EXCEPT !.sequence_number = 0]

\* The command type a payload's first byte selects.
CommandOf(byte) ==
  CASE byte = 1 -> "client_Quit"
    [] byte = 3 -> "client_Query"
    [] byte = 14 -> "client_Ping"
    [] byte = 17 -> "client_ChangeUser"
    [] byte = 18 -> "client_BinlogDump"
    [] byte = 30 -> "client_BinlogDumpGtid"
    [] byte = 31 -> "client_ResetConnection"
    [] OTHER -> "unknown"

Parsed(s, command, statement) == [session |-> s, command |-> command, statement |-> statement]

\* m: the command, decoded
ParsedCommand(s, seq_id, command, m) ==
  IF ~m.ok THEN Parsed(Refused(s), command, << >>)
  ELSE Parsed(validate_and_update_sequence_number(s, seq_id), command,
              IF command = "client_Query" THEN m.v.statement ELSE << >>)

ParseCommand(s, frame, command) ==
  IF command = "unknown" THEN Parsed(s, command, << >>)
  ELSE ParsedCommand(s, frame.v.seq_id, command,
                     DecodeClient(command, frame.v.payload, get_shared_capabilities(s), {}))

parse_client_command(s) ==
  IF Len(s.data) <= 4 THEN Parsed(Refused(s), "unknown", << >>)
  ELSE ParseCommand(s, DecodeFrame(s.data), CommandOf(s.data[5]))

-----------------------------------------------------------------------------
(* Result sets *)

\* Column types: what the column holds, and whether it is a std::optional.
Column(base, optional, name, orig_name) ==
  [base |-> base, optional |-> optional, name |-> name, orig_name |-> orig_name]

numeric_flag == 14
unsigned_flag == 5
not_null_flag == 0

standard_type_translator(c) ==
  LET integral == c.base = "uint64"
  IN  [collation |-> IF integral THEN <<63>> ELSE <<8>>,
       column_length |-> IF integral THEN <<20>> ELSE <<255>>,
       field_type |-> IF integral THEN <<8>> ELSE <<253>>,
       flags |-> (IF integral THEN {numeric_flag, unsigned_flag} ELSE {})
                   \cup (IF c.optional THEN {} ELSE {not_null_flag}),
       decimals |-> IF integral THEN << >> ELSE <<31>>]

column_definition(c) ==
  LET p == standard_type_translator(c)
  IN  [server_ColumnMeta EXCEPT !.catalog = <<100>>, !.schema = <<100, 98>>, !.table = <<116>>,
         !.orig_table = <<116>>, !.name = c.name, !.orig_name = c.orig_name,
         !.collation = p.collation, !.column_length = p.column_length,
         !.field_type = p.field_type, !.flags = p.flags, !.decimals = p.decimals]

\* std::to_string
to_string[n \in Nat] ==
  IF n < 10 THEN <<48 + n>> ELSE Append(to_string[n \div 10], 48 + (n % 10))

\* A value is {} for an empty std::optional.
textualize_value(c, v) ==
  IF v = {} \/ c.base # "uint64" THEN v ELSE {to_string[TheValue(v)]}

encode_resultset_number_of_columns(columns) ==
  [server_ColumnCount EXCEPT !.count = Nat2Int(Len(columns))]

encode_resultset_intermediate_eof(s) ==
  IF text_result_with_session_tracking \in get_shared_capabilities(s) THEN << >>
  ELSE <<server_Eof>>

encode_resultset_row(columns, row) ==
  [server_Row EXCEPT !.fields = [k \in DOMAIN columns |-> textualize_value(columns[k], row[k])]]

encode_resultset_eof == [server_Eof EXCEPT !.status_flags = {1}]


encode_resultset(s, columns, rows) ==
  Messages(s,
    <<encode_resultset_number_of_columns(columns)>>
      \o [i \in DOMAIN columns |-> column_definition(columns[i])]
      \o encode_resultset_intermediate_eof(s)
      \o [i \in DOMAIN rows |-> encode_resultset_row(columns, rows[i])]
      \o <<encode_resultset_eof>>)

-----------------------------------------------------------------------------
(* The session coroutine *)

select_from_tbl == <<116>>
select_version_comment == <<99>>
select_version == <<118>>
set_checksum == <<115>>

known_queries == {select_from_tbl, select_version_comment, select_version, set_checksum}

query_handler(s, statement) ==
  CASE statement = select_from_tbl ->
         encode_resultset(s,
           <<Column("uint64", FALSE, <<105>>, <<105>>), Column("uint64", TRUE, <<111>>, <<111>>),
             Column("string", FALSE, <<110>>, <<110>>), Column("string", TRUE, <<109>>, <<109>>)>>,
           << <<{1}, {100}, {<<65>>}, {<<67>>}>>, <<{2}, {}, {<<66>>}, {}>> >>)
    [] statement \in {select_version_comment, select_version} ->
         encode_resultset(s, <<Column("string", FALSE, statement, << >>)>>, << <<{<<57>>}>> >>)
    [] statement = set_checksum -> generate_encoded_ok(s)

\* The ten sample events.
sample_event_collection == [i \in 1 .. 10 |-> <<i>>]

\* The loop's next iteration.
CommandLoop(s) ==
  [enter_command_loop_iteration(s) EXCEPT !.pc = "header", !.phase = "command", !.data = << >>]

\* co_await async_write_mysql_frame of what has been generated.
Writing(s, after) == [s EXCEPT !.pc = "write", !.after = after, !.data = << >>]

\* The session runs to the write of its server greeting.
SessionStarts(s, connection_id) ==
  Writing(generate_encoded_server_greeting([s EXCEPT !.connection_id = connection_id]), "read")

\* What the session does with a client greeting it has parsed.
Greeted(s) ==
  IF s.refused THEN s
  ELSE IF ~check_shared_plugin_auth_supported(s)
    THEN Writing(generate_encoded_access_denied(s), "end")
  ELSE IF s.client.auth_method_name # default_server_auth_method THEN Ended(s)
  ELSE IF ~check_client_authentication(s)
    THEN Writing(generate_encoded_access_denied(s), "end")
  ELSE Writing(generate_encoded_ok(generate_encoded_fast_auth(s)), "command")

Authenticate(s) == Greeted(parse_client_greeting(s))

\* What it does with a command it has parsed.
Dispatch(p) ==
  LET t == p.session
  IN  IF t.refused THEN t
      ELSE CASE p.command = "client_Query" ->
                  Writing(IF p.statement \in known_queries THEN query_handler(t, p.statement)
                          ELSE generate_encoded_syntax_error(t), "command")
             [] p.command = "client_Ping" -> Writing(generate_encoded_ok(t), "command")
             [] p.command = "client_BinlogDump" ->
                  Writing(generate_encoded_eof(
                            generate_encoded_binlog_events(t, sample_event_collection)), "end")
             [] p.command = "client_Quit" -> Ended(t)
             [] OTHER -> Writing(generate_encoded_unknown_command(t), "command")

Execute(s) == Dispatch(parse_client_command(s))

\* The peer before it connects.  request: the last <<sequence number, payload>>
\* it has sent, << >> before the first; replies: the frames it has got since.
NoPeer == [sending |-> << >>, inbound |-> << >>, closed |-> FALSE, greeting |-> client_Greeting,
           request |-> << >>, replies |-> << >>, left |-> MaxRequests]

MiniInit ==
  /\ listening = TRUE
  /\ next_connection_id = 0
  /\ session = [c \in Connection |-> NoSession]
  /\ peer = [c \in Connection |-> NoPeer]

-----------------------------------------------------------------------------

\* The listener accepts a connection and spawns its session.
Accept(c) ==
  /\ listening /\ session[c].pc = "none"
  /\ next_connection_id' = next_connection_id + 1
  /\ session' = [session EXCEPT ![c] = SessionStarts(@, next_connection_id)]
  /\ UNCHANGED <<listening, peer>>

\* async_accept fails: the listener returns, the sessions go on.
AcceptFails ==
  /\ listening
  /\ listening' = FALSE
  /\ UNCHANGED <<next_connection_id, session, peer>>

\* SIGINT or SIGTERM: ctx.stop(), no coroutine runs any more.
StopContext ==
  /\ listening \/ \E c \in Connection : session[c].pc \notin {"none", "ended"}
  /\ listening' = FALSE
  /\ session' = [c \in Connection |->
                    IF session[c].pc = "none" THEN session[c] ELSE Ended(session[c])]
  /\ UNCHANGED <<next_connection_id, peer>>

max_payload_size == 16 * 1024 * 1024

\* async_write_mysql_frame of the next frame.
WriteFrame(c) ==
  LET s == session[c]
      t == [s EXCEPT !.out = Tail(@)]
      fits == Len(Head(s.out)) < max_payload_size
  IN  /\ s.pc = "write"
      /\ session' = [session EXCEPT ![c] =
           IF ~fits THEN Ended(s)
           ELSE IF t.out # << >> THEN t
           ELSE CASE t.after = "read" -> [t EXCEPT !.pc = "header"]
                  [] t.after = "command" -> CommandLoop(t)
                  [] t.after = "end" -> Ended(t)]
      /\ peer' = [peer EXCEPT ![c].replies = IF fits THEN Append(@, Head(s.out)) ELSE @]
      /\ UNCHANGED <<listening, next_connection_id>>

\* async_read_mysql_frame: the four bytes of the header.
ReadHeader(c) ==
  LET b == peer[c].inbound
      oversized == Int2Nat(DecodeHeader(SubSeq(b, 1, 4)).v.payload_size) >= max_payload_size
  IN  /\ session[c].pc = "header" /\ Len(b) >= 4
      /\ session' = [session EXCEPT ![c] =
           IF oversized THEN Ended(@) ELSE [@ EXCEPT !.pc = "payload", !.data = SubSeq(b, 1, 4)]]
      /\ peer' = [peer EXCEPT ![c].inbound = SubSeq(@, 5, Len(@))]
      /\ UNCHANGED <<listening, next_connection_id>>

\* The payload, and what the session does until it is suspended again.
ReadPayload(c) ==
  /\ session[c].pc = "payload"
  /\ \E n \in {Int2Nat(DecodeHeader(session[c].data).v.payload_size)} :
       LET s == [session[c] EXCEPT !.data = @ \o SubSeq(peer[c].inbound, 1, n)]
       IN  /\ Len(peer[c].inbound) >= n
           /\ session' = [session EXCEPT ![c] =
                IF s.phase = "auth" THEN Authenticate(s) ELSE Execute(s)]
           /\ peer' = [peer EXCEPT ![c].inbound = SubSeq(@, n + 1, Len(@))]
  /\ UNCHANGED <<listening, next_connection_id>>

\* Mutant: the timer is not set again for the payload.
TimeoutOnce(c) ==
  /\ session[c].pc \in {"write", "header"}
  /\ session' = [session EXCEPT ![c] = Ended(@)]
  /\ UNCHANGED <<listening, next_connection_id, peer>>

\* The timer of a read or a write runs out first.
Timeout(c) ==
  /\ session[c].pc \in {"write", "header", "payload"}
  /\ session' = [session EXCEPT ![c] = Ended(@)]
  /\ UNCHANGED <<listening, next_connection_id, peer>>

\* A read or a write fails because the client is gone.
PeerGone(c) ==
  /\ peer[c].closed /\ session[c].pc \in {"write", "header", "payload"}
  /\ session' = [session EXCEPT ![c] = Ended(@)]
  /\ UNCHANGED <<listening, next_connection_id, peer>>

-----------------------------------------------------------------------------
(* The client *)

\* It answers the server greeting, and then sends commands, each one when the
\* answer to the last one is there.
Greet(c) ==
  /\ session[c].phase = "auth" /\ peer[c].request = << >> /\ peer[c].replies # << >>
  /\ ~peer[c].closed
  /\ \E g \in Greetings[c] :
       LET payload == EncodeClientGreeting(g[2], get_default_server_capabilities)
       IN  peer' = [peer EXCEPT ![c].sending = EncodeFrame(Nat2Int(g[1]), payload),
                                ![c].greeting = g[2], ![c].request = <<g[1], payload>>,
                                ![c].replies = << >>]
  /\ UNCHANGED <<listening, next_connection_id, session>>

Request(c) ==
  /\ session[c].phase = "command" /\ session[c].pc = "header"
  /\ ~peer[c].closed /\ peer[c].sending = << >> /\ peer[c].inbound = << >> /\ peer[c].left > 0
  /\ \E r \in Requests[c] :
       peer' = [peer EXCEPT ![c].sending = EncodeFrame(Nat2Int(r[1]), r[2]),
                            ![c].request = r, ![c].replies = << >>, ![c].left = @ - 1]
  /\ UNCHANGED <<listening, next_connection_id, session>>

\* Bytes arrive: the header of a frame, or what is left of it.
Deliver(c) ==
  LET size == Len(peer[c].sending)
      n == IF peer[c].inbound = << >> /\ session[c].pc # "payload" THEN Min({4, size}) ELSE size
  IN  /\ peer[c].sending # << >>
      /\ peer' = [peer EXCEPT ![c].inbound = @ \o SubSeq(peer[c].sending, 1, n),
                              ![c].sending = SubSeq(@, n + 1, Len(@))]
      /\ UNCHANGED <<listening, next_connection_id, session>>

Close(c) ==
  /\ session[c].pc # "none" /\ ~peer[c].closed
  /\ peer' = [peer EXCEPT ![c].closed = TRUE, ![c].sending = << >>]
  /\ UNCHANGED <<listening, next_connection_id, session>>

-----------------------------------------------------------------------------

SessionStep(c) == WriteFrame(c) \/ ReadHeader(c) \/ ReadPayload(c) \/ Timeout(c) \/ PeerGone(c)

ClientStep(c) == Greet(c) \/ Request(c) \/ Deliver(c) \/ Close(c)

MiniNext ==
  \/ AcceptFails \/ StopContext
  \/ \E c \in Connection : Accept(c) \/ SessionStep(c) \/ ClientStep(c)

\* A read or a write that does not complete is ended by its timer.  (A session
\* has a last wait: its client sends at most MaxRequests commands.)
MiniFairness == \A c \in Connection : WF_miniVars(Timeout(c))

-----------------------------------------------------------------------------
(* Properties *)

\* The first byte of what the client has asked for, 0 before it asks.
Asked(c) ==
  IF peer[c].request = << >> \/ peer[c].request[2] = << >> THEN 0 ELSE peer[c].request[2][1]

\* Within an exchange the frames of both sides are numbered one after the
\* other, from 0; only the answer to a command byte the server does not know
\* starts from 0 again.  A frame that carries the number that is due and a
\* payload is never refused.
SequenceNumbersFollow ==
  \A c \in Connection :
    LET in_command == peer[c].left < MaxRequests
        request == peer[c].request
        first == IF request = << >> \/ (in_command /\ CommandOf(Asked(c)) = "unknown") THEN 0
                 ELSE request[1] + 1
    IN  /\ \A i \in DOMAIN peer[c].replies :
             DecodeFrame(peer[c].replies[i]).v.seq_id = Nat2Int(first + i - 1)
        /\ session[c].refused =>
             request[1] # (IF in_command THEN 0 ELSE 1) \/ request[2] = << >>

\* A client is told OK, and its commands are executed, only when it has greeted
\* with the server's user name and with the scramble of the password and of the
\* nonce that the server greeting carried to it.
OnlyTheUserIsServed ==
  \A c \in Connection :
    \/ session[c].phase = "command"
    \/ \E i \in DOMAIN peer[c].replies : DecodeFrame(peer[c].replies[i]).v.payload[1] = 0
    => /\ peer[c].greeting.username = server_username
       /\ peer[c].greeting.auth_method_data = scramble(server_password, server_auth_method_data)

\* What a client reads from a complete answer, frame by frame.
Reply(c, i) == DecodeFrame(peer[c].replies[i]).v.payload

IsRead(m) == m.ok /\ m.rest = << >>

\* A column count, as many column definitions, an eof, rows and an eof; every
\* row has a value for each column, NULL only where the column allows it.
ReadsColumnsAndRows(c, n) ==
  LET caps == get_shared_capabilities(session[c])
      last == Len(peer[c].replies)
  IN  /\ n + 2 < last
      /\ \A i \in {n + 2, last} : IsRead(DecodeEof(Reply(c, i), caps))
      /\ \E meta \in {[k \in 1 .. n |-> DecodeColumnMeta(Reply(c, 1 + k), caps)]} :
           /\ \A k \in 1 .. n : IsRead(meta[k])
           /\ \A i \in n + 3 .. last - 1 :
                \E row \in {DecodeRow(Reply(c, i))} :
                  /\ IsRead(row) /\ Len(row.v.fields) = n
                  /\ \A k \in 1 .. n : row.v.fields[k] = {} => not_null_flag \notin meta[k].v.flags

ReadsResultSet(c) ==
  \E count \in {DecodeColumnCount(Reply(c, 1))} :
    IsRead(count) /\ ReadsColumnsAndRows(c, Int2Nat(count.v.count))


\* A session whose client stops sending, or stops reading, in the middle of a
\* frame or between two, ends.
SessionsEnd ==
  \A c \in Connection : session[c].pc # "none" ~> session[c].pc = "ended"

=============================================================================
