----------------------------- MODULE MCProtocol -----------------------------
(* Messages of every type, with values where the width of an integer         *)
(* changes, and the capabilities their encoding depends on; and the clients  *)
(* of the mini MySQL server.  A behaviour is one of the two systems, the     *)
(* other one stands still.                                                   *)
EXTENDS ProtocolStream, MiniMysql

CONSTANTS c1, c2

Text == <<97, 98>>
Long(n) == [i \in 1 .. n |-> 97]

Edge == {<< >>, <<250>>, <<251>>, <<255, 255>>, <<0, 0, 1>>, <<0, 0, 0, 1>>, AllOnes(8)}

\* A message in every subset of the capabilities that change its encoding;
\* complete when they are the ones that carry all of it.
Under(m, relevant, full) ==
  {[message |-> m, caps |-> c, types |-> << >>, lookup |-> {}, complete |-> full \subseteq c] :
     c \in SUBSET relevant}

Always(m) == Under(m, {}, {})

Status(m) ==
  {x \in Under(m, {protocol_41, transactions, session_track, text_result_with_session_tracking},
               {protocol_41, session_track}
                 \cup IF m.type = "server_Eof" THEN {text_result_with_session_tracking} ELSE {}) : session_track \in x.caps => protocol_41 \in x.caps}

Statuses ==
  {[server_Ok EXCEPT !.type = t, !.affected_rows = n, !.last_insert_id = <<1>>,
                     !.status_flags = s, !.warning_count = <<0, 1>>, !.message = Text,
                     !.session_changes = IF session_state_changed \in s THEN Text ELSE << >>] :
     t \in {"server_Ok", "server_Eof"}, n \in Edge, s \in {{1}, {1, session_state_changed}}}
    \cup {server_Ok, server_Eof}

ServerGreetings ==
  {[server_Greeting EXCEPT !.protocol_version = <<10>>, !.version = Text,
      !.connection_id = <<0, 1>>, !.auth_method_data = Long(20) \o <<0>>,
      !.capabilities = c \cup {protocol_41, secure_connection, plugin_auth},
      !.collation = <<8>>, !.status_flags = {1}, !.auth_method_name = Text] :
     c \in {{}, {connect_attributes, 30}}}
  \cup {[server_Greeting EXCEPT !.protocol_version = <<9>>, !.version = Text,
           !.connection_id = <<1>>, !.auth_method_data = Long(8)],
        [server_Greeting EXCEPT !.protocol_version = <<10>>, !.version = Text,
           !.capabilities = {protocol_41}, !.auth_method_data = Long(8)]}

Metas == {[server_ColumnMeta EXCEPT !.catalog = Text, !.table = Text, !.name = n,
             !.orig_name = Text, !.collation = <<63>>, !.column_length = <<255, 1>>,
             !.field_type = <<8>>, !.flags = {0, 5}, !.decimals = <<31>>] :
            n \in {Text, Long(250), Long(251)}}

Rows == {[server_Row EXCEPT !.fields = f] :
           f \in {<< >>, <<{Text}, {}, {<< >>}>>, <<{Long(251)}, {Text}>>}}

\* Prepared statement rows of 1, 6 and 9 columns.
StmtRows ==
  LET types == <<8, 253, 12, 3, 2, 1, 254, 5, 13>>
      value == <<Low(<<1>>, 8), Text, <<1, 2, 3, 4>>, Low(<<1>>, 4), Low(<<1>>, 2), <<1>>, Text,
                 Low(<<2>>, 8), <<1, 7>>>>
      row(n, nulls) == [server_StmtRow EXCEPT !.types = SubSeq(types, 1, n),
                          !.fields = [i \in 1 .. n |-> IF i \in nulls THEN {} ELSE {value[i]}]]
  IN  UNION {{[x EXCEPT !.types = SubSeq(types, 1, n)] : x \in Always(row(n, nulls))} :
               n \in {1, 6, 9}, nulls \in SUBSET {1, 6}}

ServerExchanges ==
  UNION ({Status(m) : m \in Statuses}
    \cup {Always(m) : m \in ServerGreetings \cup Rows}
    \cup {Under(m, {protocol_41, long_flag}, {protocol_41}) : m \in Metas}
    \cup {Always([server_ColumnCount EXCEPT !.count = n]) : n \in Edge}
    \cup {Under([server_AuthMethodSwitch EXCEPT !.auth_method = Text, !.auth_method_data = Text],
                {plugin_auth}, {plugin_auth}),
          Always([server_AuthMethodData EXCEPT !.auth_method_data = Text]),
          Under([server_Error EXCEPT !.error_code = <<21, 4>>, !.message = Text,
                                     !.sql_state = Long(5)],
                {protocol_41}, {protocol_41}),
          Always([server_SendFileRequest EXCEPT !.filename = Text]),
          Under([server_StmtPrepareOk EXCEPT !.statement_id = <<0, 1>>, !.column_count = <<2>>,
                   !.param_count = <<3>>, !.with_metadata = << >>],
                {optional_resultset_metadata}, {optional_resultset_metadata}),
          Always([server_Statistics EXCEPT !.stats = Text])}) \cup StmtRows

-----------------------------------------------------------------------------

Params ==
  {<< >>,
   <<[type_and_flags |-> <<253>>, name |-> Text, value |-> {Text}],
     [type_and_flags |-> <<8, 128>>, name |-> << >>, value |-> {}],
     [type_and_flags |-> <<245>>, name |-> Text, value |-> {Text}],
     [type_and_flags |-> <<12>>, name |-> Text, value |-> {<<1, 2, 3, 4>>}]>>}

Executes ==
  LET types == <<[type_and_flags |-> <<253>>, name |-> << >>],
                 [type_and_flags |-> <<3>>, name |-> << >>]>>
      meta(s) == {[i \in 1 .. 2 |-> types[i] @@ [param_already_sent |-> s /\ i = 1]]}
      execute(bound, v) ==
        [client_StmtExecute EXCEPT !.statement_id = <<1>>, !.iteration_count = <<1>>,
           !.flags = {param_count_available}, !.new_params_bound = bound,
           !.types = types, !.values = v]
      with(bound, v, s) == {[x EXCEPT !.lookup = meta(s)] :
                            x \in Under(execute(bound, v), {query_attributes}, {})}
  IN  UNION {with(b, v, FALSE) : b \in {<< >>, <<1>>},
                                 v \in {<<{Text}, {Low(<<7>>, 4)}>>, <<{}, {Low(<<7>>, 4)}>>,
                                        <<{}, {}>>}}

ClientGreetings ==
  {[client_Greeting EXCEPT !.capabilities = {protocol_41} \cup c, !.max_packet_size = <<0, 0, 1>>,
      !.collation = <<8>>, !.username = Text, !.auth_method_data = Text, !.schema = s,
      !.auth_method_name = a, !.attributes = t] :
     c \in SUBSET {secure_connection, client_auth_method_data_varint, connect_with_schema,
                   plugin_auth, connect_attributes},
     s \in {Text}, a \in {Text}, t \in {Text}}
  \cup {[client_Greeting EXCEPT !.capabilities = c, !.max_packet_size = <<0, 0, 1>>,
           !.username = Text, !.auth_method_data = Text] :
          c \in {{}, {connect_with_schema}}}
  \cup {[client_Greeting EXCEPT !.capabilities = {protocol_41, ssl}, !.collation = <<8>>]}

GreetingCapabilities ==
  {protocol_41, ssl, secure_connection, client_auth_method_data_varint, connect_with_schema,
   plugin_auth, connect_attributes}

ChangeUsers ==
  {[client_ChangeUser EXCEPT !.username = Text, !.auth_method_data = Text, !.schema = Text,
      !.collation = <<8>>, !.auth_method_name = Text, !.attributes = Text]}

ClientExchanges ==
  UNION ({Always(client_SimpleCommand(t)) : t \in SimpleCommand}
    \cup {Under(m, {}, m.capabilities) \cup
            {[message |-> m, caps |-> GreetingCapabilities, types |-> << >>, lookup |-> {},
              complete |-> GreetingCapabilities \ {ssl} \subseteq m.capabilities]} :
            m \in ClientGreetings}
    \cup {Under([client_Query EXCEPT !.statement = Text, !.values = p], {query_attributes},
                IF p = << >> THEN {} ELSE {query_attributes}) : p \in Params}
    \cup {Under(m, {secure_connection, plugin_auth, connect_attributes},
                {plugin_auth, connect_attributes}) : m \in ChangeUsers}
    \cup {Always([client_BinlogDumpGtid EXCEPT !.flags = f, !.server_id = <<1>>,
                    !.filename = Text, !.position = AllOnes(8),
                    !.sids = IF through_gtid \in f THEN Text ELSE << >>]) :
            f \in {{}, {0, through_gtid}}}
    \cup {Always(m) : m \in {
            [client_InitSchema EXCEPT !.schema = Text],
            [client_ListFields EXCEPT !.table_name = Text, !.wildcard = Text],
            [client_Reload EXCEPT !.cmds = {0, 3}],
            [client_Kill EXCEPT !.connection_id = <<0, 1>>],
            [client_SetOption EXCEPT !.option = <<1>>],
            [client_SendFile EXCEPT !.payload = Text],
            [client_StmtPrepare EXCEPT !.statement = Text],
            [client_StmtParamAppendData EXCEPT !.statement_id = <<1>>, !.param_id = <<2>>,
                                               !.data = Text],
            [client_StmtClose EXCEPT !.statement_id = <<1>>],
            [client_StmtReset EXCEPT !.statement_id = <<1>>],
            [client_StmtFetch EXCEPT !.statement_id = <<1>>, !.row_count = <<2>>],
            [client_AuthMethodData EXCEPT !.auth_method_data = Text],
            [client_BinlogDump EXCEPT !.flags = {0}, !.server_id = <<1>>, !.filename = Text,
                                      !.position = <<4>>],
            [client_RegisterReplica EXCEPT !.server_id = <<1>>, !.hostname = Text,
               !.username = Text, !.password = Text, !.port = <<234, 12>>, !.master_id = <<1>>]}})
  \cup Executes

ValueExchanges ==
  LET day == [binary_DateTime EXCEPT !.year = <<230, 7>>, !.month = <<2>>, !.day = <<3>>]
      time == [binary_Time EXCEPT !.is_negative = <<1>>, !.days = <<1>>, !.second = <<9>>]
  IN  UNION {Always(m) : m \in {
        track_TransactionState, [track_TransactionState EXCEPT !.trx_type = <<84>>],
        [track_TransactionCharacteristics EXCEPT !.characteristics = Text],
        [track_State EXCEPT !.state = <<49>>], [track_Schema EXCEPT !.schema = Text],
        [track_SystemVariable EXCEPT !.key = Text, !.value = Long(251)],
        [track_Gtid EXCEPT !.gtid = Text], [track_Field EXCEPT !.kind = <<1>>, !.data = Text],
        binary_DateTime, day, [day EXCEPT !.minute = <<5>>], [day EXCEPT !.microsecond = <<0, 1>>],
        binary_Time, time, [time EXCEPT !.microsecond = <<0, 1>>]}}

MCExchanges == ServerExchanges \cup ClientExchanges \cup ValueExchanges

-----------------------------------------------------------------------------

UserGreeting ==
  [client_Greeting EXCEPT
     !.capabilities = {protocol_41, long_flag, transactions, secure_connection, plugin_auth,
                       connect_attributes, client_auth_method_data_varint},
     !.max_packet_size = <<0, 0, 1>>, !.collation = <<8>>, !.username = server_username,
     !.auth_method_data = scramble(server_password, server_auth_method_data),
     !.auth_method_name = default_server_auth_method]

\* The first client greets in every way the session tells apart, the second
\* one is the user and then waits.
MCGreetings ==
  (c1 :> {<<1, UserGreeting>>, <<0, UserGreeting>>,
          <<1, [UserGreeting EXCEPT !.capabilities =
                  @ \ {long_flag, transactions, connect_attributes}]>>,
          <<1, [UserGreeting EXCEPT !.capabilities = @ \ {plugin_auth}]>>,
          <<1, [UserGreeting EXCEPT !.auth_method_name = <<110>>]>>,
          <<1, [UserGreeting EXCEPT !.username = <<114>>]>>,
          <<1, [UserGreeting EXCEPT !.auth_method_data =
                  scramble(<<113>>, server_auth_method_data)]>>})
    @@ (c2 :> {<<1, UserGreeting>>})

Numbered(m) == <<0, EncodeClient(m, UserGreeting.capabilities)>>

\* Every command the session knows, one it does not know, a ping with a wrong
\* number, and an empty frame.
MCRequests ==
  (c1 :> ({Numbered([client_Query EXCEPT !.statement = q]) :
             q \in {select_from_tbl, select_version, set_checksum, <<120>>}}
           \cup {Numbered(client_SimpleCommand(t)) :
                   t \in {"client_Quit", "client_Ping", "client_ResetConnection"}}
           \cup {Numbered([client_BinlogDump EXCEPT !.filename = <<98>>, !.position = <<4>>]),
                 Numbered([client_BinlogDumpGtid EXCEPT !.filename = <<98>>]),
                 Numbered([client_ChangeUser EXCEPT !.username = server_username]),
                 Numbered([client_Reload EXCEPT !.cmds = {0}]),
                 <<1, <<14>>>>, <<0, << >>>>}))
    @@ (c2 :> {})

NoExchange ==
  /\ exchange = [message |-> Ping, caps |-> {}, types |-> << >>, lookup |-> {}, complete |-> TRUE]
  /\ wire = << >> /\ buffer = << >> /\ received = << >>

NoServer ==
  /\ listening = FALSE
  /\ next_connection_id = 0
  /\ session = [c \in Connection |-> NoSession]
  /\ peer = [c \in Connection |-> NoPeer]

Init == (StreamInit /\ NoServer) \/ (NoExchange /\ MiniInit)

Next == (StreamNext /\ UNCHANGED miniVars) \/ (MiniNext /\ UNCHANGED streamVars)

Spec == Init /\ [][Next]_<<streamVars, miniVars>> /\ MiniFairness

=============================================================================
