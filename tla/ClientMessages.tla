--------------------------- MODULE ClientMessages ---------------------------
(* The messages a MySQL client sends and their codecs, in the form of module *)
(* ServerMessages.                                                           *)
EXTENDS ServerMessages

-----------------------------------------------------------------------------
(* CodecSimpleCommand: Quit, ResetConnection, Ping, Statistics, Debug, Clone *)

CommandByte ==
  [client_Quit |-> 1, client_InitSchema |-> 2, client_Query |-> 3, client_ListFields |-> 4,
   client_Reload |-> 7, client_Statistics |-> 9, client_Kill |-> 12, client_Debug |-> 13,
   client_Ping |-> 14, client_ChangeUser |-> 17, client_BinlogDump |-> 18,
   client_RegisterReplica |-> 21, client_StmtPrepare |-> 22, client_StmtExecute |-> 23,
   client_StmtParamAppendData |-> 24, client_StmtClose |-> 25, client_StmtReset |-> 26,
   client_SetOption |-> 27, client_StmtFetch |-> 28, client_BinlogDumpGtid |-> 30,
   client_ResetConnection |-> 31, client_Clone |-> 32]

SimpleCommand == {"client_Quit", "client_ResetConnection", "client_Ping",
                  "client_Statistics", "client_Debug", "client_Clone"}

client_SimpleCommand(type) == [type |-> type]

EncodeSimpleCommand(m) == Int1(CommandByte[m.type])

DecodeSimpleCommand(type, b) == Command(b, CommandByte[type], client_SimpleCommand(type))

-----------------------------------------------------------------------------
(* client::InitSchema, ListFields, Reload, Kill, SetOption, SendFile *)

client_InitSchema == [type |-> "client_InitSchema", schema |-> << >>]

EncodeInitSchema(m) == Int1(2) \o String(m.schema)

DecodeInitSchema(b) == Step(Command(b, 2, client_InitSchema), "schema", rest)

client_ListFields == [type |-> "client_ListFields", table_name |-> << >>, wildcard |-> << >>]

EncodeListFields(m) ==
  accumulate(<<Int1(4), NulTermString(m.table_name), String(m.wildcard)>>)

DecodeListFields(b) ==
  Steps(Command(b, 4, client_ListFields),
        << <<"table_name", nulstr>>, <<"wildcard", rest>> >>)

client_Reload == [type |-> "client_Reload", cmds |-> {}]

EncodeReload(m) == Int1(7) \o Flags(1, m.cmds)

DecodeReload(b) == Step(Command(b, 7, client_Reload), "cmds", flags(1))

client_Kill == [type |-> "client_Kill", connection_id |-> << >>]

EncodeKill(m) == Int1(12) \o FixedInt(4, m.connection_id)

DecodeKill(b) == Step(Command(b, 12, client_Kill), "connection_id", int(4))

client_SetOption == [type |-> "client_SetOption", option |-> << >>]

EncodeSetOption(m) == Int1(27) \o FixedInt(2, m.option)

DecodeSetOption(b) == Step(Command(b, 27, client_SetOption), "option", int(2))

client_SendFile == [type |-> "client_SendFile", payload |-> << >>]

EncodeSendFile(m) == String(m.payload)

DecodeSendFile(b) == Step(Start(b, client_SendFile), "payload", rest)

-----------------------------------------------------------------------------
(* client::Query: the statement after its attributes, when both sides know   *)
(* of attributes.                                                            *)

client_Query == [type |-> "client_Query", statement |-> << >>, values |-> << >>]

\* The type of a parameter; a Json attribute is sized as a string is.
ParamType(p) == LET t == Low(p.type_and_flags, 1)[1] IN IF t = Json THEN 254 ELSE t

EncodeQuery(m, caps) ==
  LET n == Len(m.values)
      optional == [i \in 1 .. n |-> m.values[i].value]
      definition(p) == FixedInt(2, p.type_and_flags) \o VarString(p.name)
      value(p) == LET v == TheValue(p.value)
                  IN  IF p.value = {} THEN << >>
                      ELSE EncodeFieldSize(ParamType(p), Len(v)) \o String(v)
      attributes == accumulate(<<NullBitmap(optional, 0), Int1(1)>>
                                 \o [i \in 1 .. n |-> definition(m.values[i])]
                                 \o [i \in 1 .. n |-> value(m.values[i])])
  IN  accumulate(<<Int1(3),
                   If(query_attributes \in caps,
                      VarInt(Nat2Int(n)) \o VarInt(<<1>>) \o If(n > 0, attributes)),
                   String(m.statement)>>)

\* n parameter definitions, and after them the values of those that are not
\* null; a is an accumulator with the fields values, def.
AppendDefinition(a, type_and_flags, name) ==
  [a EXCEPT !.v.values = Append(@, [type_and_flags |-> type_and_flags, name |-> name,
                                    value |-> {}])]

Defined(a, named) ==
  IF a.ok THEN AppendDefinition(a, a.v.t, IF named THEN a.v.s ELSE << >>) ELSE a

DecodeDefinition(a, named) ==
  Defined(StepsIf(Step(a, "t", int(2)), named, << <<"s", varstr>> >>), named)

ValueDecoded(a, i, r) ==
  IF r.ok THEN [a EXCEPT !.rest = r.rest, !.v.values[i].value = {r.v}]
  ELSE [a EXCEPT !.ok = FALSE]

DecodeValue(a, i, type) == ValueDecoded(a, i, DecodeField(a.rest, type))

Indices(n) == [i \in 1 .. n |-> i]

DecodeAttributes(a, n) ==
  LET bound == RequireThat(StepsIf(a, n > 0, << <<"nulls", flags(bytes_per_bits(n))>>,
                                                <<"one", int(1)>> >>),
                           LAMBDA x : n > 0 => x.v.one = <<1>>)
      defined == FoldLeft(LAMBDA x, i : IF x.ok THEN DecodeDefinition(x, TRUE) ELSE x,
                          bound, Indices(n))
  IN  FoldLeft(LAMBDA x, i : IF ~x.ok \/ i - 1 \in x.v.nulls THEN x
                             ELSE DecodeValue(x, i, ParamType(x.v.values[i])),
               defined, Indices(n))

DecodeCountedAttributes(a) == DecodeAttributes(a, Int2Nat(a.v.n))

DecodeQuery(b, caps) ==
  LET known == query_attributes \in caps
      start == Command(b, 3, client_Query @@ [n |-> << >>, one |-> << >>, nulls |-> {},
                                              t |-> << >>, s |-> << >>])
      counted == RequireThat(StepsIf(start, known, << <<"n", varint>>, <<"one", varint>> >>),
                             LAMBDA x : known => x.v.one = <<1>>)
  IN  WithFieldsOf(Step(DecodeCountedAttributes(counted), "statement", rest), client_Query)

-----------------------------------------------------------------------------
(* Prepared statements: client::StmtPrepare, StmtExecute,                    *)
(* StmtParamAppendData, StmtClose, StmtReset, StmtFetch.                     *)

client_StmtPrepare == [type |-> "client_StmtPrepare", statement |-> << >>]

EncodeStmtPrepare(m) == Int1(22) \o String(m.statement)

DecodeStmtPrepare(b) == Step(Command(b, 22, client_StmtPrepare), "statement", rest)

client_StmtExecute ==
  [type |-> "client_StmtExecute", statement_id |-> << >>, flags |-> {},
   iteration_count |-> << >>, new_params_bound |-> << >>, types |-> << >>, values |-> << >>]

EncodeStmtExecute(m, caps) ==
  LET n == Len(m.values)
      named == query_attributes \in caps
      definition(d) == FixedInt(2, d.type_and_flags) \o If(named, VarString(d.name))
      value(i) == LET v == TheValue(m.values[i])
                  IN  IF m.values[i] = {} THEN << >>
                      ELSE EncodeFieldSize(Low(m.types[i].type_and_flags, 1)[1], Len(v))
                             \o String(v)
      params == accumulate(<<NullBitmap(m.values, 0), FixedInt(1, m.new_params_bound)>>
                  \o [i \in 1 .. n |-> If(m.new_params_bound # << >>, definition(m.types[i]))]
                  \o [i \in 1 .. n |-> value(i)])
  IN  accumulate(<<Int1(23), FixedInt(4, m.statement_id), Flags(1, m.flags),
                   FixedInt(4, m.iteration_count),
                   If(named /\ param_count_available \in m.flags, VarInt(Nat2Int(n))),
                   If(n > 0, params)>>)

\* The definitions and the values of n parameters, a after the bytes that say
\* whether new ones are bound; meta: the parameters as they were prepared.
DecodeParams(a, named, meta, n) ==
  LET new == a.v.new_params_bound = <<1>>
      define(x, i) == IF ~x.ok THEN x
                      ELSE IF new THEN DecodeDefinition(x, named)
                      ELSE AppendDefinition(x, meta[i].type_and_flags, meta[i].name)
      sent(i) == i <= Len(meta) /\ meta[i].param_already_sent
      fill(x, i) == IF ~x.ok THEN x
                    ELSE IF sent(i) THEN [x EXCEPT !.v.values[i].value = {<< >>}]
                    ELSE IF i - 1 \in x.v.nulls THEN x
                    ELSE DecodeValue(x, i, Low(x.v.values[i].type_and_flags, 1)[1])
  IN  IF ~a.ok THEN a ELSE FoldLeft(fill, FoldLeft(define, a, Indices(n)), Indices(n))

DecodeBound(a, size, named, meta, n) ==
  LET bound == StepsIf(Require(a, n >= Len(meta)), n > 0,
                       << <<"nulls", flags(bytes_per_bits(n))>>, <<"new_params_bound", int(1)>> >>)
      valid(x) == LET new == x.v.new_params_bound
                  IN  /\ new \in {<< >>, <<1>>}
                      /\ n > 0 => IF new = <<1>> THEN n < size \div 2 ELSE n = Len(meta)
  IN  DecodeParams(RequireThat(bound, valid), named, meta, n)

ParamCountGiven(a, named) == named /\ param_count_available \in a.v.flags

DecodeCounted(a, size, named, meta) ==
  DecodeBound(a, size, named, meta,
              IF ParamCountGiven(a, named) THEN Int2Nat(a.v.n) ELSE Len(meta))

\* The parameters, as types and values.
WithTypes(a, p) ==
  [a EXCEPT !.v.types = [i \in DOMAIN p |-> [type_and_flags |-> p[i].type_and_flags,
                                             name |-> p[i].name]],
            !.v.values = [i \in DOMAIN p |-> p[i].value]]

StmtExecuteOf(a) == WithFieldsOf(WithTypes(a, a.v.values), client_StmtExecute)

\* metadata: what metadata_lookup returns, {} when there is no such statement
DecodeStmtExecute(b, caps, metadata) ==
  LET named == query_attributes \in caps
      start == Steps(Command(b, 23, client_StmtExecute
                                      @@ [n |-> << >>, nulls |-> {}, t |-> << >>, s |-> << >>]),
                     << <<"statement_id", int(4)>>, <<"flags", flags(1)>>,
                        <<"iteration_count", int(4)>> >>)
      count == StepsWhen(Require(start, metadata # {}), LAMBDA x : ParamCountGiven(x, named),
                         << <<"n", varint>> >>)
  IN  StmtExecuteOf(DecodeCounted(count, Len(b), named, TheValue(metadata)))

client_StmtParamAppendData ==
  [type |-> "client_StmtParamAppendData", statement_id |-> << >>, param_id |-> << >>,
   data |-> << >>]

EncodeStmtParamAppendData(m) ==
  accumulate(<<Int1(24), FixedInt(4, m.statement_id), FixedInt(2, m.param_id), String(m.data)>>)

DecodeStmtParamAppendData(b) ==
  Steps(Command(b, 24, client_StmtParamAppendData),
        << <<"statement_id", int(4)>>, <<"param_id", int(2)>>, <<"data", rest>> >>)

client_StmtClose == [type |-> "client_StmtClose", statement_id |-> << >>]

EncodeStmtClose(m) == Int1(25) \o FixedInt(4, m.statement_id)

DecodeStmtClose(b) == Step(Command(b, 25, client_StmtClose), "statement_id", int(4))

client_StmtReset == [type |-> "client_StmtReset", statement_id |-> << >>]

EncodeStmtReset(m) == Int1(26) \o FixedInt(4, m.statement_id)

DecodeStmtReset(b) == Step(Command(b, 26, client_StmtReset), "statement_id", int(4))

client_StmtFetch == [type |-> "client_StmtFetch", statement_id |-> << >>, row_count |-> << >>]

EncodeStmtFetch(m) ==
  accumulate(<<Int1(28), FixedInt(4, m.statement_id), FixedInt(4, m.row_count)>>)

DecodeStmtFetch(b) ==
  Steps(Command(b, 28, client_StmtFetch),
        << <<"statement_id", int(4)>>, <<"row_count", int(4)>> >>)

-----------------------------------------------------------------------------
(* The connection phase: client::Greeting, AuthMethodData, ChangeUser *)

client_Greeting ==
  [type |-> "client_Greeting", capabilities |-> {}, max_packet_size |-> << >>,
   collation |-> << >>, username |-> << >>, auth_method_data |-> << >>, schema |-> << >>,
   auth_method_name |-> << >>, attributes |-> << >>]

EncodeClientGreeting(m, caps) ==
  LET has(c) == c \in m.capabilities \cap caps
      data == IF has(client_auth_method_data_varint) THEN VarString(m.auth_method_data)
              ELSE IF has(secure_connection) THEN SizedString(1, m.auth_method_data)
              ELSE NulTermString(m.auth_method_data)
      named == /\ has(plugin_auth)
               /\ has(connect_attributes) \/ m.auth_method_name # << >>
      credentials == accumulate(<<
        NulTermString(m.username), data, If(has(connect_with_schema), NulTermString(m.schema)),
        If(named, NulTermString(m.auth_method_name)),
        If(has(connect_attributes), VarString(m.attributes))>>)
  IN  IF has(protocol_41)
      THEN accumulate(<<Flags(4, m.capabilities), FixedInt(4, m.max_packet_size),
                        FixedInt(1, m.collation), Void(23),
                        If(~(has(ssl) /\ m.username = << >>), credentials)>>)
      ELSE accumulate(<<Flags(2, m.capabilities), FixedInt(3, m.max_packet_size),
                        NulTermString(m.username),
                        IF has(connect_with_schema)
                        THEN NulTermString(m.auth_method_data) \o String(m.schema)
                        ELSE String(m.auth_method_data)>>)

\* After the user name.
DecodeCredentials(a, caps) ==
  LET has(c) == c \in a.v.capabilities \cap caps
      data == Step(a, "auth_method_data",
                   IF has(client_auth_method_data_varint) THEN varstr
                   ELSE IF has(secure_connection) THEN sizedstr(1) ELSE nulstr)
      schema == StepsIf(data, has(connect_with_schema), << <<"schema", nulstr>> >>)
      method == StepsWhen(schema, LAMBDA x : has(plugin_auth) /\ x.rest # << >>,
                          << <<"auth_method_name", nulstr>> >>)
  IN  StepsIf(method, has(connect_attributes), << <<"attributes", varstr>> >>)

\* A short SSL greeting ends before the user name.
ShortOrFull(fixed, user, caps) ==
  IF fixed.ok /\ ~user.ok /\ ssl \in fixed.v.capabilities \cap caps THEN fixed
  ELSE DecodeCredentials(user, caps)

DecodeUser(fixed, caps) == ShortOrFull(fixed, Step(fixed, "username", nulstr), caps)

\* upper: the two upper bytes of the capabilities
DecodeGreeting41(lower, upper, caps) ==
  DecodeUser(
    Steps([ok |-> upper.ok, rest |-> upper.rest,
           v |-> [lower.v EXCEPT !.capabilities = @ \cup {c + 16 : c \in BitsOf(upper.v)}]],
          << <<"max_packet_size", int(4)>>, <<"collation", int(1)>>, <<"", str(23)>> >>), caps)

DecodeGreeting320(lower, caps) ==
  LET user == Steps(lower, << <<"max_packet_size", int(3)>>, <<"username", nulstr>> >>)
  IN  Steps(user, IF connect_with_schema \in lower.v.capabilities \cap caps
                  THEN << <<"auth_method_data", nulstr>>, <<"schema", rest>> >>
                  ELSE << <<"auth_method_data", rest>> >>)

DecodeGreeting(lower, caps) ==
  IF lower.ok /\ protocol_41 \in lower.v.capabilities \cap caps
  THEN DecodeGreeting41(lower, DecodeString(lower.rest, 2), caps)
  ELSE DecodeGreeting320(lower, caps)

DecodeClientGreeting(b, caps) ==
  DecodeGreeting(Step(Start(b, client_Greeting), "capabilities", flags(2)), caps)

client_AuthMethodData == [type |-> "client_AuthMethodData", auth_method_data |-> << >>]

EncodeClientAuthMethodData(m) == String(m.auth_method_data)

DecodeClientAuthMethodData(b) ==
  Step(Start(b, client_AuthMethodData), "auth_method_data", rest)

client_ChangeUser ==
  [type |-> "client_ChangeUser", username |-> << >>, auth_method_data |-> << >>,
   schema |-> << >>, collation |-> << >>, auth_method_name |-> << >>, attributes |-> << >>]

\* The message keeps 16 bits of a collation, its accessor returns 8.
ChangeUserCollation(m) == Value(Low(m.collation, 1))

EncodeChangeUser(m, caps) ==
  LET collation == ChangeUserCollation(m)
      more == collation # << >> \/ {plugin_auth, connect_attributes} \cap caps # {}
  IN  accumulate(<<Int1(17), NulTermString(m.username),
                   IF secure_connection \in caps THEN SizedString(1, m.auth_method_data)
                   ELSE NulTermString(m.auth_method_data),
                   NulTermString(m.schema), If(more, FixedInt(2, collation)),
                   If(plugin_auth \in caps, NulTermString(m.auth_method_name)),
                   If(connect_attributes \in caps, VarString(m.attributes))>>)

\* After the schema; 3.23 to 4.0 send no more.
DecodeCollation(a, caps) ==
  LET method == StepsIf(Step(a, "collation", int(2)), plugin_auth \in caps,
                        << <<"auth_method_name", nulstr>> >>)
  IN  IF a.rest = << >> THEN a
      ELSE StepsIf(method, connect_attributes \in caps, << <<"attributes", varstr>> >>)

DecodeChangeUser(b, caps) ==
  DecodeCollation(
    Steps(Command(b, 17, client_ChangeUser),
          << <<"username", nulstr>>,
             <<"auth_method_data", IF secure_connection \in caps THEN sizedstr(1) ELSE nulstr>>,
             <<"schema", nulstr>> >>), caps)

-----------------------------------------------------------------------------
(* Replication: client::BinlogDump, RegisterReplica, BinlogDumpGtid *)

client_BinlogDump ==
  [type |-> "client_BinlogDump", flags |-> {}, server_id |-> << >>, filename |-> << >>,
   position |-> << >>]

EncodeBinlogDump(m) ==
  accumulate(<<Int1(18), FixedInt(4, m.position), Flags(2, m.flags), FixedInt(4, m.server_id),
               String(m.filename)>>)

DecodeBinlogDump(b) ==
  Steps(Command(b, 18, client_BinlogDump),
        << <<"position", int(4)>>, <<"flags", flags(2)>>, <<"server_id", int(4)>>,
           <<"filename", rest>> >>)

client_RegisterReplica ==
  [type |-> "client_RegisterReplica", server_id |-> << >>, hostname |-> << >>,
   username |-> << >>, password |-> << >>, port |-> << >>, replication_rank |-> << >>,
   master_id |-> << >>]

EncodeRegisterReplica(m) ==
  accumulate(<<Int1(21), FixedInt(4, m.server_id), SizedString(1, m.hostname),
               SizedString(1, m.username), SizedString(1, m.password), FixedInt(2, m.port),
               FixedInt(4, m.replication_rank), FixedInt(4, m.master_id)>>)

DecodeRegisterReplica(b) ==
  Steps(Command(b, 21, client_RegisterReplica),
        << <<"server_id", int(4)>>, <<"hostname", sizedstr(1)>>, <<"username", sizedstr(1)>>,
           <<"password", sizedstr(1)>>, <<"port", int(2)>>, <<"replication_rank", int(4)>>,
           <<"master_id", int(4)>> >>)

client_BinlogDumpGtid ==
  [type |-> "client_BinlogDumpGtid", flags |-> {}, server_id |-> << >>, filename |-> << >>,
   position |-> << >>, sids |-> << >>]

through_gtid == 2


EncodeBinlogDumpGtid(m) ==
  accumulate(<<Int1(30), Flags(2, m.flags), FixedInt(4, m.server_id), SizedString(4, m.filename),
               FixedInt(8, m.position), If(through_gtid \in m.flags, SizedString(4, m.sids))>>)

DecodeBinlogDumpGtid(b) ==
  StepsWhen(Steps(Command(b, 30, client_BinlogDumpGtid),
                  << <<"flags", flags(2)>>, <<"server_id", int(4)>>, <<"filename", sizedstr(4)>>,
                     <<"position", int(8)>> >>),
            LAMBDA x : through_gtid \in x.v.flags, << <<"sids", sizedstr(4)>> >>)

-----------------------------------------------------------------------------
(* Codec<T>: the codec a message's type selects; metadata is what the lookup *)
(* of a StmtExecute's parameters returns.                                    *)

EncodeClient(m, caps) ==
  CASE m.type \in SimpleCommand -> EncodeSimpleCommand(m)
    [] m.type = "client_InitSchema" -> EncodeInitSchema(m)
    [] m.type = "client_ListFields" -> EncodeListFields(m)
    [] m.type = "client_Reload" -> EncodeReload(m)
    [] m.type = "client_Kill" -> EncodeKill(m)
    [] m.type = "client_SetOption" -> EncodeSetOption(m)
    [] m.type = "client_SendFile" -> EncodeSendFile(m)
    [] m.type = "client_Query" -> EncodeQuery(m, caps)
    [] m.type = "client_StmtPrepare" -> EncodeStmtPrepare(m)
    [] m.type = "client_StmtExecute" -> EncodeStmtExecute(m, caps)
    [] m.type = "client_StmtParamAppendData" -> EncodeStmtParamAppendData(m)
    [] m.type = "client_StmtClose" -> EncodeStmtClose(m)
    [] m.type = "client_StmtReset" -> EncodeStmtReset(m)
    [] m.type = "client_StmtFetch" -> EncodeStmtFetch(m)
    [] m.type = "client_Greeting" -> EncodeClientGreeting(m, caps)
    [] m.type = "client_AuthMethodData" -> EncodeClientAuthMethodData(m)
    [] m.type = "client_ChangeUser" -> EncodeChangeUser(m, caps)
    [] m.type = "client_BinlogDump" -> EncodeBinlogDump(m)
    [] m.type = "client_RegisterReplica" -> EncodeRegisterReplica(m)
    [] m.type = "client_BinlogDumpGtid" -> EncodeBinlogDumpGtid(m)

DecodeClient(type, b, caps, metadata) ==
  CASE type \in SimpleCommand -> DecodeSimpleCommand(type, b)
    [] type = "client_InitSchema" -> DecodeInitSchema(b)
    [] type = "client_ListFields" -> DecodeListFields(b)
    [] type = "client_Reload" -> DecodeReload(b)
    [] type = "client_Kill" -> DecodeKill(b)
    [] type = "client_SetOption" -> DecodeSetOption(b)
    [] type = "client_SendFile" -> DecodeSendFile(b)
    [] type = "client_Query" -> DecodeQuery(b, caps)
    [] type = "client_StmtPrepare" -> DecodeStmtPrepare(b)
    [] type = "client_StmtExecute" -> DecodeStmtExecute(b, caps, metadata)
    [] type = "client_StmtParamAppendData" -> DecodeStmtParamAppendData(b)
    [] type = "client_StmtClose" -> DecodeStmtClose(b)
    [] type = "client_StmtReset" -> DecodeStmtReset(b)
    [] type = "client_StmtFetch" -> DecodeStmtFetch(b)
    [] type = "client_Greeting" -> DecodeClientGreeting(b, caps)
    [] type = "client_AuthMethodData" -> DecodeClientAuthMethodData(b)
    [] type = "client_ChangeUser" -> DecodeChangeUser(b, caps)
    [] type = "client_BinlogDump" -> DecodeBinlogDump(b)
    [] type = "client_RegisterReplica" -> DecodeRegisterReplica(b)
    [] type = "client_BinlogDumpGtid" -> DecodeBinlogDumpGtid(b)

=============================================================================
