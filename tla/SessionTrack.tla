---------------------------- MODULE SessionTrack ----------------------------
(* What a server reports in the session_changes of an Ok or Eof, and the     *)
(* binary values of prepared statements that are not plain integers or       *)
(* strings, in the form of module ServerMessages.                            *)
EXTENDS Wire

-----------------------------------------------------------------------------
(* session_track *)

TransactionStateFields == <<"trx_type", "read_unsafe", "read_trx", "write_unsafe",
                            "write_trx", "stmt_unsafe", "resultset", "locked_tables">>

track_TransactionState ==
  [f \in ToSet(TransactionStateFields) |-> << >>] @@ [type |-> "track_TransactionState"]

EncodeTransactionState(m) ==
  accumulate(<<Int1(8)>> \o [i \in 1 .. 8 |-> FixedInt(1, m[TransactionStateFields[i]])])

DecodeTransactionState(b) ==
  LET size == RequireThat(Step(Start(b, track_TransactionState @@ [n |-> << >>]), "n", varint),
                          LAMBDA x : x.v.n = <<8>>)
  IN  WithFieldsOf(Steps(size, [i \in 1 .. 8 |-> <<TransactionStateFields[i], int(1)>>]),
                   track_TransactionState)

track_TransactionCharacteristics ==
  [type |-> "track_TransactionCharacteristics", characteristics |-> << >>]

EncodeTransactionCharacteristics(m) == VarString(m.characteristics)

DecodeTransactionCharacteristics(b) ==
  Step(Start(b, track_TransactionCharacteristics), "characteristics", varstr)

track_State == [type |-> "track_State", state |-> << >>]

EncodeState(m) == FixedInt(1, m.state)

DecodeState(b) == Step(Start(b, track_State), "state", int(1))

track_Schema == [type |-> "track_Schema", schema |-> << >>]

EncodeSchema(m) == VarString(m.schema)

DecodeSchema(b) == Step(Start(b, track_Schema), "schema", varstr)

track_SystemVariable == [type |-> "track_SystemVariable", key |-> << >>, value |-> << >>]

EncodeSystemVariable(m) == VarString(m.key) \o VarString(m.value)

DecodeSystemVariable(b) ==
  Steps(Start(b, track_SystemVariable), << <<"key", varstr>>, <<"value", varstr>> >>)

track_Gtid == [type |-> "track_Gtid", spec |-> << >>, gtid |-> << >>]

EncodeGtid(m) == FixedInt(1, m.spec) \o VarString(m.gtid)

DecodeGtid(b) == Steps(Start(b, track_Gtid), << <<"spec", int(1)>>, <<"gtid", varstr>> >>)

\* session_track::Field: a change of one of the kinds above, encoded
track_Field == [type |-> "track_Field", kind |-> << >>, data |-> << >>]

EncodeTrackField(m) == FixedInt(1, m.kind) \o VarString(m.data)

DecodeTrackField(b) == Steps(Start(b, track_Field), << <<"kind", int(1)>>, <<"data", varstr>> >>)

-----------------------------------------------------------------------------
(* binary: a date and time leaves out the parts that are zero at its end     *)

binary_DateTime ==
  [type |-> "binary_DateTime", year |-> << >>, month |-> << >>, day |-> << >>,
   hour |-> << >>, minute |-> << >>, second |-> << >>, microsecond |-> << >>]

EncodeDateTime(m) ==
  LET has_ms == m.microsecond # << >>
      has_time == m.hour # << >> \/ m.minute # << >> \/ m.second # << >> \/ has_ms
      has_date == m.year # << >> \/ m.month # << >> \/ m.day # << >> \/ has_time
  IN  accumulate(<<
        If(has_date, FixedInt(2, m.year) \o FixedInt(1, m.month) \o FixedInt(1, m.day)),
        If(has_time, FixedInt(1, m.hour) \o FixedInt(1, m.minute) \o FixedInt(1, m.second)),
        If(has_ms, FixedInt(4, m.microsecond))>>)

DecodeDateTime(b) ==
  TryStepThen(Start(b, binary_DateTime), "year", int(2), LAMBDA year :
    TryStepThen(Steps(year, << <<"month", int(1)>>, <<"day", int(1)>> >>), "hour", int(1),
      LAMBDA hour :
        TryStep(Steps(hour, << <<"minute", int(1)>>, <<"second", int(1)>> >>),
                "microsecond", int(4))))

binary_Time ==
  [type |-> "binary_Time", is_negative |-> << >>, days |-> << >>, hour |-> << >>,
   minute |-> << >>, second |-> << >>, microsecond |-> << >>]

\* The sign of a zero time is not written.
EncodeTime(m) ==
  LET zero == \A f \in {"days", "hour", "minute", "second", "microsecond"} : m[f] = << >>
  IN  If(~zero, accumulate(<<
        FixedInt(1, m.is_negative), FixedInt(4, m.days), FixedInt(1, m.hour),
        FixedInt(1, m.minute), FixedInt(1, m.second),
        If(m.microsecond # << >>, FixedInt(4, m.microsecond))>>))

DecodeTime(b) ==
  TryStepThen(Start(b, binary_Time), "is_negative", int(1), LAMBDA sign :
    TryStep(Steps(sign, << <<"days", int(4)>>, <<"hour", int(1)>>, <<"minute", int(1)>>,
                           <<"second", int(1)>> >>),
            "microsecond", int(4)))

-----------------------------------------------------------------------------
(* Codec<T>: the codec a value's type selects *)

EncodeTracked(m) ==
  CASE m.type = "track_TransactionState" -> EncodeTransactionState(m)
    [] m.type = "track_TransactionCharacteristics" -> EncodeTransactionCharacteristics(m)
    [] m.type = "track_State" -> EncodeState(m)
    [] m.type = "track_Schema" -> EncodeSchema(m)
    [] m.type = "track_SystemVariable" -> EncodeSystemVariable(m)
    [] m.type = "track_Gtid" -> EncodeGtid(m)
    [] m.type = "track_Field" -> EncodeTrackField(m)
    [] m.type = "binary_DateTime" -> EncodeDateTime(m)
    [] m.type = "binary_Time" -> EncodeTime(m)

DecodeTracked(type, b) ==
  CASE type = "track_TransactionState" -> DecodeTransactionState(b)
    [] type = "track_TransactionCharacteristics" -> DecodeTransactionCharacteristics(b)
    [] type = "track_State" -> DecodeState(b)
    [] type = "track_Schema" -> DecodeSchema(b)
    [] type = "track_SystemVariable" -> DecodeSystemVariable(b)
    [] type = "track_Gtid" -> DecodeGtid(b)
    [] type = "track_Field" -> DecodeTrackField(b)
    [] type = "binary_DateTime" -> DecodeDateTime(b)
    [] type = "binary_Time" -> DecodeTime(b)

=============================================================================
