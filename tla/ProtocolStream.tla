--------------------------- MODULE ProtocolStream ---------------------------
(* Two peers of the MySQL classic protocol: one sends a message and, after   *)
(* it, a ping; the bytes arrive in pieces of any size; the other takes every *)
(* frame that is complete off its buffer and decodes it.                     *)
EXTENDS ClientMessages, SessionTrack

CONSTANT Exchanges    \* what a peer may send: the message, the shared
                      \* capabilities, the types of its fields, what the lookup
                      \* of a statement returns, and whether the capabilities
                      \* carry every field

VARIABLES exchange,   \* the message that is sent, with the shared capabilities
          wire,       \* bytes that are under way
          buffer,     \* bytes that have arrived and are not decoded
          received    \* what has been decoded, <<DecodeError>> after a failure

streamVars == <<exchange, wire, buffer, received>>

-----------------------------------------------------------------------------

Ping == client_SimpleCommand("client_Ping")

Origin(type) ==
  CASE type \in DOMAIN CommandByte \cup
                  {"client_Greeting", "client_AuthMethodData", "client_SendFile"} -> "client"
    [] type \in {"track_TransactionState", "track_TransactionCharacteristics", "track_State",
                 "track_Schema", "track_SystemVariable", "track_Gtid", "track_Field",
                 "binary_DateTime", "binary_Time"} -> "value"
    [] OTHER -> "server"

\* encode: the codec a type selects, behind a frame header
Encode(m, caps) ==
  CASE Origin(m.type) = "client" -> EncodeClient(m, caps)
    [] Origin(m.type) = "server" -> EncodeServer(m, caps)
    [] Origin(m.type) = "value" -> EncodeTracked(m)

Decode(type, b, x) ==
  CASE Origin(type) = "client" -> DecodeClient(type, b, x.caps, x.lookup)
    [] Origin(type) = "server" -> DecodeServer(type, b, x.caps, x.types)
    [] Origin(type) = "value" -> DecodeTracked(type, b)

Outgoing(x) ==
  EncodeFrame(<< >>, Encode(x.message, x.caps)) \o EncodeFrame(<<1>>, Encode(Ping, x.caps))

StreamInit ==
  /\ exchange \in Exchanges
  /\ wire = Outgoing(exchange)
  /\ buffer = << >>
  /\ received = << >>

\* n more bytes arrive.
Arrive(n) ==
  /\ n <= Len(wire)
  /\ buffer' = buffer \o SubSeq(wire, 1, n)
  /\ wire' = SubSeq(wire, n + 1, Len(wire))
  /\ UNCHANGED <<exchange, received>>

\* decode<Frame<T>> of the buffer's front, T the type that is expected; a
\* frame that is not complete is left in the buffer.
Receive ==
  \E frame \in {DecodeFrame(buffer)} :
    LET expected == IF received = << >> THEN exchange.message.type ELSE "client_Ping"
    IN  /\ frame.ok
        /\ buffer' = frame.rest
        /\ \E m \in {Decode(expected, frame.v.payload, exchange)} :
             received' = Append(received, [seq_id |-> frame.v.seq_id, ok |-> m.ok,
                                           rest |-> m.rest, message |-> m.v])
        /\ UNCHANGED <<exchange, wire>>

StreamNext == Receive \/ \E n \in {1, 4} : Arrive(n)

-----------------------------------------------------------------------------
(* Properties *)



=============================================================================
