-------------------------------- MODULE Wire --------------------------------
(* The wire types of the MySQL classic protocol, their codecs and the        *)
(* accumulators a message codec is written with.  Integers are the values of *)
(* module Bytes, strings are byte sequences, flags are sets of bit           *)
(* positions, an optional value is a set with at most one element.           *)
EXTENDS Bytes

-----------------------------------------------------------------------------
(* Encoding: a codec gives bytes, an encode accumulator concatenates them    *)

FixedInt(n, v) == Low(v, n)


VarInt(v) ==
  IF v = << >> \/ (Len(v) = 1 /\ v[1] < 251) THEN Low(v, 1)
  ELSE IF Len(v) <= 2 THEN <<252>> \o Low(v, 2)
  ELSE IF Len(v) = 3 THEN <<253>> \o Low(v, 3)
  ELSE <<254>> \o Low(v, 8)

Null == <<251>>

Void(n) == [i \in 1 .. n |-> 0]

String(s) == s

VarString(s) == VarInt(Nat2Int(Len(s))) \o String(s)

\* A string after its size in a FixedInt of n bytes.
SizedString(n, s) == FixedInt(n, Nat2Int(Len(s))) \o String(s)

NulTermString(s) == String(s) \o FixedInt(1, << >>)

Flags(n, S) == BitBytes(S, n)

Int1(k) == FixedInt(1, Nat2Int(k))

accumulate(steps) == FlattenSeq(steps)

If(c, b) == IF c THEN b ELSE << >>

bytes_per_bits(n) == (n + 7) \div 8

-----------------------------------------------------------------------------
(* Decoding: [ok, rest, v], v the decoded value                              *)

Got(v, b, n) == [ok |-> TRUE, rest |-> SubSeq(b, n + 1, Len(b)), v |-> v]

DecodeError == [ok |-> FALSE, rest |-> << >>, v |-> << >>]

not_enough_input(b, n) == Len(b) < n

DecodeFixedInt(b, n) ==
  IF not_enough_input(b, n) THEN DecodeError ELSE Got(Value(SubSeq(b, 1, n)), b, n)

DecodeVarInt(b) ==
  LET wide(n) == DecodeFixedInt(Tail(b), n)
  IN  IF not_enough_input(b, 1) THEN DecodeError
      ELSE IF b[1] < 251 THEN DecodeFixedInt(b, 1)
      ELSE CASE b[1] = 252 -> wide(2)
             [] b[1] = 253 -> wide(3)
             [] b[1] = 254 -> wide(8)
             [] OTHER -> DecodeError

DecodeNull(b) ==
  IF not_enough_input(b, 1) \/ Head(b) # 251 THEN DecodeError ELSE Got({}, b, 1)

\* Codec<String>, on the whole buffer or on the first n bytes of it
DecodeRest(b) == Got(b, b, Len(b))

DecodeString(b, n) ==
  IF not_enough_input(b, n) THEN DecodeError ELSE Got(SubSeq(b, 1, n), b, n)

\* l: the size that has been decoded in front of a string
DecodeSized(l) ==
  IF ~l.ok \/ ~FitsBytes(l.v, 3) THEN DecodeError ELSE DecodeString(l.rest, Int2Nat(l.v))

DecodeVarString(b) == DecodeSized(DecodeVarInt(b))

DecodeSizedString(b, n) == DecodeSized(DecodeFixedInt(b, n))

DecodeNulTermString(b) ==
  LET zeros == {i \in DOMAIN b : b[i] = 0}
  IN  IF zeros = {} THEN DecodeError
      ELSE Got(SubSeq(b, 1, Min(zeros) - 1), b, Min(zeros))

\* Wire types as the argument of a step.
int(n) == [t |-> "int", n |-> n]
flags(n) == [t |-> "flags", n |-> n]
str(n) == [t |-> "str", n |-> n]
sizedstr(n) == [t |-> "sizedstr", n |-> n]
varint == [t |-> "varint"]
varstr == [t |-> "varstr"]
nulstr == [t |-> "nulstr"]
rest == [t |-> "rest"]
null == [t |-> "null"]

AsFlags(r) == IF r.ok THEN [r EXCEPT !.v = BitsOf(r.v)] ELSE r

DecodeWire(w, b) ==
  CASE w.t = "int" -> DecodeFixedInt(b, w.n)
    [] w.t = "flags" -> AsFlags(DecodeString(b, w.n))
    [] w.t = "str" -> DecodeString(b, w.n)
    [] w.t = "sizedstr" -> DecodeSizedString(b, w.n)
    [] w.t = "varint" -> DecodeVarInt(b)
    [] w.t = "varstr" -> DecodeVarString(b)
    [] w.t = "nulstr" -> DecodeNulTermString(b)
    [] w.t = "rest" -> DecodeRest(b)
    [] w.t = "null" -> DecodeNull(b)

\* A decode accumulator: v is the message under construction, its fields
\* start with their default values.
Start(b, defaults) == [ok |-> TRUE, rest |-> b, v |-> defaults]

\* r: what has been decoded for the field
Stepped(a, field, r) ==
  IF ~r.ok THEN [a EXCEPT !.ok = FALSE]
  ELSE [ok |-> TRUE, rest |-> r.rest,
        v |-> IF field = "" THEN a.v ELSE [a.v EXCEPT ![field] = r.v]]

Step(a, field, w) == IF ~a.ok THEN a ELSE Stepped(a, field, DecodeWire(w, a.rest))

\* A failed try_step is not an error of the accumulator.
Tried(a, step) == IF step.ok THEN step ELSE a

TryStep(a, field, w) == Tried(a, Step(a, field, w))

\* What follows a try_step that has found its field.
Followed(a, tried, more(_)) == IF tried = a THEN a ELSE more(tried)

TryStepThen(a, field, w, more(_)) == Followed(a, TryStep(a, field, w), more)

Steps(a, fields) == FoldLeft(LAMBDA x, f : Step(x, f[1], f[2]), a, fields)

StepsIf(a, c, fields) == IF a.ok /\ c THEN Steps(a, fields) ELSE a

\* The condition is on what has been decoded.
StepsWhen(a, c(_), fields) == StepsIf(a, c(a), fields)

\* An early return of invalid_input.
Require(a, c) == IF a.ok /\ ~c THEN [a EXCEPT !.ok = FALSE] ELSE a

RequireThat(a, c(_)) == Require(a, c(a))

\* The message without the variables of its decoder.
WithFieldsOf(a, message) == [a EXCEPT !.v = [f \in DOMAIN message |-> a.v[f]]]

\* The command byte most messages start with.
Commanded(a, cmd, c) ==
  IF ~c.ok \/ c.v # Nat2Int(cmd) THEN [a EXCEPT !.ok = FALSE] ELSE [a EXCEPT !.rest = c.rest]

Command(b, cmd, defaults) == Commanded(Start(b, defaults), cmd, DecodeFixedInt(b, 1))

-----------------------------------------------------------------------------
(* Frames: a payload after its size and a sequence number *)

EncodeHeader(h) == FixedInt(3, h.payload_size) \o FixedInt(1, h.seq_id)

DecodeHeader(b) ==
  Steps(Start(b, [payload_size |-> << >>, seq_id |-> << >>]),
        << <<"payload_size", int(3)>>, <<"seq_id", int(1)>> >>)

EncodeCompressedHeader(h) == EncodeHeader(h) \o FixedInt(3, h.uncompressed_size)

DecodeCompressedHeader(b) ==
  Steps(Start(b, [payload_size |-> << >>, seq_id |-> << >>, uncompressed_size |-> << >>]),
        << <<"payload_size", int(3)>>, <<"seq_id", int(1)>>, <<"uncompressed_size", int(3)>> >>)

EncodeFrame(seq_id, payload) ==
  EncodeHeader([payload_size |-> Nat2Int(Len(payload)), seq_id |-> seq_id]) \o payload

\* The payload, which the codec of a message decodes, and what follows it.
DecodePayload(b, h, n) ==
  IF ~h.ok \/ not_enough_input(b, 4 + n) THEN DecodeError
  ELSE Got([seq_id |-> h.v.seq_id, payload |-> SubSeq(b, 5, 4 + n)], b, 4 + n)

DecodeBehindHeader(b, h) == DecodePayload(b, h, Int2Nat(h.v.payload_size))

DecodeFrame(b) == DecodeBehindHeader(b, DecodeHeader(b))

=============================================================================
