------------------------------ MODULE ByteSpan ------------------------------
(* util/byte_span_inserters.hpp and util/byte_span_extractors.hpp: integers  *)
(* and byte arrays written to, and read from, a span that shrinks as it is   *)
(* used.  A writer is the room left with the bytes written so far, a reader  *)
(* the bytes left with the last value; a failed step leaves ok FALSE, which  *)
(* is the checked form's exception.                                          *)
EXTENDS Bytes

-----------------------------------------------------------------------------
(* Inserters *)

Writer(room) == [ok |-> TRUE, room |-> room, bytes |-> << >>]

insert_byte_span_to_byte_span(w, b) ==
  IF ~w.ok \/ Len(b) > w.room THEN [w EXCEPT !.ok = FALSE]
  ELSE [ok |-> TRUE, room |-> w.room - Len(b), bytes |-> w.bytes \o b]

insert_fixed_int_to_byte_span(w, v, n) ==
  insert_byte_span_to_byte_span(w, Low(v, n))

calculate_packed_int_size(v) ==
  IF v = << >> \/ (Len(v) = 1 /\ v[1] < 251) THEN 1
  ELSE IF Len(v) <= 2 THEN 3 ELSE IF Len(v) = 3 THEN 4 ELSE 9

insert_packed_int_to_byte_span(w, v) ==
  LET n == calculate_packed_int_size(v)
      marker == CASE n = 3 -> <<252>> [] n = 4 -> <<253>> [] n = 9 -> <<254>>
                  [] OTHER -> << >>
  IN  insert_byte_span_to_byte_span(w, marker \o Low(v, n - Len(marker)))

calculate_varlen_int_size(v) == ((BitWidth(v) * 575) \div 4096) + 1

varlen_int(v) ==
  LET n == calculate_varlen_int_size(v)
      first == (2^(n - 1) - 1) + ((Low(v, 1)[1] * 2^n) % 256)
      tail == IF n < 8 THEN ShiftRight(v, 8 - n) ELSE v
  IN  <<first % 256>> \o Low(tail, n - 1)

insert_varlen_int_to_byte_span(w, v) == insert_byte_span_to_byte_span(w, varlen_int(v))

\* d - 1, for d > 0
Decremented(d) ==
  LET k == Min({i \in DOMAIN d : d[i] # 0})
  IN  Value([i \in DOMAIN d |-> IF i < k THEN 255 ELSE IF i = k THEN d[i] - 1 ELSE d[i]])

\* Signed integers are [neg, mag], the value is -mag when neg.
get_signed_representation_as_unsigned(s) ==
  IF s.neg THEN Decremented(ShiftLeft(s.mag, 1)) ELSE ShiftLeft(s.mag, 1)

-----------------------------------------------------------------------------
(* Extractors *)

Reader(b) == [ok |-> TRUE, rest |-> b, v |-> << >>]

ReadFailed(r) == [r EXCEPT !.ok = FALSE]

extract_byte_span_from_byte_span(r, n) ==
  IF ~r.ok \/ Len(r.rest) < n THEN ReadFailed(r)
  ELSE [ok |-> TRUE, rest |-> SubSeq(r.rest, n + 1, Len(r.rest)),
        v |-> SubSeq(r.rest, 1, n)]

\* The bytes that were read, as an integer.
AsInteger(x) == IF x.ok THEN [x EXCEPT !.v = Value(@)] ELSE x

extract_fixed_int_from_byte_span(r, n) == AsInteger(extract_byte_span_from_byte_span(r, n))

\* r: where the integer starts; x: behind its first byte
AfterFirstByte(r, x) ==
  LET first == x.v[1]
  IN  IF ~x.ok \/ first = 251 THEN ReadFailed(r)
      ELSE IF first = 255 THEN [x EXCEPT !.v = AllOnes(8)]
      ELSE IF first < 251 THEN AsInteger(x)
      ELSE extract_fixed_int_from_byte_span(x, CASE first = 252 -> 2
                                                 [] first = 253 -> 3
                                                 [] first = 254 -> 8)

extract_packed_int_from_byte_span(r) ==
  AfterFirstByte(r, extract_byte_span_from_byte_span(r, 1))

CountrOne(b) == Max({k \in 0 .. 8 : b % 2^k = 2^k - 1})

\* high is shifted: there is room for low in its first byte.
Combined(high, low) == Value([Low(high, Max({Len(high), 1})) EXCEPT ![1] = @ + low])

\* The integer of n bytes: low from its first byte, high from the others, which
\* t has read; limit: the number of bytes of the target type.
VarlenValue(r, t, low, high, limit) ==
  IF ~t.ok \/ ~FitsBytes(high, limit) THEN ReadFailed(r) ELSE [t EXCEPT !.v = Combined(high, low)]

VarlenRest(r, t, low, n, limit) ==
  VarlenValue(r, t, low, IF n < 8 THEN ShiftLeft(t.v, 8 - n) ELSE t.v, limit)

VarlenTail(r, x, n, limit) ==
  IF n = 1 THEN [x EXCEPT !.v = Value(<<x.v[1] \div 2>>)]
  ELSE VarlenRest(r, extract_fixed_int_from_byte_span(x, n - 1),
                  IF n >= 8 THEN 0 ELSE x.v[1] \div 2^n, n, limit)

VarlenFirst(r, x, limit) ==
  IF x.ok THEN VarlenTail(r, x, CountrOne(x.v[1]) + 1, limit) ELSE ReadFailed(r)

extract_varlen_int_from_byte_span(r, limit) ==
  VarlenFirst(r, extract_byte_span_from_byte_span(r, 1), limit)

\* h + 1
Incremented(h) ==
  LET k == Min({i \in 1 .. Len(h) + 1 : i > Len(h) \/ h[i] # 255})
  IN  Value([i \in 1 .. Max({Len(h), k}) |->
               IF i < k THEN 0 ELSE IF i = k THEN Low(h, k)[k] + 1 ELSE h[i]])

get_unsigned_representation_as_signed(v) ==
  IF v = << >> \/ v[1] % 2 = 0 THEN [neg |-> FALSE, mag |-> ShiftRight(v, 1)]
  ELSE [neg |-> TRUE, mag |-> Incremented(ShiftRight(v, 1))]

=============================================================================
