------------------------------- MODULE Bytes --------------------------------
(* Unsigned integers of any width: little-endian byte sequences without a    *)
(* zero last byte, so that 0 is << >> and 256 is <<0, 1>>.                   *)
EXTENDS Integers, SequencesExt

Byte == 0 .. 255

\* The integer whose little-endian bytes are b.
Value(b) == SubSeq(b, 1, Max({0} \cup {i \in DOMAIN b : b[i] # 0}))

\* The low n bytes of an integer.
Low(v, n) == [i \in 1 .. n |-> IF i <= Len(v) THEN v[i] ELSE 0]

FitsBytes(v, n) == Len(v) <= n

\* n < 2^31
Nat2Int(n) == Value(<<n % 256, (n \div 256) % 256, (n \div 65536) % 256,
                      n \div 16777216>>)

\* v < 2^31
Int2Nat(v) == LET b == Low(v, 4)
              IN  b[1] + 256 * b[2] + 65536 * b[3] + 16777216 * b[4]

Plus(v, w) ==
  LET n == Max({Len(v), Len(w)}) + 1
      a == Low(v, n)
      b == Low(w, n)
      carry[i \in 0 .. n] == IF i = 0 THEN 0 ELSE (a[i] + b[i] + carry[i - 1]) \div 256
  IN  Value([i \in 1 .. n |-> (a[i] + b[i] + carry[i - 1]) % 256])

\* FoldLeft, FlattenSeq and the sum of a sequence, evaluated without a deep
\* recursion over sets of indices.
FoldSteps(op(_, _), base, s) ==
  LET RECURSIVE fold(_, _, _)
      fold(v, l, h) ==
        IF l > h THEN v
        ELSE IF l = h THEN op(v, s[l])
        ELSE CHOOSE x \in {fold(y, (l + h) \div 2 + 1, h) : y \in {fold(v, l, (l + h) \div 2)}} : TRUE
  IN  fold(base, 1, Len(s))

Joined(ss) ==
  LET j[l, h \in DOMAIN ss] ==
        IF l = h THEN ss[l] ELSE j[l, (l + h) \div 2] \o j[(l + h) \div 2 + 1, h]
  IN  IF ss = << >> THEN << >> ELSE j[1, Len(ss)]

Total(ns) ==
  LET t[l, h \in DOMAIN ns] ==
        IF l = h THEN ns[l] ELSE t[l, (l + h) \div 2] + t[(l + h) \div 2 + 1, h]
  IN  IF ns = << >> THEN 0 ELSE t[1, Len(ns)]

AllOnes(n) == [i \in 1 .. n |-> 255]

\* Shifts by k < 8 bits.
ShiftRight(v, k) ==
  Value([i \in DOMAIN v |-> (v[i] \div 2^k)
           + IF i < Len(v) THEN (v[i + 1] * 2^(8 - k)) % 256 ELSE 0])

ShiftLeft(v, k) ==
  LET b == Low(v, Len(v) + 1)
  IN  Value([i \in DOMAIN b |-> ((b[i] * 2^k) % 256)
               + IF i > 1 THEN b[i - 1] \div 2^(8 - k) ELSE 0])

BitWidth(v) ==
  IF v = << >> THEN 0
  ELSE 8 * (Len(v) - 1) + Min({w \in 1 .. 8 : v[Len(v)] < 2^w})

\* v < w
LessInt(v, w) ==
  \/ Len(v) < Len(w)
  \/ /\ Len(v) = Len(w)
     /\ \E i \in DOMAIN v : v[i] < w[i] /\ \A j \in i + 1 .. Len(v) : v[j] = w[j]

\* The integer whose set bits are the positions in S, in n bytes.
BitBytes(S, n) ==
  [i \in 1 .. n |-> MapThenSumSet(LAMBDA b : 2^(b % 8), {b \in S : b \div 8 = i - 1})]

BitsOf(b) == {p \in 0 .. 8 * Len(b) - 1 : (b[p \div 8 + 1] \div 2^(p % 8)) % 2 = 1}

=============================================================================
