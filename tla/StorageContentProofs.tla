------------------------ MODULE StorageContentProofs -------------------------
(****************************************************************************)
(* Theorems about what the metadata of the storage says of the payloads,    *)
(* for every set of names, events and gtids, every checkpoint setting,      *)
(* either backend, and any number of kills and of failing backend calls:    *)
(* the metadata of a file describes the transactions in it, and the gtids   *)
(* the storage reports to the server are those of its files.                *)
(****************************************************************************)
EXTENDS StorageFilesProofs

\* The range is the tight one of the timestamps of the events.
IsRange(r, s) ==
  IF Timestamps(s) = {} THEN r = EmptyRange
  ELSE /\ {r.min, r.max} \subseteq Timestamps(s)
       /\ \A t \in Timestamps(s) : r.min <= t /\ t <= r.max

\* The last sequence number after the events of s, when it was base before them.
SeqAfter(base, s, seq) ==
  \/ seq = base /\ \A i \in DOMAIN s : s[i].seq = 0
  \/ \E i \in DOMAIN s : /\ s[i].seq = seq /\ seq # 0
                         /\ \A j \in i + 1 .. Len(s) : s[j].seq = 0

Describes(m, p) ==
  /\ ReplicationMode = "gtid" => m.added = CompletedGtids(p)
  /\ IsRange(m.ts, p)
  /\ SeqAfter(0, p, m.seq)

-----------------------------------------------------------------------------
(* Facts about the operators *)

\* The elements of a concatenation are those of its parts.
LEMMA ConcatElements ==
  ASSUME NEW s \in Seq(Event), NEW d \in Seq(Event)
  PROVE  /\ s \o d \in Seq(Event) /\ Len(s \o d) = Len(s) + Len(d)
         /\ Len(s) \in Nat /\ Len(d) \in Nat
         /\ DOMAIN s = 1 .. Len(s) /\ DOMAIN d = 1 .. Len(d)
         /\ DOMAIN (s \o d) = 1 .. Len(s) + Len(d)
         /\ \A i \in 1 .. Len(s) : (s \o d)[i] = s[i]
         /\ \A i \in 1 .. Len(d) : (s \o d)[Len(s) + i] = d[i]
         /\ \A i \in 1 .. Len(s) + Len(d) :
              \/ i \in 1 .. Len(s) /\ (s \o d)[i] = s[i]
              \/ i - Len(s) \in 1 .. Len(d) /\ (s \o d)[i] = d[i - Len(s)]
OBVIOUS

LEMMA ConcatGtids ==
  ASSUME NEW s \in Seq(Event), NEW d \in Seq(Event)
  PROVE  CompletedGtids(s \o d) = CompletedGtids(s) \cup CompletedGtids(d)
<1> DEFINE c == s \o d
<1>1. /\ DOMAIN s = 1 .. Len(s) /\ DOMAIN d = 1 .. Len(d) /\ DOMAIN c = 1 .. Len(s) + Len(d)
      /\ Len(s) \in Nat /\ Len(d) \in Nat
      /\ \A i \in 1 .. Len(s) : c[i] = s[i]
      /\ \A i \in 1 .. Len(d) : c[Len(s) + i] = d[i]
      /\ \A i \in 1 .. Len(s) + Len(d) :
           \/ i \in 1 .. Len(s) /\ c[i] = s[i]
           \/ i - Len(s) \in 1 .. Len(d) /\ c[i] = d[i - Len(s)]
  BY ConcatElements
<1> HIDE DEF c
<1>2. ASSUME NEW g \in CompletedGtids(c)
      PROVE  g \in CompletedGtids(s) \cup CompletedGtids(d)
  <2>1. PICK i \in DOMAIN c : c[i].boundary /\ c[i].gtid = g /\ g # NoGtid
    BY DEF CompletedGtids
  <2>2. CASE i \in 1 .. Len(s) /\ c[i] = s[i]
    BY <1>1, <2>1, <2>2 DEF CompletedGtids
  <2>3. CASE i - Len(s) \in 1 .. Len(d) /\ c[i] = d[i - Len(s)]
    BY <1>1, <2>1, <2>3 DEF CompletedGtids
  <2> QED BY <1>1, <2>2, <2>3
<1>3. ASSUME NEW g \in CompletedGtids(s)
      PROVE  g \in CompletedGtids(c)
  <2>1. PICK i \in DOMAIN s : s[i].boundary /\ s[i].gtid = g /\ g # NoGtid
    BY DEF CompletedGtids
  <2>2. i \in DOMAIN c /\ c[i] = s[i]
    BY <1>1
  <2> QED BY <2>1, <2>2 DEF CompletedGtids
<1>4. ASSUME NEW g \in CompletedGtids(d)
      PROVE  g \in CompletedGtids(c)
  <2>1. PICK i \in DOMAIN d : d[i].boundary /\ d[i].gtid = g /\ g # NoGtid
    BY DEF CompletedGtids
  <2>2. Len(s) + i \in DOMAIN c /\ c[Len(s) + i] = d[i]
    BY <1>1
  <2> QED BY <2>1, <2>2 DEF CompletedGtids
<1> QED BY <1>2, <1>3, <1>4 DEF c

LEMMA ConcatTimestamps ==
  ASSUME NEW s \in Seq(Event), NEW d \in Seq(Event)
  PROVE  Timestamps(s \o d) = Timestamps(s) \cup Timestamps(d)
<1> DEFINE c == s \o d
<1>1. /\ DOMAIN s = 1 .. Len(s) /\ DOMAIN d = 1 .. Len(d) /\ DOMAIN c = 1 .. Len(s) + Len(d)
      /\ Len(s) \in Nat /\ Len(d) \in Nat
      /\ \A i \in 1 .. Len(s) : c[i] = s[i]
      /\ \A i \in 1 .. Len(d) : c[Len(s) + i] = d[i]
      /\ \A i \in 1 .. Len(s) + Len(d) :
           \/ i \in 1 .. Len(s) /\ c[i] = s[i]
           \/ i - Len(s) \in 1 .. Len(d) /\ c[i] = d[i - Len(s)]
  BY ConcatElements
<1> HIDE DEF c
<1>2. ASSUME NEW t \in Timestamps(c)
      PROVE  t \in Timestamps(s) \cup Timestamps(d)
  <2>1. PICK i \in DOMAIN c : c[i].ts = t /\ t # 0
    BY DEF Timestamps
  <2>2. CASE i \in 1 .. Len(s) /\ c[i] = s[i]
    BY <1>1, <2>1, <2>2 DEF Timestamps
  <2>3. CASE i - Len(s) \in 1 .. Len(d) /\ c[i] = d[i - Len(s)]
    BY <1>1, <2>1, <2>3 DEF Timestamps
  <2> QED BY <1>1, <2>2, <2>3
<1>3. ASSUME NEW t \in Timestamps(s)
      PROVE  t \in Timestamps(c)
  <2>1. PICK i \in DOMAIN s : s[i].ts = t /\ t # 0
    BY DEF Timestamps
  <2>2. i \in DOMAIN c /\ c[i] = s[i]
    BY <1>1
  <2> QED BY <2>1, <2>2 DEF Timestamps
<1>4. ASSUME NEW t \in Timestamps(d)
      PROVE  t \in Timestamps(c)
  <2>1. PICK i \in DOMAIN d : d[i].ts = t /\ t # 0
    BY DEF Timestamps
  <2>2. Len(s) + i \in DOMAIN c /\ c[Len(s) + i] = d[i]
    BY <1>1
  <2> QED BY <2>1, <2>2 DEF Timestamps
<1> QED BY <1>2, <1>3, <1>4 DEF c

LEMMA TimestampsAreNumbers ==
  ASSUME NEW s \in Seq(Event)
  PROVE  Timestamps(s) \subseteq Nat \ {0}
<1>1. \A i \in DOMAIN s : s[i] \in Event
  OBVIOUS
<1>2. \A i \in DOMAIN s : s[i].ts \in Nat
  BY <1>1, StorageAssumption DEF Event
<1> QED BY <1>2 DEF Timestamps

\* Adding ranges: ctime_timestamp_range::add_range gives the range of both parts.
LEMMA ConcatRange ==
  ASSUME NEW s \in Seq(Event), NEW d \in Seq(Event),
         NEW r \in TimestampRange, NEW q \in TimestampRange,
         IsRange(r, s), IsRange(q, d)
  PROVE  IsRange(add_range(r, q), s \o d)
<1> DEFINE S == Timestamps(s)
           D == Timestamps(d)
<1>1. S \subseteq Nat \ {0} /\ D \subseteq Nat \ {0}
  BY TimestampsAreNumbers
<1>2. Timestamps(s \o d) = S \cup D
  BY ConcatTimestamps
<1>3. /\ r.min \in Nat /\ r.max \in Nat /\ q.min \in Nat /\ q.max \in Nat
      /\ r = [min |-> r.min, max |-> r.max] /\ q = [min |-> q.min, max |-> q.max]
  BY DEF TimestampRange
<1>4. /\ S = {} => r = EmptyRange
      /\ S # {} => r.min \in S /\ r.max \in S /\ \A t \in S : r.min <= t /\ t <= r.max
      /\ D = {} => q = EmptyRange
      /\ D # {} => q.min \in D /\ q.max \in D /\ \A t \in D : q.min <= t /\ t <= q.max
  BY DEF IsRange
<1> HIDE DEF S, D
<1> DEFINE a == add_range(r, q)
<1>5. /\ S \cup D = {} => a = EmptyRange
      /\ S \cup D # {} => a.min \in S \cup D /\ a.max \in S \cup D
                         /\ \A t \in S \cup D : a.min <= t /\ t <= a.max
  <2>1. CASE D = {}
    <3>1. q.min = 0
      BY <1>4, <2>1 DEF EmptyRange
    <3>2. a = r
      BY <3>1 DEF add_range
    <3> QED BY <1>4, <2>1, <3>2
  <2>2. CASE D # {} /\ S = {}
    <3>1. r.min = 0 /\ q.min # 0 /\ q.max # 0 /\ q.min <= q.max
      <4>1. r.min = 0
        BY <1>4, <2>2 DEF EmptyRange
      <4>2. q.min \in D /\ q.max \in D /\ q.min <= q.max
        BY <1>4, <2>2
      <4> QED BY <1>1, <4>1, <4>2
    <3>2. a = [min |-> q.min, max |-> q.max]
      BY <1>3, <3>1 DEF add_range, add_timestamp
    <3> QED BY <1>4, <2>2, <3>2
  <2>3. CASE D # {} /\ S # {}
    <3>1. r.min # 0 /\ q.min # 0 /\ q.max # 0 /\ q.min <= q.max /\ r.min <= r.max
      BY <1>1, <1>4, <2>3
    <3>2. /\ a.min = (IF q.min < r.min THEN q.min ELSE r.min)
          /\ a.max = (IF q.max > r.max THEN q.max ELSE r.max)
      BY <1>3, <3>1 DEF add_range, add_timestamp
    <3>3. \A t \in S \cup D : t \in Nat
      BY <1>1
    <3>4. a.min \in S \cup D /\ a.max \in S \cup D
      BY <1>4, <2>3, <3>2
    <3>5. \A t \in S \cup D : a.min <= t /\ t <= a.max
      BY <1>3, <1>4, <2>3, <3>2, <3>3
    <3> QED BY <3>4, <3>5, <2>3
  <2> QED BY <2>1, <2>2, <2>3
<1> QED BY <1>2, <1>5 DEF IsRange

\* The same for one timestamp: ctime_timestamp_range::add_timestamp.
LEMMA AppendRange ==
  ASSUME NEW s \in Seq(Event), NEW e \in Event, NEW r \in TimestampRange, IsRange(r, s)
  PROVE  IsRange(add_timestamp(r, e.ts), s \o <<e>>)
<1> DEFINE S == Timestamps(s)
           t == e.ts
<1>1. S \subseteq Nat \ {0} /\ t \in Nat
  BY TimestampsAreNumbers, StorageAssumption DEF Event
<1>2. Timestamps(s \o <<e>>) = S \cup ({t} \ {0})
  <2>1. <<e>> \in Seq(Event) /\ DOMAIN <<e>> = {1} /\ <<e>>[1] = e
    OBVIOUS
  <2>2. Timestamps(<<e>>) = {t} \ {0}
    BY <2>1 DEF Timestamps
  <2> QED BY <2>1, <2>2, ConcatTimestamps
<1>3. r.min \in Nat /\ r.max \in Nat /\ r = [min |-> r.min, max |-> r.max]
  BY DEF TimestampRange
<1>4. /\ S = {} => r = EmptyRange
      /\ S # {} => r.min \in S /\ r.max \in S /\ \A u \in S : r.min <= u /\ u <= r.max
  BY DEF IsRange
<1> HIDE DEF S, t
<1> DEFINE a == add_timestamp(r, t)
<1>5. CASE t = 0
  <2>1. a = r
    BY <1>5 DEF add_timestamp
  <2> QED BY <1>2, <1>4, <1>5, <2>1 DEF IsRange, t
<1>6. CASE t # 0 /\ S = {}
  <2>1. a = [min |-> t, max |-> t]
    BY <1>4, <1>6 DEF add_timestamp, EmptyRange
  <2>2. Timestamps(s \o <<e>>) = {t}
    BY <1>2, <1>6
  <2> QED BY <1>1, <2>1, <2>2 DEF IsRange, t
<1>7. CASE t # 0 /\ S # {}
  <2>1. r.min # 0
    BY <1>1, <1>4, <1>7
  <2>2. /\ a.min = (IF t < r.min THEN t ELSE r.min)
        /\ a.max = (IF t > r.max THEN t ELSE r.max)
    BY <1>7, <2>1 DEF add_timestamp
  <2>3. Timestamps(s \o <<e>>) = S \cup {t}
    BY <1>2, <1>7
  <2>4. a.min \in S \cup {t} /\ a.max \in S \cup {t}
    BY <1>4, <1>7, <2>2
  <2>5. \A u \in S \cup {t} : a.min <= u /\ u <= a.max
    BY <1>1, <1>3, <1>4, <1>7, <2>2
  <2> QED BY <2>3, <2>4, <2>5 DEF IsRange, t
<1> QED BY <1>5, <1>6, <1>7

\* Sequence numbers go on from part to part.
LEMMA ConcatSeq ==
  ASSUME NEW s \in Seq(Event), NEW d \in Seq(Event), NEW b, NEW m, NEW q,
         SeqAfter(b, s, m), SeqAfter(m, d, q)
  PROVE  SeqAfter(b, s \o d, q)
<1> DEFINE c == s \o d
<1>1. /\ DOMAIN s = 1 .. Len(s) /\ DOMAIN d = 1 .. Len(d) /\ DOMAIN c = 1 .. Len(s) + Len(d)
      /\ Len(s) \in Nat /\ Len(d) \in Nat /\ Len(c) = Len(s) + Len(d)
      /\ \A i \in 1 .. Len(s) : c[i] = s[i]
      /\ \A i \in 1 .. Len(d) : c[Len(s) + i] = d[i]
      /\ \A i \in 1 .. Len(s) + Len(d) :
           \/ i \in 1 .. Len(s) /\ c[i] = s[i]
           \/ i - Len(s) \in 1 .. Len(d) /\ c[i] = d[i - Len(s)]
  BY ConcatElements
<1> HIDE DEF c
<1>2. CASE \E i \in DOMAIN d : /\ d[i].seq = q /\ q # 0
                               /\ \A j \in i + 1 .. Len(d) : d[j].seq = 0
  <2>1. PICK i \in DOMAIN d : /\ d[i].seq = q /\ q # 0
                              /\ \A j \in i + 1 .. Len(d) : d[j].seq = 0
    BY <1>2
  <2>2. Len(s) + i \in DOMAIN c /\ c[Len(s) + i].seq = q
    BY <1>1, <2>1
  <2>3. ASSUME NEW j \in Len(s) + i + 1 .. Len(c) PROVE c[j].seq = 0
    <3>1. j - Len(s) \in i + 1 .. Len(d) /\ j - Len(s) \in 1 .. Len(d)
      BY <1>1
    <3>2. c[j] = d[j - Len(s)]
      BY <1>1
    <3> QED BY <2>1, <3>1, <3>2
  <2> QED BY <2>1, <2>2, <2>3 DEF SeqAfter, c
<1>3. CASE q = m /\ \A i \in DOMAIN d : d[i].seq = 0
  <2>1. CASE m = b /\ \A i \in DOMAIN s : s[i].seq = 0
    <3>1. ASSUME NEW i \in DOMAIN c PROVE c[i].seq = 0
      <4>1. CASE i \in 1 .. Len(s) /\ c[i] = s[i]
        BY <1>1, <2>1, <4>1
      <4>2. CASE i - Len(s) \in 1 .. Len(d) /\ c[i] = d[i - Len(s)]
        BY <1>1, <1>3, <4>2
      <4> QED BY <1>1, <4>1, <4>2
    <3> QED BY <1>3, <2>1, <3>1 DEF SeqAfter, c
  <2>2. CASE \E i \in DOMAIN s : /\ s[i].seq = m /\ m # 0
                                 /\ \A j \in i + 1 .. Len(s) : s[j].seq = 0
    <3>1. PICK i \in DOMAIN s : /\ s[i].seq = m /\ m # 0
                                /\ \A j \in i + 1 .. Len(s) : s[j].seq = 0
      BY <2>2
    <3>2. i \in DOMAIN c /\ c[i].seq = q /\ q # 0
      BY <1>1, <1>3, <3>1
    <3>3. ASSUME NEW j \in i + 1 .. Len(c) PROVE c[j].seq = 0
      <4>1. CASE j \in 1 .. Len(s)
        <5>1. j \in i + 1 .. Len(s) /\ c[j] = s[j]
          BY <1>1, <4>1
        <5> QED BY <3>1, <5>1
      <4>2. CASE j \notin 1 .. Len(s)
        <5>1. j - Len(s) \in DOMAIN d /\ c[j] = d[j - Len(s)]
          BY <1>1, <4>2
        <5> QED BY <1>3, <5>1
      <4> QED BY <4>1, <4>2
    <3> QED BY <3>2, <3>3 DEF SeqAfter, c
  <2> QED BY <2>1, <2>2 DEF SeqAfter
<1> QED BY <1>2, <1>3 DEF SeqAfter

\* No event, one event, and the same events once more.
LEMMA SeqFacts ==
  /\ \A b : SeqAfter(b, << >>, b)
  /\ \A b, s, q : SeqAfter(b, s, q) => SeqAfter(q, s, q)
  /\ \A b : \A e \in Event : SeqAfter(b, <<e>>, IF e.seq # 0 THEN e.seq ELSE b)
<1>1. \A b : SeqAfter(b, << >>, b)
  BY DEF SeqAfter
<1>2. \A b, s, q : SeqAfter(b, s, q) => SeqAfter(q, s, q)
  BY DEF SeqAfter
<1>3. ASSUME NEW b, NEW e \in Event
      PROVE  SeqAfter(b, <<e>>, IF e.seq # 0 THEN e.seq ELSE b)
  <2>1. DOMAIN <<e>> = {1} /\ <<e>>[1] = e /\ Len(<<e>>) = 1
    OBVIOUS
  <2>2. CASE e.seq = 0
    BY <2>1, <2>2 DEF SeqAfter
  <2>3. CASE e.seq # 0
    <3>1. \A j \in 1 + 1 .. Len(<<e>>) : FALSE
      BY <2>1
    <3> QED BY <2>1, <2>3, <3>1 DEF SeqAfter
  <2> QED BY <2>2, <2>3
<1> QED BY <1>1, <1>2, <1>3

-----------------------------------------------------------------------------
(* What the variables of the event buffer say of the events in it *)

\* The events behind the last transaction boundary.
Rest == SubSeq(event_buffer, boundary + 1, Len(event_buffer))

\* The gtids and the time ranges of the two parts of the buffer are exact.
BufInv ==
  /\ \A i \in DOMAIN Rest : ~Rest[i].boundary
  /\ ReplicationMode = "gtid" => gtids_in_event_buffer = CompletedGtids(ReadyEvents)
  /\ IsRange(ready_ts, ReadyEvents)
  /\ IsRange(incomplete_ts, Rest)

\* So are the sequence numbers, which go on from those of the file.
SeqInv ==
  /\ pc \in {"ready"} \cup Flushing /\ stream # NoName =>
       /\ SeqAfter(current.seq, ReadyEvents, ready_seq)
       /\ SeqAfter(ready_seq, Rest, incomplete_seq)
  /\ pc = "flush_meta" => current.seq = ready_seq

\* A sequence cut in two.
LEMMA CutFacts ==
  ASSUME NEW s \in Seq(Event), NEW k \in 0 .. Len(s)
  PROVE  /\ SubSeq(s, 1, k) \in Seq(Event) /\ SubSeq(s, k + 1, Len(s)) \in Seq(Event)
         /\ SubSeq(s, 1, 0) = << >> /\ SubSeq(s, Len(s) + 1, Len(s)) = << >>
         /\ SubSeq(s, 1, Len(s)) = s
<1>1. SubSeq(s, 1, k) \in Seq(Event) /\ SubSeq(s, k + 1, Len(s)) \in Seq(Event)
  OBVIOUS
<1>2. SubSeq(s, 1, 0) = << >> /\ SubSeq(s, Len(s) + 1, Len(s)) = << >>
  OBVIOUS
<1>3. SubSeq(s, 1, Len(s)) = s
  OBVIOUS
<1> QED BY <1>1, <1>2, <1>3

LEMMA SeqEqual ==
  ASSUME NEW s \in Seq(Event), NEW t \in Seq(Event), Len(s) = Len(t),
         \A i \in 1 .. Len(s) : s[i] = t[i]
  PROVE  s = t
OBVIOUS

\* What an event that is appended does to the parts.
LEMMA AppendToCut ==
  ASSUME NEW s \in Seq(Event), NEW k \in 0 .. Len(s), NEW e \in Event
  PROVE  /\ SubSeq(Append(s, e), 1, k) = SubSeq(s, 1, k)
         /\ SubSeq(Append(s, e), k + 1, Len(Append(s, e)))
              = SubSeq(s, k + 1, Len(s)) \o <<e>>
         /\ SubSeq(Append(s, e), 1, Len(s) + 1)
              = SubSeq(s, 1, k) \o (SubSeq(s, k + 1, Len(s)) \o <<e>>)
         /\ SubSeq(Append(s, e), Len(s) + 1 + 1, Len(Append(s, e))) = << >>
<1> DEFINE a == Append(s, e)
           r == SubSeq(s, 1, k)
           t == SubSeq(s, k + 1, Len(s))
           u == t \o <<e>>
           n == Len(s)
<1>1. /\ a \in Seq(Event) /\ Len(a) = n + 1 /\ a[n + 1] = e
      /\ \A i \in 1 .. n : a[i] = s[i]
      /\ n \in Nat /\ k \in Nat /\ k <= n
  OBVIOUS
<1>2. r \in Seq(Event) /\ Len(r) = k /\ \A i \in 1 .. k : r[i] = s[i]
  OBVIOUS
<1>3. t \in Seq(Event) /\ Len(t) = n - k /\ \A i \in 1 .. n - k : t[i] = s[k + i]
  OBVIOUS
<1>4. <<e>> \in Seq(Event) /\ Len(<<e>>) = 1 /\ <<e>>[1] = e
  OBVIOUS
<1>5. /\ u \in Seq(Event) /\ Len(u) = n - k + 1
      /\ \A i \in 1 .. n - k : u[i] = s[k + i]
      /\ u[n - k + 1] = e
  <2>1. /\ t \o <<e>> \in Seq(Event) /\ Len(t \o <<e>>) = Len(t) + Len(<<e>>)
        /\ \A i \in 1 .. Len(t) : (t \o <<e>>)[i] = t[i]
        /\ \A i \in 1 .. Len(<<e>>) : (t \o <<e>>)[Len(t) + i] = <<e>>[i]
    <3> HIDE DEF t
    <3> QED BY <1>3, <1>4, ConcatElements
  <2> HIDE DEF t
  <2> QED BY <1>1, <1>3, <1>4, <2>1
<1> HIDE DEF u
<1>6. /\ r \o u \in Seq(Event) /\ Len(r \o u) = n + 1
      /\ \A i \in 1 .. k : (r \o u)[i] = s[i]
      /\ \A i \in 1 .. n - k + 1 : (r \o u)[k + i] = u[i]
  <2>1. /\ r \o u \in Seq(Event) /\ Len(r \o u) = Len(r) + Len(u)
        /\ \A i \in 1 .. Len(r) : (r \o u)[i] = r[i]
        /\ \A i \in 1 .. Len(u) : (r \o u)[Len(r) + i] = u[i]
    <3> HIDE DEF r
    <3> QED BY <1>2, <1>5, ConcatElements
  <2> HIDE DEF r
  <2> QED BY <1>1, <1>2, <1>5, <2>1
<1> HIDE DEF a, r, t, n
<1>7. SubSeq(a, 1, k) = r
  <2>1. /\ SubSeq(a, 1, k) \in Seq(Event) /\ Len(SubSeq(a, 1, k)) = k
        /\ \A i \in 1 .. k : SubSeq(a, 1, k)[i] = a[i]
    BY <1>1
  <2>2. \A i \in 1 .. k : SubSeq(a, 1, k)[i] = r[i]
    BY <1>1, <1>2, <2>1
  <2> QED BY <1>2, <2>1, <2>2, SeqEqual
<1>8. SubSeq(a, k + 1, Len(a)) = u
  <2> DEFINE b == SubSeq(a, k + 1, Len(a))
  <2>1. /\ b \in Seq(Event) /\ Len(b) = n - k + 1
        /\ \A i \in 1 .. n - k + 1 : b[i] = a[k + i]
    BY <1>1
  <2> HIDE DEF b
  <2>2. ASSUME NEW i \in 1 .. n - k + 1 PROVE b[i] = u[i]
    <3>1. b[i] = a[k + i]
      BY <2>1
    <3>2. CASE i \in 1 .. n - k
      <4>1. k + i \in 1 .. n
        BY <1>1, <3>2
      <4> QED BY <1>1, <1>5, <3>1, <3>2, <4>1
    <3>3. CASE i = n - k + 1
      <4>1. k + i = n + 1
        BY <1>1, <3>3
      <4> QED BY <1>1, <1>5, <3>1, <3>3, <4>1
    <3> QED BY <1>1, <3>2, <3>3
  <2>3. b = u
    BY <1>5, <2>1, <2>2, SeqEqual
  <2> QED BY <2>3 DEF b
<1>9. SubSeq(a, 1, n + 1) = r \o u
  <2>1. SubSeq(a, 1, n + 1) = a
    BY <1>1, CutFacts
  <2>2. ASSUME NEW i \in 1 .. n + 1 PROVE a[i] = (r \o u)[i]
    <3>1. CASE i \in 1 .. k
      BY <1>1, <1>6, <3>1
    <3>2. CASE i \in k + 1 .. n
      <4>1. i - k \in 1 .. n - k /\ i - k \in 1 .. n - k + 1 /\ k + (i - k) = i
        BY <1>1, <3>2
      <4>2. (r \o u)[k + (i - k)] = u[i - k] /\ u[i - k] = s[k + (i - k)]
        BY <1>5, <1>6, <4>1
      <4>3. a[i] = s[i]
        BY <1>1, <3>2
      <4> QED BY <4>1, <4>2, <4>3
    <3>3. CASE i = n + 1
      <4>1. n - k + 1 \in 1 .. n - k + 1 /\ k + (n - k + 1) = i
        BY <1>1, <3>3
      <4>2. (r \o u)[k + (n - k + 1)] = u[n - k + 1]
        BY <1>6, <4>1
      <4> QED BY <1>1, <1>5, <3>3, <4>1, <4>2
    <3>4. n \in Nat /\ k \in Nat /\ k <= n
      BY <1>1
    <3>5. i \in 1 .. k \/ i \in k + 1 .. n \/ i = n + 1
      BY <3>4
    <3> QED BY <3>1, <3>2, <3>3, <3>5
  <2>3. Len(a) = Len(r \o u) /\ \A i \in 1 .. Len(a) : a[i] = (r \o u)[i]
    BY <1>1, <1>6, <2>2
  <2>4. a = r \o u
    BY <1>1, <1>6, <2>3, SeqEqual
  <2> QED BY <2>1, <2>4
<1>10. SubSeq(a, n + 1 + 1, Len(a)) = << >>
  BY <1>1, CutFacts
<1> QED BY <1>7, <1>8, <1>9, <1>10 DEF a, r, t, u, n

LEMMA EmptyFacts ==
  /\ CompletedGtids(<< >>) = {} /\ Timestamps(<< >>) = {}
  /\ IsRange(EmptyRange, << >>)
<1>1. CompletedGtids(<< >>) = {} /\ Timestamps(<< >>) = {}
  BY DEF CompletedGtids, Timestamps
<1> QED BY <1>1 DEF IsRange

\* The gtids of one event, and of events that end no transaction.
LEMMA GtidsFacts ==
  /\ \A e \in Event : CompletedGtids(<<e>>) = IF e.boundary /\ e.gtid # NoGtid THEN {e.gtid}
                                              ELSE {}
  /\ \A s \in Seq(Event) : (\A i \in DOMAIN s : ~s[i].boundary) => CompletedGtids(s) = {}
<1>1. ASSUME NEW e \in Event
      PROVE  CompletedGtids(<<e>>) = IF e.boundary /\ e.gtid # NoGtid THEN {e.gtid} ELSE {}
  <2>1. DOMAIN <<e>> = {1} /\ <<e>>[1] = e
    OBVIOUS
  <2>2. {<<e>>[i].gtid : i \in {j \in DOMAIN <<e>> : <<e>>[j].boundary}}
          = IF e.boundary THEN {e.gtid} ELSE {}
    BY <2>1
  <2> QED BY <2>2 DEF CompletedGtids
<1>2. \A s \in Seq(Event) : (\A i \in DOMAIN s : ~s[i].boundary) => CompletedGtids(s) = {}
  BY DEF CompletedGtids
<1> QED BY <1>1, <1>2

LEMMA BufferTypes ==
  ASSUME IInv
  PROVE  /\ event_buffer \in Seq(Event) /\ boundary \in 0 .. Len(event_buffer)
         /\ Len(event_buffer) \in Nat
         /\ ReadyEvents \in Seq(Event) /\ Rest \in Seq(Event)
         /\ ready_ts \in TimestampRange /\ incomplete_ts \in TimestampRange
         /\ boundary = 0 => ReadyEvents = << >>
         /\ boundary = Len(event_buffer) => Rest = << >>
         /\ event_buffer = << >> => ReadyEvents = << >> /\ Rest = << >>
<1>1. /\ event_buffer \in Seq(Event) /\ boundary \in 0 .. Len(event_buffer)
      /\ Len(event_buffer) \in Nat
      /\ ready_ts \in TimestampRange /\ incomplete_ts \in TimestampRange
  BY DEF IInv, TypeOK
<1>2. /\ ReadyEvents \in Seq(Event) /\ Rest \in Seq(Event)
      /\ boundary = 0 => ReadyEvents = << >>
      /\ boundary = Len(event_buffer) => Rest = << >>
  BY <1>1, CutFacts DEF ReadyEvents, Rest
<1>3. event_buffer = << >> => boundary = 0 /\ boundary = Len(event_buffer)
  BY <1>1
<1> QED BY <1>1, <1>2, <1>3

LEMMA SameBuffer ==
  ASSUME BufInv,
         UNCHANGED <<event_buffer, boundary, gtids_in_event_buffer, ready_ts, incomplete_ts>>
  PROVE  BufInv' /\ ReadyEvents' = ReadyEvents /\ Rest' = Rest
<1>1. ReadyEvents' = ReadyEvents /\ Rest' = Rest
  BY DEF ReadyEvents, Rest
<1> QED BY <1>1 DEF BufInv

LEMMA EmptyBuffer ==
  ASSUME event_buffer' = << >>, boundary' = 0, gtids_in_event_buffer' = {},
         ready_ts' = EmptyRange, incomplete_ts' = EmptyRange
  PROVE  BufInv'
<1>1. ReadyEvents' = << >> /\ Rest' = << >>
  <2>1. << >> \in Seq(Event) /\ Len(<< >>) = 0
    OBVIOUS
  <2>2. SubSeq(<< >>, 1, 0) = << >> /\ SubSeq(<< >>, 0 + 1, 0) = << >>
    OBVIOUS
  <2> QED BY <2>1, <2>2 DEF ReadyEvents, Rest
<1> QED BY <1>1, EmptyFacts DEF BufInv

-----------------------------------------------------------------------------
(* What the metadata of the files and the record of the latest one say *)

\* What has been written to the open stream.
Written == IF Backend = "s3" THEN tmp ELSE payload[stream]

\* The metadata object of a file describes the part of the payload it counts.
FilesDescribed ==
  \A n \in NameSet(index) : Describes(meta[n], SubSeq(payload[n], 1, meta[n].size))

\* So does the record of the file that is written to.
CurrentDescribed ==
  pc \in {"ready", "open_meta", "open_index"} \cup Flushing /\ stream # NoName =>
    Describes(current, SubSeq(Written, 1, current.size))

\* The ready events are about to be written behind what the record counts, or a
\* failed upload has left them there.
RetryInv ==
  pc = "flush_write" =>
    \/ Len(Written) = current.size
    \/ /\ current.size + boundary <= Len(Written)
       /\ \A i \in 1 .. boundary : Written[current.size + i] = event_buffer[i]

ContentInv == BufInv /\ SeqInv /\ FilesDescribed /\ CurrentDescribed /\ RetryInv

-----------------------------------------------------------------------------
(* Steps that leave the files, or the process, alone *)

LEMMA SameFiles ==
  ASSUME FilesDescribed, UNCHANGED <<index, payload, meta>>
  PROVE  FilesDescribed'
BY DEF FilesDescribed, NameSet

\* What the metadata of a file counts of its payload is kept.
LEMMA KeptPrefix ==
  ASSUME IInv, IInv', Keeps, NEW n \in NameSet(index), n \in NameSet(index)',
         meta'[n].size = meta[n].size
  PROVE  SubSeq(payload'[n], 1, meta'[n].size) = SubSeq(payload[n], 1, meta[n].size)
<1>1. /\ n \in BinlogName /\ meta[n].size \in Nat
      /\ payload[n] \in Seq(Event) /\ payload'[n] \in Seq(Event)
  BY SizesAreNumbers DEF IInv, TypeOK
<1>2. meta[n].size <= Len(payload[n]) /\ meta[n].size <= Len(payload'[n])
  BY DEF IInv, SizesInv
<1>3. \A i \in 1 .. meta[n].size : payload'[n][i] = payload[n][i]
  BY DEF Keeps
<1> DEFINE a == SubSeq(payload[n], 1, meta[n].size)
           b == SubSeq(payload'[n], 1, meta[n].size)
<1>4. /\ a \in Seq(Event) /\ Len(a) = meta[n].size
      /\ \A i \in 1 .. meta[n].size : a[i] = payload[n][i]
  BY <1>1, <1>2
<1>5. /\ b \in Seq(Event) /\ Len(b) = meta[n].size
      /\ \A i \in 1 .. meta[n].size : b[i] = payload'[n][i]
  BY <1>1, <1>2
<1> HIDE DEF a, b
<1>6. b = a
  BY <1>3, <1>4, <1>5, SeqEqual
<1> QED BY <1>6 DEF a, b

\* A file stays described as long as its metadata object stays.
LEMMA KeptFiles ==
  ASSUME IInv, IInv', Keeps, FilesDescribed,
         \A n \in NameSet(index)' :
           \/ n \in NameSet(index) /\ meta'[n] = meta[n]
           \/ Describes(meta'[n], SubSeq(payload'[n], 1, meta'[n].size))
  PROVE  FilesDescribed'
<1> SUFFICES ASSUME NEW n \in NameSet(index)', n \in NameSet(index), meta'[n] = meta[n]
             PROVE  Describes(meta'[n], SubSeq(payload'[n], 1, meta'[n].size))
  BY DEF FilesDescribed
<1>1. SubSeq(payload'[n], 1, meta'[n].size) = SubSeq(payload[n], 1, meta[n].size)
  BY KeptPrefix
<1> QED BY <1>1 DEF FilesDescribed

LEMMA ForgetContent ==
  ASSUME ForgetMemory, pc' = "down", FilesDescribed'
  PROVE  ContentInv'
<1>1. BufInv'
  BY EmptyBuffer DEF ForgetMemory, ClearBuffers
<1> QED BY <1>1 DEF ContentInv, SeqInv, CurrentDescribed, RetryInv, Flushing

LEMMA WrittenType ==
  ASSUME IInv, stream # NoName
  PROVE  stream \in BinlogName /\ Written \in Seq(Event) /\ Len(Written) \in Nat
<1>1. stream \in BinlogName
  BY DEF IInv, TypeOK
<1> QED BY <1>1, SizesAreNumbers DEF Written

\* Between operations nothing lies behind what the record counts.
LEMMA SettledWritten ==
  ASSUME FilesOK, pc \in {"ready", "flush_write"}, ~Retried, stream # NoName
  PROVE  /\ Len(Written) = current.size /\ Written = payload[stream]
         /\ stream \in NameSet(index) /\ current = meta[stream]
<1>1. Settled
  BY DEF FilesOK, ExactInv
<1>2. stream \in NameSet(index) /\ stream = records[Len(records)] /\ index = records
  BY DEF FilesOK, IInv, ObjectsInv, Flushing
<1>3. records # << >>
  BY <1>2 DEF NameSet
<1>4. current = meta[stream] /\ Whole(stream) /\ Written = payload[stream]
  BY <1>1, <1>2, <1>3 DEF Settled, Written
<1> QED BY <1>2, <1>4 DEF Whole

\* The process goes on with the same record and the same stream, and a flush may
\* be due.
LEMMA SameProcess ==
  ASSUME FilesOK, IInv', ContentInv, pc = "ready", pc' \in {"ready", "flush_write"},
         UNCHANGED <<objects, current>>, stream' = NoName \/ UNCHANGED <<stream, tmp>>
  PROVE  FilesDescribed' /\ CurrentDescribed' /\ RetryInv'
<1>1. FilesDescribed'
  BY SameFiles DEF ContentInv, objects
<1>2. CASE stream' = NoName
  <2>1. pc' = "ready"
    BY <1>2 DEF IInv, StreamInv, BackendCalls
  <2> QED BY <1>1, <1>2, <2>1 DEF CurrentDescribed, RetryInv
<1>3. CASE stream' # NoName
  <2>1. stream' = stream /\ Written' = Written /\ current' = current
    BY <1>3 DEF Written, objects
  <2>2. Len(Written) = current.size
    <3>1. ~Retried
      BY ReadyIsSettled DEF FilesOK, Retried
    <3> QED BY <1>3, <2>1, <3>1, SettledWritten
  <2>3. Describes(current, SubSeq(Written, 1, current.size))
    BY <1>3, <2>1 DEF ContentInv, CurrentDescribed
  <2> QED BY <1>1, <2>1, <2>2, <2>3 DEF CurrentDescribed, RetryInv
<1> QED BY <1>2, <1>3

LEMMA SameNumbers ==
  ASSUME SeqInv, pc \in {"ready"} \cup Flushing, pc' \in {"ready", "flush_write"},
         ReadyEvents' = ReadyEvents, Rest' = Rest,
         UNCHANGED <<current, ready_seq, incomplete_seq>>,
         stream' = NoName \/ UNCHANGED stream
  PROVE  SeqInv'
BY DEF SeqInv, Flushing

LEMMA DestroyContent ==
  ASSUME FilesOK, IInv', ContentInv, pc = "ready", Destroy, UNCHANGED objects
  PROVE  ContentInv'
<1>1. CASE has_event_data_to_flush
  <2>1. pc' = "flush_write" /\ UNCHANGED <<current, stream, tmp, buffers>>
    BY <1>1 DEF Destroy
  <2>2. FilesDescribed' /\ CurrentDescribed' /\ RetryInv'
    BY <2>1, SameProcess
  <2>3. BufInv' /\ ReadyEvents' = ReadyEvents /\ Rest' = Rest
    BY <2>1, SameBuffer DEF ContentInv, buffers
  <2>4. SeqInv'
    BY <2>1, <2>3, SameNumbers DEF ContentInv, buffers
  <2> QED BY <2>2, <2>3, <2>4 DEF ContentInv
<1>2. CASE ~has_event_data_to_flush
  <2>1. pc' = "down" /\ ForgetMemory
    BY <1>2 DEF Destroy
  <2>2. FilesDescribed'
    BY SameFiles DEF ContentInv, objects
  <2> QED BY <2>1, <2>2, ForgetContent
<1> QED BY <1>1, <1>2

LEMMA ConstructContent ==
  ASSUME FilesOK, ContentInv, Construct
  PROVE  ContentInv'
<1>1. FilesDescribed'
  BY SameFiles DEF ContentInv, Construct
<1>2. CASE ~StorageIsValid
  <2>1. pc' = "refused" /\ UNCHANGED memory
    BY <1>2 DEF Construct
  <2>2. BufInv'
    BY <2>1, SameBuffer DEF ContentInv, memory, buffers
  <2> QED BY <1>1, <2>1, <2>2
      DEF ContentInv, SeqInv, CurrentDescribed, RetryInv, Flushing
<1>3. CASE StorageIsValid
  <2>1. pc' = "ready" /\ stream' = NoName /\ ClearBuffers
    BY <1>3 DEF Construct
  <2>2. BufInv'
    BY <2>1, EmptyBuffer DEF ClearBuffers
  <2> QED BY <1>1, <2>1, <2>2 DEF ContentInv, SeqInv, CurrentDescribed, RetryInv
<1> QED BY <1>2, <1>3

-----------------------------------------------------------------------------
(* The operations keep the metadata exact *)

\* storage::write_event: the two parts of the buffer, and the variables that
\* describe them, after one more event.
LEMMA WriteBuffer ==
  ASSUME IInv, BufInv, SeqInv, NEW e \in Event, NEW elapsed \in BOOLEAN,
         write_event(e, elapsed)
  PROVE  BufInv' /\ SeqInv'
<1> DEFINE ts == add_timestamp(incomplete_ts, e.ts)
           seq == IF e.seq # 0 THEN e.seq ELSE incomplete_seq
           tail == Rest \o <<e>>
<1>1. /\ pc = "ready" /\ stream # NoName /\ stream' = stream /\ current' = current
      /\ event_buffer' = Append(event_buffer, e)
      /\ boundary' = (IF e.boundary THEN Len(event_buffer) + 1 ELSE boundary)
      /\ incomplete_seq' = seq
      /\ pc' \in {"ready", "flush_write"}
  BY DEF write_event
<1>2. /\ event_buffer \in Seq(Event) /\ boundary \in 0 .. Len(event_buffer)
      /\ ReadyEvents \in Seq(Event) /\ Rest \in Seq(Event)
      /\ ready_ts \in TimestampRange /\ incomplete_ts \in TimestampRange
  BY BufferTypes
<1>3. /\ SubSeq(Append(event_buffer, e), 1, boundary) = ReadyEvents
      /\ SubSeq(Append(event_buffer, e), boundary + 1, Len(Append(event_buffer, e))) = tail
      /\ SubSeq(Append(event_buffer, e), 1, Len(event_buffer) + 1) = ReadyEvents \o tail
      /\ SubSeq(Append(event_buffer, e), Len(event_buffer) + 1 + 1,
                Len(Append(event_buffer, e))) = << >>
  BY <1>2, AppendToCut DEF ReadyEvents, Rest
<1>4. /\ <<e>> \in Seq(Event) /\ tail \in Seq(Event) /\ ts \in TimestampRange
      /\ e.ts \in Nat
  <2>1. e.ts \in Nat
    BY StorageAssumption DEF Event
  <2>2. <<e>> \in Seq(Event)
    OBVIOUS
  <2> QED BY <1>2, <2>1, <2>2, RangeType, ConcatElements
<1>5. IsRange(ts, tail)
  BY <1>2, AppendRange DEF BufInv
<1>6. SeqAfter(current.seq, ReadyEvents, ready_seq) /\ SeqAfter(ready_seq, tail, seq)
  <2>1. /\ SeqAfter(current.seq, ReadyEvents, ready_seq)
        /\ SeqAfter(ready_seq, Rest, incomplete_seq)
    BY <1>1 DEF SeqInv
  <2>2. SeqAfter(incomplete_seq, <<e>>, seq)
    BY SeqFacts
  <2>3. SeqAfter(ready_seq, Rest \o <<e>>, seq)
    BY <1>2, <1>4, <2>1, <2>2, ConcatSeq
  <2> QED BY <2>1, <2>3
<1>7. CompletedGtids(Rest) = {}
  BY <1>2, GtidsFacts DEF BufInv
<1>8. CASE ~e.boundary
  <2>1. /\ ReadyEvents' = ReadyEvents /\ Rest' = tail
        /\ incomplete_ts' = ts
        /\ UNCHANGED <<gtids_in_event_buffer, ready_ts, ready_seq>>
    BY <1>1, <1>3, <1>8 DEF write_event, ReadyEvents, Rest
  <2>2. \A i \in DOMAIN tail : ~tail[i].boundary
    <3>1. \A i \in DOMAIN Rest : ~Rest[i].boundary
      BY DEF BufInv
    <3>2. /\ DOMAIN Rest = 1 .. Len(Rest) /\ Len(Rest) \in Nat
          /\ DOMAIN (Rest \o <<e>>) = 1 .. Len(Rest) + 1
          /\ \A i \in 1 .. Len(Rest) : (Rest \o <<e>>)[i] = Rest[i]
          /\ (Rest \o <<e>>)[Len(Rest) + 1] = e
      BY <1>2
    <3> QED BY <1>8, <3>1, <3>2
  <2>3. BufInv'
    <3>1. (\A i \in DOMAIN Rest : ~Rest[i].boundary)'
      BY <2>1, <2>2
    <3>2. ReplicationMode = "gtid" => gtids_in_event_buffer' = CompletedGtids(ReadyEvents')
      BY <2>1 DEF BufInv
    <3>3. IsRange(ready_ts', ReadyEvents') /\ IsRange(incomplete_ts', Rest')
      BY <1>5, <2>1 DEF BufInv
    <3> QED BY <3>1, <3>2, <3>3 DEF BufInv
  <2>4. SeqInv'
    BY <1>1, <1>6, <2>1 DEF SeqInv
  <2> QED BY <2>3, <2>4
<1>9. CASE e.boundary
  <2>1. /\ ReadyEvents' = ReadyEvents \o tail /\ Rest' = << >>
        /\ gtids_in_event_buffer' = IF ReplicationMode = "gtid" /\ e.gtid # NoGtid
                                    THEN gtids_in_event_buffer \cup {e.gtid}
                                    ELSE gtids_in_event_buffer
        /\ ready_ts' = add_range(ready_ts, ts)
        /\ incomplete_ts' = EmptyRange
        /\ ready_seq' = seq
    BY <1>1, <1>3, <1>9 DEF write_event, ReadyEvents, Rest
  <2>2. CompletedGtids(ReadyEvents \o tail)
          = CompletedGtids(ReadyEvents) \cup (IF e.gtid # NoGtid THEN {e.gtid} ELSE {})
    <3>1. CompletedGtids(ReadyEvents \o tail)
            = CompletedGtids(ReadyEvents) \cup CompletedGtids(tail)
      BY <1>2, <1>4, ConcatGtids
    <3>2. CompletedGtids(tail) = CompletedGtids(Rest) \cup CompletedGtids(<<e>>)
      BY <1>2, <1>4, ConcatGtids
    <3>3. CompletedGtids(<<e>>) = IF e.gtid # NoGtid THEN {e.gtid} ELSE {}
      BY <1>9, GtidsFacts
    <3> QED BY <1>7, <3>1, <3>2, <3>3
  <2>3. ReplicationMode = "gtid" => gtids_in_event_buffer' = CompletedGtids(ReadyEvents')
    BY <2>1, <2>2 DEF BufInv
  <2>4. IsRange(add_range(ready_ts, ts), ReadyEvents \o tail)
    BY <1>2, <1>4, <1>5, ConcatRange DEF BufInv
  <2>5. BufInv'
    <3>1. (\A i \in DOMAIN Rest : ~Rest[i].boundary)'
      BY <2>1
    <3>2. IsRange(ready_ts', ReadyEvents') /\ IsRange(incomplete_ts', Rest')
      BY <2>1, <2>4, EmptyFacts
    <3> QED BY <2>3, <3>1, <3>2 DEF BufInv
  <2>6. SeqInv'
    <3>1. SeqAfter(current.seq, ReadyEvents \o tail, seq)
      BY <1>2, <1>4, <1>6, ConcatSeq
    <3>2. SeqAfter(seq, << >>, seq)
      BY SeqFacts
    <3> QED BY <1>1, <2>1, <3>1, <3>2 DEF SeqInv
  <2> QED BY <2>5, <2>6
<1> QED BY <1>8, <1>9

LEMMA CallContent ==
  ASSUME FilesOK, IInv', ContentInv,
         SetPurged \/ Write \/ Close \/ DiscardAndFlush \/ Stop
  PROVE  ContentInv'
<1>0. IInv /\ BufInv /\ SeqInv
  BY DEF FilesOK, ContentInv
<1>1. CASE Stop
  BY <1>1, DestroyContent DEF Stop
<1>2. CASE SetPurged \/ Write \/ Close \/ DiscardAndFlush
  <2>1. /\ pc = "ready" /\ pc' \in {"ready", "flush_write"}
        /\ UNCHANGED <<objects, records, current>>
        /\ stream' = NoName \/ UNCHANGED <<stream, tmp>>
    BY <1>2, CallSteps
  <2>2. FilesDescribed' /\ CurrentDescribed' /\ RetryInv'
    BY <2>1, SameProcess
  <2>3. BufInv' /\ SeqInv'
    <3>1. CASE SetPurged
      <4>1. UNCHANGED <<stream, buffers>>
        BY <3>1 DEF SetPurged, set_purged_gtids
      <4>2. BufInv' /\ ReadyEvents' = ReadyEvents /\ Rest' = Rest
        BY <1>0, <4>1, SameBuffer DEF buffers
      <4> QED BY <1>0, <2>1, <4>1, <4>2, SameNumbers DEF buffers
    <3>2. CASE Write
      <4>1. PICK e \in WrittenEvent, elapsed \in BOOLEAN : write_event(e, elapsed)
        BY <3>2 DEF Write
      <4>2. e \in Event
        BY StorageAssumption
      <4> QED BY <1>0, <4>1, <4>2, WriteBuffer
    <3>3. CASE Close /\ has_event_data_to_flush
      <4>1. UNCHANGED <<stream, event_buffer, boundary, gtids_in_event_buffer, ready_ts,
                        incomplete_ts, ready_seq, incomplete_seq>>
        BY <3>3 DEF Close, close_binlog
      <4>2. BufInv' /\ ReadyEvents' = ReadyEvents /\ Rest' = Rest
        BY <1>0, <4>1, SameBuffer
      <4> QED BY <1>0, <2>1, <4>1, <4>2, SameNumbers
    <3>4. CASE Close /\ ~has_event_data_to_flush
      <4>1. /\ event_buffer' = << >> /\ stream' = NoName /\ boundary = Len(event_buffer)
            /\ boundary = 0 /\ pc' = "ready"
            /\ UNCHANGED <<boundary, gtids_in_event_buffer, ready_ts, incomplete_ts>>
        BY <3>4 DEF Close, close_binlog, CloseStream, has_event_data_to_flush
      <4>2. /\ gtids_in_event_buffer = {} /\ ready_ts = EmptyRange
            /\ incomplete_ts = EmptyRange
        BY <1>0, <4>1 DEF IInv, BufferInv
      <4>3. BufInv'
        BY <4>1, <4>2, EmptyBuffer
      <4> QED BY <4>1, <4>3 DEF SeqInv
    <3>5. CASE DiscardAndFlush
      <4>1. /\ event_buffer' = SubSeq(event_buffer, 1, boundary)
            /\ incomplete_ts' = EmptyRange /\ incomplete_seq' = ready_seq
            /\ UNCHANGED <<stream, boundary, gtids_in_event_buffer, ready_ts, ready_seq>>
        BY <3>5 DEF DiscardAndFlush
      <4>2. /\ event_buffer \in Seq(Event) /\ boundary \in 0 .. Len(event_buffer)
            /\ ReadyEvents \in Seq(Event)
        BY <1>0, BufferTypes
      <4>3. Len(ReadyEvents) = boundary
        BY <4>2 DEF ReadyEvents
      <4>4. /\ SubSeq(ReadyEvents, 1, Len(ReadyEvents)) = ReadyEvents
            /\ SubSeq(ReadyEvents, Len(ReadyEvents) + 1, Len(ReadyEvents)) = << >>
        BY <4>2, CutFacts
      <4>5. event_buffer' = ReadyEvents /\ boundary' = boundary
        BY <4>1 DEF ReadyEvents
      <4>6. ReadyEvents' = ReadyEvents /\ Rest' = << >>
        <5>1. ReadyEvents' = SubSeq(event_buffer', 1, boundary')
          BY DEF ReadyEvents
        <5>2. Rest' = SubSeq(event_buffer', boundary' + 1, Len(event_buffer'))
          BY DEF Rest
        <5> QED BY <4>3, <4>4, <4>5, <5>1, <5>2
      <4>7. BufInv'
        <5>1. (\A i \in DOMAIN Rest : ~Rest[i].boundary)'
          BY <4>6
        <5>2. ReplicationMode = "gtid" => gtids_in_event_buffer' = CompletedGtids(ReadyEvents')
          BY <1>0, <4>1, <4>6 DEF BufInv
        <5>3. IsRange(ready_ts', ReadyEvents') /\ IsRange(incomplete_ts', Rest')
          BY <1>0, <4>1, <4>6, EmptyFacts DEF BufInv
        <5> QED BY <5>1, <5>2, <5>3 DEF BufInv
      <4>8. SeqAfter(ready_seq, << >>, ready_seq)
        BY SeqFacts
      <4> QED BY <1>0, <2>1, <4>1, <4>6, <4>7, <4>8 DEF SeqInv
    <3> QED BY <1>2, <3>1, <3>2, <3>3, <3>4, <3>5
  <2> QED BY <2>2, <2>3 DEF ContentInv
<1> QED BY <1>1, <1>2

\* The magic signature belongs to no transaction and has no time.
LEMMA MagicFacts ==
  /\ <<Magic>> \in Seq(Event) /\ SubSeq(<<Magic>>, 1, 1) = <<Magic>>
  /\ CompletedGtids(<<Magic>>) = {} /\ IsRange(EmptyRange, <<Magic>>)
  /\ \A q : SeqAfter(0, <<Magic>>, q) <=> q = 0
<1>1. /\ Magic \in Event /\ Magic.gtid = NoGtid /\ Magic.ts = 0 /\ Magic.seq = 0
  BY EmptyTypes DEF Magic
<1>2. /\ <<Magic>> \in Seq(Event) /\ SubSeq(<<Magic>>, 1, 1) = <<Magic>>
      /\ DOMAIN <<Magic>> = {1} /\ <<Magic>>[1] = Magic
  <2>1. <<Magic>> \in Seq(Event) /\ Len(<<Magic>>) = 1
    BY <1>1
  <2>2. DOMAIN <<Magic>> = {1} /\ <<Magic>>[1] = Magic
    OBVIOUS
  <2>3. ASSUME NEW s \in Seq(Event) PROVE SubSeq(s, 1, Len(s)) = s
    OBVIOUS
  <2>4. SubSeq(<<Magic>>, 1, Len(<<Magic>>)) = <<Magic>>
    BY <2>1, <2>3
  <2> QED BY <2>1, <2>2, <2>4
<1>3. CompletedGtids(<<Magic>>) = {}
  BY <1>1, GtidsFacts
<1>4. Timestamps(<<Magic>>) = {}
  BY <1>1, <1>2 DEF Timestamps
<1>5. \A q : SeqAfter(0, <<Magic>>, q) <=> q = 0
  BY <1>1, <1>2 DEF SeqAfter
<1> QED BY <1>2, <1>3, <1>4, <1>5 DEF IsRange

LEMMA OpenContent ==
  ASSUME FilesOK, IInv', Keeps, ContentInv, Open
  PROVE  ContentInv'
<1>1. PICK name \in BinlogName :
        OpenExisting(name) \/ OpenNew(name) \/ OpenNotLatest(name)
  BY DEF Open
<1>2. /\ pc = "ready" /\ stream = NoName /\ Settled /\ index = records
      /\ event_buffer = << >> /\ IInv /\ BufInv
  BY ReadyIsSettled DEF Open, FilesOK, ContentInv, IInv, StreamInv
<1>3. CASE OpenExisting(name)
  <2>1. /\ pc' = "ready" /\ stream' = name /\ UNCHANGED <<objects, current>>
        /\ records # << >> /\ name = records[Len(records)]
        /\ Backend = "s3" => tmp' = payload[name]
        /\ ready_seq' = current.seq /\ incomplete_seq' = current.seq
        /\ UNCHANGED <<event_buffer, boundary, gtids_in_event_buffer, ready_ts,
                       incomplete_ts>>
    BY <1>2, <1>3 DEF OpenExisting, is_empty
  <2>2. BufInv' /\ ReadyEvents' = << >> /\ Rest' = << >>
    BY <1>2, <2>1, SameBuffer, BufferTypes
  <2>3. SeqInv'
    <3>1. SeqAfter(current.seq, << >>, current.seq)
      BY SeqFacts
    <3> QED BY <2>1, <2>2, <3>1 DEF SeqInv
  <2>4. FilesDescribed'
    BY <2>1, SameFiles DEF ContentInv, objects
  <2>5. name \in NameSet(index) /\ current = meta[name]
    <3>1. records \in Seq(BinlogName)
      BY <1>2, SizesAreNumbers
    <3> QED BY <1>2, <2>1, <3>1, NameSetFacts DEF Settled
  <2>6. Describes(current, SubSeq(payload[name], 1, current.size))
    BY <2>5 DEF ContentInv, FilesDescribed
  <2>7. Written' = payload[name]
    BY <2>1 DEF Written, objects
  <2> QED BY <2>1, <2>2, <2>3, <2>4, <2>6, <2>7 DEF ContentInv, CurrentDescribed, RetryInv
<1>4. CASE OpenNew(name)
  <2>1. pc' = "open_magic" /\ UNCHANGED <<index, meta, buffers>>
    BY <1>4 DEF OpenNew
  <2>2. BufInv'
    BY <1>2, <2>1, SameBuffer DEF buffers
  <2>3. NameSet(index)' = NameSet(index)
    BY <2>1 DEF NameSet
  <2>4. FilesDescribed'
    BY <1>2, <2>1, <2>3, KeptFiles DEF ContentInv
  <2> QED BY <2>1, <2>2, <2>4
      DEF ContentInv, SeqInv, CurrentDescribed, RetryInv, Flushing
<1>5. CASE OpenNotLatest(name)
  BY <1>2, <1>5, DestroyContent DEF OpenNotLatest
<1> QED BY <1>1, <1>3, <1>4, <1>5

\* The first two backend calls of a new file, which is not in the index yet.
LEMMA NewFileContent ==
  ASSUME FilesOK, FilesOK', Keeps, ContentInv, OpenMagic \/ OpenMeta
  PROVE  ContentInv'
<1>1. /\ pc \in {"open_magic", "open_meta"} /\ pc' \in {"open_meta", "open_index"}
      /\ UNCHANGED <<index, stream, buffers>>
  BY DEF OpenMagic, OpenMeta, memory
<1>2. stream \notin NameSet(index) /\ stream \in BinlogName /\ IInv /\ IInv' /\ TypeOK
  BY <1>1 DEF FilesOK, IInv, ObjectsInv, StreamInv, TypeOK, BackendCalls
<1>3. \A n \in NameSet(index) : meta'[n] = meta[n]
  <2>1. CASE OpenMagic
    BY <2>1 DEF OpenMagic
  <2>2. CASE OpenMeta
    <3>1. \A n \in BinlogName \ {stream} : meta'[n] = meta[n]
      BY <1>2, <2>2, SaveFacts DEF OpenMeta
    <3> QED BY <1>2, <3>1, SizesAreNumbers
  <2> QED BY <2>1, <2>2
<1>4. NameSet(index)' = NameSet(index)
  BY <1>1 DEF NameSet
<1>5. FilesDescribed'
  BY <1>2, <1>3, <1>4, KeptFiles DEF ContentInv
<1>6. BufInv'
  BY <1>1, SameBuffer DEF ContentInv, buffers
<1>7. Written' = <<Magic>> /\ current'.size = 1
  <2>1. payload'[stream'] = <<Magic>> /\ current'.size = 1
    BY <1>1 DEF FilesOK, ExactInv, Opened, Opening
  <2>2. Backend = "s3" => tmp' = payload'[stream']
    BY <1>1 DEF FilesOK, FilesInv
  <2> QED BY <2>1, <2>2 DEF Written
<1>8. Describes(current', <<Magic>>)
  <2>1. CASE OpenMagic
    <3>1. current'.added = {} /\ current'.ts = EmptyRange /\ current'.seq = 0
      BY <2>1 DEF OpenMagic, EmptyRecord
    <3> QED BY <3>1, MagicFacts DEF Describes
  <2>2. CASE OpenMeta
    <3>1. /\ pc = "open_meta" /\ UNCHANGED <<current, payload, tmp, stream>>
      BY <2>2 DEF OpenMeta, memory
    <3>2. Written' = Written /\ stream # NoName
      BY <1>2, <3>1, StorageAssumption DEF Written
    <3>3. Describes(current, SubSeq(Written, 1, current.size))
      BY <3>1, <3>2 DEF ContentInv, CurrentDescribed
    <3>4. Written = <<Magic>> /\ current.size = 1
      BY <1>7, <3>1, <3>2
    <3> QED BY <3>1, <3>3, <3>4, MagicFacts
  <2> QED BY <2>1, <2>2
<1>9. CurrentDescribed'
  BY <1>7, <1>8, MagicFacts DEF CurrentDescribed
<1> QED BY <1>1, <1>5, <1>6, <1>9 DEF ContentInv, SeqInv, RetryInv, Flushing

\* The files after the index has been saved with a new name.
LEMMA IndexedContent ==
  ASSUME FilesOK, FilesOK', Keeps, ContentInv, pc = "open_index",
         index' = records, UNCHANGED <<payload, meta>>
  PROVE  FilesDescribed'
<1>1. /\ NameSet(records) = NameSet(index) \cup {stream} /\ stream # NoName
      /\ meta[stream] = current /\ Written = payload[stream]
  BY DEF FilesOK, IInv, ObjectsInv, StreamInv, BackendCalls, FilesInv, Written
<1>2. Describes(current, SubSeq(Written, 1, current.size))
  BY <1>1 DEF ContentInv, CurrentDescribed
<1>3. NameSet(index)' = NameSet(index) \cup {stream}
  BY <1>1 DEF NameSet
<1> QED BY <1>1, <1>2, <1>3 DEF ContentInv, FilesDescribed

LEMMA OpenIndexContent ==
  ASSUME FilesOK, FilesOK', Keeps, ContentInv, OpenIndex
  PROVE  ContentInv'
<1>1. /\ pc = "open_index" /\ pc' = "ready" /\ index' = records
      /\ ready_seq' = 0 /\ incomplete_seq' = 0
      /\ UNCHANGED <<payload, meta, current, stream, tmp, event_buffer, boundary,
                     gtids_in_event_buffer, ready_ts, incomplete_ts>>
  BY DEF OpenIndex
<1>2. FilesDescribed'
  BY <1>1, IndexedContent
<1>3. IInv /\ event_buffer = << >> /\ stream # NoName
  BY <1>1 DEF FilesOK, IInv, StreamInv, Opening, BackendCalls
<1>4. BufInv' /\ ReadyEvents' = << >> /\ Rest' = << >>
  BY <1>1, <1>3, SameBuffer, BufferTypes DEF ContentInv
<1>5. Written' = Written /\ Describes(current, SubSeq(Written, 1, current.size))
  BY <1>1, <1>3 DEF Written, ContentInv, CurrentDescribed
<1>6. Written = <<Magic>> /\ current.size = 1
  BY <1>1 DEF FilesOK, ExactInv, Opened, Opening, FilesInv, Written
<1>7. current.seq = 0
  BY <1>5, <1>6, MagicFacts DEF Describes
<1>8. SeqInv'
  <2>1. SeqAfter(0, << >>, 0)
    BY SeqFacts
  <2> QED BY <1>1, <1>4, <1>7, <2>1 DEF SeqInv
<1> QED BY <1>1, <1>2, <1>4, <1>5, <1>8 DEF ContentInv, CurrentDescribed, RetryInv

-----------------------------------------------------------------------------
(* The flush, and what failures leave *)

\* What lies behind the first k events of w does not matter when d is appended,
\* if it begins with d itself.
LEMMA AppendedTwice ==
  ASSUME NEW w \in Seq(Event), NEW d \in Seq(Event), NEW k \in 0 .. Len(w),
         \/ Len(w) = k
         \/ k + Len(d) <= Len(w) /\ \A i \in 1 .. Len(d) : w[k + i] = d[i]
  PROVE  SubSeq(w \o d, 1, k + Len(d)) = SubSeq(w, 1, k) \o d
<1> DEFINE c == w \o d
           p == SubSeq(w, 1, k)
<1>1. /\ c \in Seq(Event) /\ Len(c) = Len(w) + Len(d)
      /\ Len(w) \in Nat /\ Len(d) \in Nat /\ k \in Nat /\ k <= Len(w)
      /\ \A i \in 1 .. Len(w) : c[i] = w[i]
      /\ \A i \in 1 .. Len(d) : c[Len(w) + i] = d[i]
  BY ConcatElements
<1>2. p \in Seq(Event) /\ Len(p) = k /\ \A i \in 1 .. k : p[i] = w[i]
  OBVIOUS
<1> HIDE DEF c, p
<1>3. /\ p \o d \in Seq(Event) /\ Len(p \o d) = k + Len(d)
      /\ \A i \in 1 .. k : (p \o d)[i] = w[i]
      /\ \A i \in 1 .. Len(d) : (p \o d)[k + i] = d[i]
  <2>1. /\ p \o d \in Seq(Event) /\ Len(p \o d) = Len(p) + Len(d)
        /\ \A i \in 1 .. Len(p) : (p \o d)[i] = p[i]
        /\ \A i \in 1 .. Len(d) : (p \o d)[Len(p) + i] = d[i]
    BY <1>2, ConcatElements
  <2> QED BY <1>2, <2>1
<1>4. /\ SubSeq(c, 1, k + Len(d)) \in Seq(Event)
      /\ Len(SubSeq(c, 1, k + Len(d))) = k + Len(d)
      /\ \A i \in 1 .. k + Len(d) : SubSeq(c, 1, k + Len(d))[i] = c[i]
  <2>1. k + Len(d) \in Nat /\ k + Len(d) <= Len(c)
    BY <1>1
  <2> QED BY <1>1, <2>1
<1>5. ASSUME NEW i \in 1 .. Len(d) PROVE c[k + i] = d[i]
  <2>1. CASE Len(w) = k
    BY <1>1, <2>1
  <2>2. CASE k + Len(d) <= Len(w) /\ \A j \in 1 .. Len(d) : w[k + j] = d[j]
    <3>1. k + i \in 1 .. Len(w)
      BY <1>1, <2>2
    <3> QED BY <1>1, <2>2, <3>1
  <2> QED BY <2>1, <2>2
<1>6. ASSUME NEW i \in 1 .. k + Len(d) PROVE c[i] = (p \o d)[i]
  <2>0. k \in Nat /\ Len(d) \in Nat
    BY <1>1
  <2>1. CASE i \in 1 .. k
    BY <1>1, <1>3, <2>1
  <2>2. CASE i \notin 1 .. k
    <3>1. i - k \in 1 .. Len(d) /\ k + (i - k) = i
      BY <2>0, <2>2
    <3>2. c[k + (i - k)] = d[i - k] /\ (p \o d)[k + (i - k)] = d[i - k]
      BY <1>3, <1>5, <3>1
    <3> QED BY <3>1, <3>2
  <2> QED BY <2>1, <2>2
<1>7. SubSeq(c, 1, k + Len(d)) = p \o d
  <2>1. \A i \in 1 .. k + Len(d) : SubSeq(c, 1, k + Len(d))[i] = (p \o d)[i]
    BY <1>4, <1>6
  <2> QED BY <1>3, <1>4, <2>1, SeqEqual
<1> QED BY <1>7 DEF c, p

\* The record after flush_event_buffer_internal has added what the buffer holds.
LEMMA DescribesMore ==
  ASSUME NEW m \in Metadata, NEW p \in Seq(Event), NEW d \in Seq(Event), Describes(m, p),
         NEW size \in Nat, NEW gtids, NEW ts \in TimestampRange, NEW seq,
         ReplicationMode = "gtid" => gtids = CompletedGtids(d),
         IsRange(ts, d), SeqAfter(m.seq, d, seq)
  PROVE  Describes([m EXCEPT !.size = size, !.added = @ \cup gtids,
                             !.ts = add_range(@, ts), !.seq = seq], p \o d)
<1> DEFINE n == [m EXCEPT !.size = size, !.added = @ \cup gtids,
                          !.ts = add_range(@, ts), !.seq = seq]
<1>1. n.added = m.added \cup gtids /\ n.ts = add_range(m.ts, ts) /\ n.seq = seq
  BY DEF Metadata
<1>2. m.ts \in TimestampRange
  BY DEF Metadata, TimestampRange
<1>3. IsRange(add_range(m.ts, ts), p \o d)
  BY <1>2, ConcatRange DEF Describes
<1>4. SeqAfter(0, p \o d, seq)
  BY ConcatSeq DEF Describes
<1>5. ReplicationMode = "gtid" => m.added \cup gtids = CompletedGtids(p \o d)
  BY ConcatGtids DEF Describes
<1> HIDE DEF n
<1>6. Describes(n, p \o d)
  BY <1>1, <1>3, <1>4, <1>5 DEF Describes
<1> QED BY <1>6 DEF n

LEMMA FlushWriteContent ==
  ASSUME FilesOK, FilesOK', Keeps, ContentInv, FlushWrite
  PROVE  ContentInv'
<1>1. /\ pc = "flush_write" /\ pc' = "flush_meta" /\ WriteToStream(ReadyEvents)
      /\ current' = [current EXCEPT !.size = @ + boundary,
                                    !.added = @ \cup gtids_in_event_buffer,
                                    !.ts = add_range(@, ready_ts),
                                    !.seq = ready_seq]
      /\ UNCHANGED <<index, meta, stream, buffers>>
  BY DEF FlushWrite
<1>2. /\ IInv /\ IInv' /\ stream \in BinlogName /\ stream # NoName /\ boundary # 0
      /\ current \in Metadata /\ current.size \in Nat
      /\ payload \in [BinlogName -> Seq(Event)]
      /\ current.size <= Len(payload[stream])
      /\ Backend = "s3" => current.size <= Len(tmp)
  BY <1>1, FlushingFacts, StorageAssumption DEF FilesOK, IInv, TypeOK, Flushing
<1>3. /\ ReadyEvents \in Seq(Event) /\ Len(ReadyEvents) = boundary /\ boundary \in Nat
      /\ ready_ts \in TimestampRange
  BY <1>2, ReadyEventsFacts DEF IInv, TypeOK
<1>4. /\ Written \in Seq(Event) /\ current.size \in 0 .. Len(Written)
  BY <1>2, WrittenType DEF Written
<1>5. Written' = Written \o ReadyEvents
  BY <1>1, <1>2 DEF WriteToStream, StreamContent, Written
<1>6. SubSeq(Written \o ReadyEvents, 1, current.size + boundary)
        = SubSeq(Written, 1, current.size) \o ReadyEvents
  <2>1. \A i \in 1 .. boundary : ReadyEvents[i] = event_buffer[i]
    BY <1>2, BufferTypes DEF ReadyEvents
  <2>2. \/ Len(Written) = current.size
        \/ /\ current.size + boundary <= Len(Written)
           /\ \A i \in 1 .. boundary : Written[current.size + i] = ReadyEvents[i]
    BY <1>1, <2>1 DEF ContentInv, RetryInv
  <2>3. SubSeq(Written \o ReadyEvents, 1, current.size + Len(ReadyEvents))
          = SubSeq(Written, 1, current.size) \o ReadyEvents
    BY <1>3, <1>4, <2>2, AppendedTwice
  <2> QED BY <1>3, <2>3
<1>7. current'.size = current.size + boundary /\ current'.seq = ready_seq
  BY <1>1, <1>2 DEF Metadata
<1>8. Describes(current', SubSeq(Written, 1, current.size) \o ReadyEvents)
  <2>1. Describes(current, SubSeq(Written, 1, current.size))
    BY <1>1, <1>2 DEF ContentInv, CurrentDescribed, Flushing
  <2>2. SubSeq(Written, 1, current.size) \in Seq(Event)
    BY <1>4, CutFacts
  <2>3. /\ ReplicationMode = "gtid" => gtids_in_event_buffer = CompletedGtids(ReadyEvents)
        /\ IsRange(ready_ts, ReadyEvents) /\ SeqAfter(current.seq, ReadyEvents, ready_seq)
    BY <1>1, <1>2 DEF ContentInv, BufInv, SeqInv, Flushing
  <2>4. current.size + boundary \in Nat
    BY <1>2, <1>3
  <2> QED BY <1>1, <1>2, <1>3, <2>1, <2>2, <2>3, <2>4, DescribesMore
<1>9. CurrentDescribed'
  BY <1>5, <1>6, <1>7, <1>8 DEF CurrentDescribed
<1>10. BufInv' /\ ReadyEvents' = ReadyEvents /\ Rest' = Rest
  BY <1>1, SameBuffer DEF ContentInv, buffers
<1>11. SeqInv'
  <2>1. /\ SeqAfter(current.seq, ReadyEvents, ready_seq)
        /\ SeqAfter(ready_seq, Rest, incomplete_seq)
    BY <1>1, <1>2 DEF ContentInv, SeqInv, Flushing
  <2>2. SeqAfter(ready_seq, ReadyEvents, ready_seq)
    BY <2>1, SeqFacts
  <2>3. ready_seq' = ready_seq /\ incomplete_seq' = incomplete_seq
    BY <1>1 DEF buffers
  <2> QED BY <1>7, <1>10, <2>1, <2>2, <2>3 DEF SeqInv
<1>12. FilesDescribed'
  <2>1. NameSet(index)' = NameSet(index)
    BY <1>1 DEF NameSet
  <2> QED BY <1>1, <1>2, <2>1, KeptFiles DEF ContentInv
<1> QED BY <1>1, <1>9, <1>10, <1>11, <1>12 DEF ContentInv, RetryInv

\* The files after the metadata of the open file has been saved by a flush.
LEMMA SavedContent ==
  ASSUME FilesOK, ContentInv, pc = "flush_meta", SaveBinlogMetadata,
         UNCHANGED <<index, payload>>
  PROVE  FilesDescribed'
<1>1. /\ stream \in BinlogName /\ stream # NoName /\ TypeOK /\ IInv
  BY FlushingFacts, StorageAssumption DEF FilesOK, IInv, Flushing
<1>2. meta'[stream] = current /\ \A n \in BinlogName \ {stream} : meta'[n] = meta[n]
  BY <1>1, SaveFacts
<1>3. Written = payload[stream] /\ Describes(current, SubSeq(Written, 1, current.size))
  BY <1>1 DEF FilesOK, FilesInv, Written, ContentInv, CurrentDescribed, Flushing
<1>4. NameSet(index)' = NameSet(index) /\ NameSet(index) \subseteq BinlogName
  BY <1>1, SizesAreNumbers DEF NameSet
<1> QED BY <1>2, <1>3, <1>4 DEF ContentInv, FilesDescribed

LEMMA FlushMetaContent ==
  ASSUME FilesOK, ContentInv, FlushMeta
  PROVE  ContentInv'
<1>1. /\ pc = "flush_meta" /\ SaveBinlogMetadata /\ UNCHANGED <<index, payload>>
  BY DEF FlushMeta
<1>2. FilesDescribed'
  BY <1>1, SavedContent
<1>3. CASE after = "destroy"
  BY <1>2, <1>3, ForgetContent DEF FlushMeta
<1>4. CASE after = "close"
  <2>1. /\ pc' = "ready" /\ stream' = NoName /\ event_buffer' = << >> /\ boundary' = 0
        /\ gtids_in_event_buffer' = {} /\ ready_ts' = EmptyRange
        /\ incomplete_ts' = incomplete_ts
    BY <1>4 DEF FlushMeta, CloseStream
  <2>2. incomplete_ts = EmptyRange
    BY <1>4 DEF FilesOK, IInv, BufferInv
  <2>3. BufInv'
    BY <2>1, <2>2, EmptyBuffer
  <2> QED BY <1>2, <2>1, <2>3 DEF ContentInv, SeqInv, CurrentDescribed, RetryInv
<1>5. CASE after \notin {"destroy", "close"}
  <2>1. /\ pc' = "ready" /\ event_buffer' = Rest /\ boundary' = 0
        /\ gtids_in_event_buffer' = {} /\ ready_ts' = EmptyRange
        /\ UNCHANGED <<stream, tmp, current, incomplete_ts, ready_seq, incomplete_seq>>
    BY <1>5 DEF FlushMeta, Rest
  <2>2. Rest \in Seq(Event) /\ stream # NoName
    BY <1>1, BufferTypes, FlushingFacts, StorageAssumption DEF FilesOK, Flushing
  <2>3. ReadyEvents' = << >> /\ Rest' = Rest
    <3>1. SubSeq(Rest, 1, 0) = << >> /\ SubSeq(Rest, 1, Len(Rest)) = Rest
      BY <2>2, CutFacts
    <3>2. ReadyEvents' = SubSeq(event_buffer', 1, boundary')
      BY DEF ReadyEvents
    <3>3. Rest' = SubSeq(event_buffer', boundary' + 1, Len(event_buffer'))
      BY DEF Rest
    <3>4. 0 + 1 = 1
      OBVIOUS
    <3> QED BY <2>1, <3>1, <3>2, <3>3, <3>4
  <2>4. BufInv'
    <3>1. (\A i \in DOMAIN Rest : ~Rest[i].boundary)'
      BY <2>3 DEF ContentInv, BufInv
    <3>2. gtids_in_event_buffer' = CompletedGtids(ReadyEvents')
      BY <2>1, <2>3, EmptyFacts
    <3>3. IsRange(ready_ts', ReadyEvents') /\ IsRange(incomplete_ts', Rest')
      BY <2>1, <2>3, EmptyFacts DEF ContentInv, BufInv
    <3> QED BY <3>1, <3>2, <3>3 DEF BufInv
  <2>5. SeqInv'
    <3>1. current.seq = ready_seq /\ SeqAfter(ready_seq, Rest, incomplete_seq)
      BY <1>1, <2>2 DEF ContentInv, SeqInv, Flushing
    <3>2. SeqAfter(current.seq, << >>, ready_seq)
      BY <3>1, SeqFacts
    <3> QED BY <2>1, <2>3, <3>1, <3>2 DEF SeqInv
  <2>6. CurrentDescribed'
    <3>1. Describes(current, SubSeq(Written, 1, current.size))
      BY <1>1, <2>2 DEF ContentInv, CurrentDescribed, Flushing
    <3>2. Written' = Written
      BY <1>1, <2>1 DEF Written
    <3> QED BY <2>1, <3>1, <3>2 DEF CurrentDescribed
  <2> QED BY <1>2, <2>1, <2>4, <2>5, <2>6 DEF ContentInv, RetryInv
<1> QED BY <1>3, <1>4, <1>5

\* An exception out of a backend call: the destructor flushes once more what has
\* been written already, or what a failed upload has left in the temporary file.
LEMMA UnwindContent ==
  ASSUME FilesOK, ContentInv, FilesDescribed', NEW t, Unwind(t),
         \/ pc \in Opening
         \/ pc = "flush_write" /\ Backend = "s3" /\ t = tmp \o ReadyEvents
         \/ pc = "flush_meta" /\ t = tmp /\ UNCHANGED payload
  PROVE  ContentInv'
<1>1. CASE ~(has_event_data_to_flush /\ after # "destroy")
  BY <1>1, ForgetContent DEF Unwind
<1>2. CASE has_event_data_to_flush /\ after # "destroy"
  <2>1. /\ pc' = "flush_write" /\ tmp' = t /\ boundary # 0 /\ ~Retried
        /\ UNCHANGED <<current, stream, buffers>>
    BY <1>2 DEF Unwind, has_event_data_to_flush, Retried
  <2>2. IInv /\ pc \notin Opening
    <3>1. IInv /\ StreamInv /\ TypeOK
      BY DEF FilesOK, IInv
    <3>2. pc \in Opening => event_buffer = << >>
      BY <3>1 DEF StreamInv
    <3>3. event_buffer = << >> => boundary = 0
      BY <3>1, BufferTypes
    <3> QED BY <2>1, <3>1, <3>2, <3>3
  <2>3. /\ pc \in Flushing /\ stream \in BinlogName /\ stream # NoName
        /\ current.size \in Nat
    BY <2>2, FlushingFacts, StorageAssumption DEF Flushing
  <2>4. BufInv' /\ ReadyEvents' = ReadyEvents /\ Rest' = Rest
    BY <2>1, SameBuffer DEF ContentInv, buffers
  <2>5. SeqInv'
    BY <2>1, <2>3, <2>4, SameNumbers DEF ContentInv, buffers
  <2>6. Describes(current, SubSeq(Written, 1, current.size))
    BY <2>3 DEF ContentInv, CurrentDescribed
  <2>7. CASE pc = "flush_meta"
    <3>1. Written' = Written
      BY <2>1, <2>2, <2>7 DEF Written
    <3>2. Len(Written) = current.size
      BY <2>1, <2>7 DEF FilesOK, ExactInv, Flushed, FilesInv, Written
    <3> QED BY <2>1, <2>4, <2>5, <2>6, <3>1, <3>2
        DEF ContentInv, CurrentDescribed, RetryInv
  <2>8. CASE pc = "flush_write"
    <3>1. Written = tmp /\ Written' = tmp \o ReadyEvents
      BY <2>1, <2>2, <2>8 DEF Written
    <3>2. Len(Written) = current.size /\ Written \in Seq(Event)
      BY <2>1, <2>2, <2>3, <2>8, SettledWritten, WrittenType
    <3>3. /\ ReadyEvents \in Seq(Event) /\ Len(ReadyEvents) = boundary /\ boundary \in Nat
      BY <2>1, <2>2, ReadyEventsFacts DEF IInv
    <3>4. \A i \in 1 .. boundary : ReadyEvents[i] = event_buffer[i]
      BY <2>2, BufferTypes DEF ReadyEvents
    <3>5. /\ Len(tmp \o ReadyEvents) = current.size + boundary
          /\ \A i \in 1 .. boundary : (tmp \o ReadyEvents)[current.size + i] = ReadyEvents[i]
      <4>1. /\ Len(tmp \o ReadyEvents) = Len(tmp) + Len(ReadyEvents)
            /\ \A i \in 1 .. Len(ReadyEvents) :
                 (tmp \o ReadyEvents)[Len(tmp) + i] = ReadyEvents[i]
        BY <3>1, <3>2, <3>3, ConcatElements
      <4>2. Len(tmp) = current.size
        BY <3>1, <3>2
      <4> QED BY <3>3, <4>1, <4>2
    <3>6. SubSeq(tmp \o ReadyEvents, 1, current.size) = SubSeq(tmp, 1, current.size)
      <4>1. SubSeq(tmp \o ReadyEvents, 1, Len(tmp)) = tmp
        BY <3>1, <3>2, <3>3, AppendParts
      <4>2. SubSeq(tmp, 1, Len(tmp)) = tmp
        BY <3>1, <3>2
      <4> QED BY <3>1, <3>2, <4>1, <4>2
    <3>7. CurrentDescribed'
      BY <2>1, <2>6, <3>1, <3>6 DEF CurrentDescribed
    <3>8. current' = current /\ boundary' = boundary /\ event_buffer' = event_buffer
      BY <2>1 DEF buffers
    <3>9. RetryInv'
      <4>1. \A i \in 1 .. boundary :
              (tmp \o ReadyEvents)[current.size + i] = event_buffer[i]
        BY <3>4, <3>5
      <4>2. current.size + boundary <= Len(tmp \o ReadyEvents)
        <5>1. ASSUME NEW a \in Nat, NEW b \in Nat, NEW l, l = a + b PROVE a + b <= l
          BY <5>1
        <5> QED BY <2>3, <3>3, <3>5, <5>1, Zenon
      <4>3. /\ current'.size + boundary' <= Len(Written')
            /\ \A i \in 1 .. boundary' : Written'[current'.size + i] = event_buffer'[i]
        BY <3>1, <3>8, <4>1, <4>2
      <4> QED BY <4>3 DEF RetryInv
    <3> QED BY <2>4, <2>5, <3>7, <3>9 DEF ContentInv
  <2> QED BY <2>2, <2>7, <2>8
<1> QED BY <1>1, <1>2

LEMMA FailuresContent ==
  ASSUME FilesOK, FilesOK', Keeps, ContentInv, WriteFails \/ PutFails \/ Kill
  PROVE  ContentInv'
<1>1. IInv /\ IInv'
  BY DEF FilesOK
<1>2. CASE WriteFails
  <2>1. UNCHANGED <<index, meta>> /\ pc \in {"open_magic", "flush_write"}
    BY <1>2 DEF WriteFails
  <2>2. FilesDescribed'
    <3>1. NameSet(index)' = NameSet(index)
      BY <2>1 DEF NameSet
    <3> QED BY <1>1, <2>1, <3>1, KeptFiles DEF ContentInv
  <2>3. CASE pc' = "down" /\ ForgetMemory
    BY <2>2, <2>3, ForgetContent
  <2>4. CASE Backend = "s3" /\ Unwind(tmp \o DataToWrite)
    <3>1. pc \in Opening \/ (pc = "flush_write" /\ DataToWrite = ReadyEvents)
      BY <2>1 DEF Opening, DataToWrite
    <3> QED BY <2>2, <2>4, <3>1, UnwindContent
  <2> QED BY <1>2, <2>3, <2>4 DEF WriteFails
<1>3. CASE Kill
  <2>1. UNCHANGED <<index, meta>> /\ pc' = "down" /\ ForgetMemory
    BY <1>3 DEF Kill
  <2>2. NameSet(index)' = NameSet(index)
    BY <2>1 DEF NameSet
  <2> QED BY <1>1, <2>1, <2>2, KeptFiles, ForgetContent DEF ContentInv
<1>4. CASE PutFails
  <2>1. Unwind(tmp) /\ UNCHANGED payload /\ pc \in {"open_meta", "open_index", "flush_meta"}
    BY <1>4 DEF PutFails
  <2>2. FilesDescribed'
    <3>1. CASE UNCHANGED <<index, meta>>
      BY <2>1, <3>1, SameFiles DEF ContentInv
    <3>2. CASE pc = "open_index" /\ index' = records /\ UNCHANGED meta
      BY <2>1, <3>2, IndexedContent
    <3>3. CASE pc = "flush_meta" /\ SaveBinlogMetadata /\ UNCHANGED index
      BY <2>1, <3>3, SavedContent
    <3>4. CASE pc = "open_meta" /\ SaveBinlogMetadata /\ UNCHANGED index
      <4>1. stream \notin NameSet(index) /\ stream \in BinlogName /\ TypeOK
        BY <1>1, <3>4 DEF IInv, ObjectsInv, StreamInv, TypeOK, BackendCalls
      <4>2. \A n \in NameSet(index) : meta'[n] = meta[n]
        BY <1>1, <3>4, <4>1, SaveFacts, SizesAreNumbers
      <4>3. NameSet(index)' = NameSet(index)
        BY <3>4 DEF NameSet
      <4> QED BY <1>1, <4>2, <4>3, KeptFiles DEF ContentInv
    <3> QED BY <1>4, <3>1, <3>2, <3>3, <3>4 DEF PutFails
  <2> QED BY <2>1, <2>2, UnwindContent DEF Opening
<1> QED BY <1>2, <1>3, <1>4

LEMMA NextContent ==
  ASSUME FilesOK, ContentInv, Next
  PROVE  ContentInv'
<1>1. FilesOK' /\ Keeps /\ IInv'
  BY NextExact DEF FilesOK
<1> QED BY <1>1, ConstructContent, CallContent, OpenContent, NewFileContent,
           OpenIndexContent, FlushWriteContent, FlushMetaContent, FailuresContent
        DEF Next, Call, BackendStep

LEMMA ContentHolds == Spec => [](FilesOK /\ ContentInv)
<1>1. Init => ContentInv
  <2> SUFFICES ASSUME Init PROVE ContentInv
    OBVIOUS
  <2>1. IInv /\ event_buffer = << >> /\ NameSet(index) = {}
    BY InitEstablishes DEF Init, NameSet
  <2>2. ReadyEvents = << >> /\ Rest = << >>
    BY <2>1, BufferTypes
  <2>3. BufInv
    BY <2>2, EmptyFacts DEF BufInv, Init
  <2> QED BY <2>1, <2>3
      DEF ContentInv, SeqInv, FilesDescribed, CurrentDescribed, RetryInv, Init, Flushing
<1>2. FilesOK /\ ContentInv /\ [Next]_vars => (FilesOK /\ ContentInv)'
  <2>1. CASE Next
    BY <2>1, NextExact, NextContent
  <2>2. ASSUME FilesOK, ContentInv, UNCHANGED vars PROVE (FilesOK /\ ContentInv)'
    <3>1. FilesOK'
      BY <2>2, StutterExact
    <3>2. ReadyEvents' = ReadyEvents /\ Rest' = Rest /\ Written' = Written
          /\ NameSet(index)' = NameSet(index)
      BY <2>2 DEF ReadyEvents, Rest, Written, NameSet, vars, objects, memory, buffers
    <3>3. BufInv' /\ SeqInv'
      BY <2>2, <3>2 DEF ContentInv, BufInv, SeqInv, vars, memory, buffers
    <3>4. FilesDescribed' /\ CurrentDescribed' /\ RetryInv'
      BY <2>2, <3>2
      DEF ContentInv, FilesDescribed, CurrentDescribed, RetryInv, vars, objects, memory, buffers
    <3> QED BY <3>1, <3>3, <3>4 DEF ContentInv
  <2> QED BY <2>1, <2>2
<1> QED BY <1>1, <1>2, FilesInitEstablishes, PTL DEF Spec

LEMMA ContentIsDescribed ==
  ASSUME FilesOK, ContentInv
  PROVE  MetadataDescribesPayload
<1> SUFFICES ASSUME NEW n \in NameSet(index), meta[n].size = Len(payload[n])
             PROVE  /\ ReplicationMode = "gtid" => meta[n].added = CompletedGtids(payload[n])
                    /\ IsRange(meta[n].ts, payload[n])
                    /\ IsLastSequenceNumber(meta[n].seq, payload[n])
  BY DEF MetadataDescribesPayload, IsRange
<1>1. payload[n] \in Seq(Event)
  BY SizesAreNumbers DEF FilesOK
<1>2. SubSeq(payload[n], 1, meta[n].size) = payload[n]
  BY <1>1
<1>3. Describes(meta[n], payload[n])
  BY <1>2 DEF ContentInv, FilesDescribed
<1> QED BY <1>3 DEF Describes, SeqAfter, IsLastSequenceNumber

\* Whatever was killed, failed or discarded before: the metadata object of a file
\* whose payload has the size it records, the only kind the constructor accepts,
\* has the gtids of the transactions in the payload, the tight range of its
\* timestamps and its last sequence number.
THEOREM MetadataIsExact == Spec => []MetadataDescribesPayload
<1>1. FilesOK /\ ContentInv => MetadataDescribesPayload
  BY ContentIsDescribed
<1> QED BY <1>1, ContentHolds, PTL

-----------------------------------------------------------------------------
(* The gtids the storage reports to the server *)

\* The gtids the first file starts with and those of all files.
Total == meta[index[1]].previous \cup UNION {meta[n].added : n \in NameSet(index)}

\* A file starts with the gtids of the files before it.
Chained ==
  index # << >> =>
    meta[index[Len(index)]].previous =
      meta[index[1]].previous \cup UNION {meta[index[j]].added : j \in 1 .. Len(index) - 1}

\* A new file is given what the latest one starts with and holds; a flush adds to
\* what a file holds, not to what it starts with.
ChainInv ==
  ReplicationMode = "gtid" =>
    /\ Chained
    /\ pc = "open_magic" /\ index # << >> => current = meta[index[Len(index)]]
    /\ pc \in {"open_meta", "open_index"} /\ index # << >> => current.previous = Total
    /\ pc \in Flushing => current.previous = meta[stream].previous

LEMMA IndexFacts ==
  ASSUME IInv, index # << >>
  PROVE  /\ index \in Seq(BinlogName) /\ Len(index) \in Nat \ {0}
         /\ DOMAIN index = 1 .. Len(index)
         /\ index[1] \in NameSet(index) /\ index[Len(index)] \in NameSet(index)
         /\ \A j \in 1 .. Len(index) : index[j] \in NameSet(index)
         /\ NameSet(index) = {index[j] : j \in 1 .. Len(index) - 1} \cup {index[Len(index)]}
<1>1. index \in Seq(BinlogName)
  BY SizesAreNumbers
<1>2. Len(index) \in Nat \ {0} /\ DOMAIN index = 1 .. Len(index)
  BY <1>1
<1>3. /\ 1 \in 1 .. Len(index) /\ Len(index) \in 1 .. Len(index)
      /\ \A j \in 1 .. Len(index) - 1 : j \in 1 .. Len(index)
      /\ \A j \in 1 .. Len(index) : j \in 1 .. Len(index) - 1 \/ j = Len(index)
  <2>1. ASSUME NEW k \in Nat \ {0}
        PROVE  /\ 1 \in 1 .. k /\ k \in 1 .. k
               /\ \A j \in 1 .. k - 1 : j \in 1 .. k
               /\ \A j \in 1 .. k : j \in 1 .. k - 1 \/ j = k
    OBVIOUS
  <2> QED BY <1>2, <2>1, Zenon
<1>4. \A j \in 1 .. Len(index) : index[j] \in NameSet(index)
  BY <1>2 DEF NameSet
<1>5. NameSet(index) = {index[j] : j \in 1 .. Len(index) - 1} \cup {index[Len(index)]}
  <2>1. NameSet(index) = {index[j] : j \in 1 .. Len(index)}
    BY <1>2 DEF NameSet
  <2> QED BY <1>3, <2>1, Zenon
<1> QED BY <1>1, <1>2, <1>3, <1>4, <1>5

\* The gtids of the latest file and of those before it are all there are.
LEMMA ChainedTotal ==
  ASSUME IInv, Chained, index # << >>
  PROVE  meta[index[Len(index)]].previous \cup meta[index[Len(index)]].added = Total
<1>1. NameSet(index) = {index[j] : j \in 1 .. Len(index) - 1} \cup {index[Len(index)]}
  BY IndexFacts
<1> DEFINE last == index[Len(index)]
           U == UNION {meta[n].added : n \in NameSet(index)}
           V == UNION {meta[index[j]].added : j \in 1 .. Len(index) - 1}
<1>2. ASSUME NEW g \in U PROVE g \in V \cup meta[last].added
  <2>1. PICK n \in NameSet(index) : g \in meta[n].added
    OBVIOUS
  <2>2. CASE n = last
    BY <2>1, <2>2
  <2>3. CASE n # last
    <3>1. PICK j \in 1 .. Len(index) - 1 : n = index[j]
      BY <1>1, <2>3
    <3> QED BY <2>1, <3>1
  <2> QED BY <2>2, <2>3
<1>3. ASSUME NEW g \in V PROVE g \in U
  <2>1. PICK j \in 1 .. Len(index) - 1 : g \in meta[index[j]].added
    OBVIOUS
  <2>2. index[j] \in NameSet(index)
    BY <1>1
  <2> QED BY <2>1, <2>2
<1>4. ASSUME NEW g \in meta[last].added PROVE g \in U
  <2>1. last \in NameSet(index)
    BY <1>1
  <2> QED BY <2>1
<1>5. meta[last].previous = meta[index[1]].previous \cup V
  BY DEF Chained
<1>6. Total = meta[index[1]].previous \cup U
  BY DEF Total
<1> HIDE DEF last, U, V
<1>7. U = V \cup meta[last].added
  BY <1>2, <1>3, <1>4
<1>8. meta[last].previous \cup meta[last].added = Total
  BY <1>5, <1>6, <1>7
<1> QED BY <1>8 DEF last

\* The chain with another metadata and the same index.
LEMMA StillChained ==
  ASSUME index' = index,
         meta'[index[Len(index)]].previous
           = meta'[index[1]].previous
               \cup UNION {meta'[index[j]].added : j \in 1 .. Len(index) - 1}
  PROVE  Chained'
BY Zenon DEF Chained

LEMMA SameChain ==
  ASSUME IInv, index' = index, \A n \in NameSet(index) : meta'[n] = meta[n]
  PROVE  (Chained => Chained') /\ (index # << >> => Total' = Total)
<1>1. NameSet(index)' = NameSet(index)
  BY DEF NameSet
<1>2. CASE index = << >>
  BY <1>2 DEF Chained
<1>3. CASE index # << >>
  <2>1. \A j \in 1 .. Len(index) : meta'[index[j]] = meta[index[j]]
    BY <1>3, IndexFacts
  <2>2. Len(index) \in Nat \ {0}
    BY <1>3, IndexFacts
  <2>3. Chained => Chained'
    <3>1. /\ meta'[index[Len(index)]] = meta[index[Len(index)]]
          /\ meta'[index[1]] = meta[index[1]]
      BY <1>3, IndexFacts
    <3>2. \A j \in 1 .. Len(index) - 1 : meta'[index[j]] = meta[index[j]]
      BY <2>1, <2>2
    <3>3. {meta'[index[j]].added : j \in 1 .. Len(index) - 1}
            = {meta[index[j]].added : j \in 1 .. Len(index) - 1}
      BY <3>2, Zenon
    <3> SUFFICES ASSUME Chained PROVE Chained'
      OBVIOUS
    <3>4. meta[index[Len(index)]].previous
            = meta[index[1]].previous \cup UNION {meta[index[j]].added : j \in 1 .. Len(index) - 1}
      BY <1>3, Zenon DEF Chained
    <3>5. meta'[index[Len(index)]].previous
            = meta'[index[1]].previous \cup UNION {meta'[index[j]].added : j \in 1 .. Len(index) - 1}
      BY <3>1, <3>3, <3>4, Zenon
    <3> QED BY <3>5, StillChained
  <2>4. Total' = Total
    <3>1. NameSet(index)' = NameSet(index) /\ meta'[index'[1]] = meta[index[1]]
      BY <1>3, IndexFacts DEF NameSet
    <3>2. {meta'[n].added : n \in NameSet(index)} = {meta[n].added : n \in NameSet(index)}
      BY Zenon
    <3> QED BY <3>1, <3>2, Zenon DEF Total
  <2> QED BY <2>3, <2>4
<1> QED BY <1>2, <1>3

\* The metadata of the latest file is replaced by a record that starts with the
\* same gtids.
LEMMA SavedChain ==
  ASSUME FilesOK, Chained, pc = "flush_meta", SaveBinlogMetadata, index' = index,
         current.previous = meta[stream].previous
  PROVE  Chained' /\ meta'[stream] = current
<1>1. /\ stream \in BinlogName /\ index # << >> /\ stream = index[Len(index)] /\ TypeOK /\ IInv
  BY FlushingFacts DEF FilesOK, IInv, Flushing
<1>2. meta'[stream] = current /\ \A n \in BinlogName \ {stream} : meta'[n] = meta[n]
  BY <1>1, SaveFacts
<1>3. /\ index \in Seq(BinlogName) /\ Len(index) \in Nat \ {0}
      /\ DOMAIN index = 1 .. Len(index)
  BY <1>1, IndexFacts
<1>4. ASSUME NEW j \in 1 .. Len(index) - 1 PROVE meta'[index[j]] = meta[index[j]]
  <2>1. j \in DOMAIN index /\ Len(index) \in DOMAIN index /\ j # Len(index)
    <3>1. ASSUME NEW k \in Nat \ {0}, NEW i \in 1 .. k - 1
          PROVE  i \in 1 .. k /\ k \in 1 .. k /\ i # k
      OBVIOUS
    <3> QED BY <1>3, <3>1
  <2>2. index[j] # stream
    BY <1>1, <2>1 DEF FilesOK, FilesInv, Distinct
  <2>3. index[j] \in BinlogName
    <3>1. index[j] \in NameSet(index) /\ NameSet(index) \subseteq BinlogName
      BY <1>1, <1>3, <2>1, IndexFacts, SizesAreNumbers
    <3> QED BY <3>1, Zenon
  <2> QED BY <1>2, <2>2, <2>3, Zenon
<1>5. meta'[index[1]].previous = meta[index[1]].previous
  <2>1. CASE Len(index) = 1
    BY <1>1, <1>2, <2>1
  <2>2. CASE Len(index) # 1
    BY <1>3, <1>4, <2>2
  <2> QED BY <2>1, <2>2
<1>6. Chained'
  <2>1. {meta'[index[j]].added : j \in 1 .. Len(index) - 1}
          = {meta[index[j]].added : j \in 1 .. Len(index) - 1}
    BY <1>4, Zenon
  <2>2. meta'[index[Len(index)]].previous = meta[index[Len(index)]].previous
    BY <1>1, <1>2, Zenon
  <2>3. meta[index[Len(index)]].previous
          = meta[index[1]].previous \cup UNION {meta[index[j]].added : j \in 1 .. Len(index) - 1}
    BY <1>1, Zenon DEF Chained
  <2>4. meta'[index[Len(index)]].previous
          = meta'[index[1]].previous \cup UNION {meta'[index[j]].added : j \in 1 .. Len(index) - 1}
    BY <1>5, <2>1, <2>2, <2>3, Zenon
  <2> QED BY <2>4, StillChained
<1> QED BY <1>2, <1>6

\* The index is saved with a new name, whose file starts with all gtids.
LEMMA IndexedChain ==
  ASSUME FilesOK, pc = "open_index", index' = records, meta' = meta,
         index # << >> => current.previous = Total
  PROVE  Chained'
<1>1. /\ records = Append(index, stream) /\ meta[stream] = current
      /\ IInv /\ index \in Seq(BinlogName)
  BY SizesAreNumbers DEF FilesOK, FilesInv
<1>2. /\ Len(index') = Len(index) + 1 /\ index'[Len(index')] = stream
      /\ \A j \in 1 .. Len(index) : index'[j] = index[j]
      /\ Len(index) \in Nat
  <2>1. ASSUME NEW s \in Seq(BinlogName), NEW n \in BinlogName
        PROVE  /\ Len(Append(s, n)) = Len(s) + 1 /\ Append(s, n)[Len(s) + 1] = n
               /\ \A j \in 1 .. Len(s) : Append(s, n)[j] = s[j]
               /\ Len(s) \in Nat
    OBVIOUS
  <2>2. stream \in BinlogName
    BY DEF FilesOK, IInv, TypeOK, StreamInv, BackendCalls
  <2> QED BY <1>1, <2>1, <2>2, Zenon
<1>3. CASE index = << >>
  <2>1. Len(index') = 1 /\ index'[1] = stream
    BY <1>2, <1>3
  <2> QED BY <2>1 DEF Chained
<1>4. CASE index # << >>
  <2>1. {meta[index'[j]].added : j \in 1 .. Len(index') - 1}
          = {meta[n].added : n \in NameSet(index)}
    <3>1. Len(index') - 1 = Len(index) /\ NameSet(index) = {index[j] : j \in 1 .. Len(index)}
      BY <1>1, <1>2 DEF NameSet
    <3>2. \A j \in 1 .. Len(index) : meta[index'[j]].added = meta[index[j]].added
      BY <1>2, Zenon
    <3>3. {meta[index'[j]].added : j \in 1 .. Len(index)}
            = {meta[index[j]].added : j \in 1 .. Len(index)}
      BY <3>2, Zenon
    <3>4. {meta[n].added : n \in {index[j] : j \in 1 .. Len(index)}}
            = {meta[index[j]].added : j \in 1 .. Len(index)}
      OBVIOUS
    <3> QED BY <3>1, <3>3, <3>4, Zenon
  <2>2. index'[1] = index[1]
    BY <1>1, <1>2, <1>4
  <2>3. meta[stream].previous = Total
    BY <1>1, <1>4
  <2>4. meta'[index'[Len(index')]].previous = meta[stream].previous
    BY <1>2
  <2>5. meta'[index'[1]].previous = meta[index[1]].previous
    BY <2>2
  <2>6. UNION {meta'[index'[j]].added : j \in 1 .. Len(index') - 1}
          = UNION {meta[n].added : n \in NameSet(index)}
    BY <2>1
  <2>7. meta'[index'[Len(index')]].previous
          = meta'[index'[1]].previous \cup UNION {meta'[index'[j]].added : j \in 1 .. Len(index') - 1}
    BY <2>3, <2>4, <2>5, <2>6 DEF Total
  <2> QED BY <2>7 DEF Chained
<1> QED BY <1>3, <1>4

\* The steps between operations, or that end the process there.
LEMMA ReadyChain ==
  ASSUME FilesOK, IInv', ReplicationMode = "gtid", Chained, pc \in {"ready"} \cup Off,
         pc' \in {"ready", "flush_write"} \cup Off,
         UNCHANGED <<index, meta>>,
         pc' = "flush_write" => UNCHANGED <<current, stream>> /\ pc = "ready"
  PROVE  ChainInv'
<1>1. Chained'
  BY SameChain DEF FilesOK
<1>2. pc' = "flush_write" => current'.previous = meta'[stream'].previous
  <2> SUFFICES ASSUME pc' = "flush_write"
               PROVE  current.previous = meta[stream].previous
    OBVIOUS
  <2>1. stream # NoName
    BY DEF IInv, StreamInv, BackendCalls
  <2>2. ~Retried
    BY ReadyIsSettled DEF FilesOK, Retried
  <2>3. current = meta[stream]
    BY <2>1, <2>2, SettledWritten
  <2> QED BY <2>3
<1> QED BY <1>1, <1>2 DEF ChainInv, Flushing, Off

LEMMA CallChain ==
  ASSUME FilesOK, IInv', ReplicationMode = "gtid", ChainInv, Construct \/ Call
  PROVE  ChainInv'
<1>0. Chained /\ IInv
  BY DEF ChainInv, FilesOK
<1>1. CASE Construct
  BY <1>0, <1>1, ReadyChain DEF Construct, Off
<1>2. CASE SetPurged \/ Write \/ Close \/ DiscardAndFlush
  <2>1. /\ pc = "ready" /\ pc' \in {"ready", "flush_write"}
        /\ UNCHANGED <<objects, records, current>>
        /\ stream' = NoName \/ UNCHANGED <<stream, tmp>>
    BY <1>2, CallSteps
  <2>2. pc' = "flush_write" => stream' # NoName
    BY DEF IInv, StreamInv, BackendCalls
  <2> QED BY <1>0, <2>1, <2>2, ReadyChain DEF objects
<1>3. ASSUME Destroy, pc = "ready", UNCHANGED objects PROVE ChainInv'
  <2>1. pc' \in {"flush_write", "down"} /\ (pc' = "flush_write" => UNCHANGED <<current, stream>>)
    BY <1>3 DEF Destroy
  <2> QED BY <1>0, <1>3, <2>1, ReadyChain DEF objects, Off
<1>4. CASE Stop
  BY <1>3, <1>4 DEF Stop
<1>5. CASE Open
  <2>1. PICK name \in BinlogName :
          OpenExisting(name) \/ OpenNew(name) \/ OpenNotLatest(name)
    BY <1>5 DEF Open
  <2>2. CASE OpenExisting(name)
    BY <1>0, <2>2, ReadyChain DEF OpenExisting, objects
  <2>3. CASE OpenNew(name)
    <3>1. pc = "ready" /\ pc' = "open_magic" /\ UNCHANGED <<index, meta, current>>
      BY <2>3 DEF OpenNew
    <3>2. Settled /\ index = records
      BY <1>0, <3>1, ReadyIsSettled DEF FilesOK
    <3>3. Chained'
      BY <1>0, <3>1, SameChain
    <3> QED BY <3>1, <3>2, <3>3 DEF ChainInv, Settled, Flushing
  <2>4. CASE OpenNotLatest(name)
    BY <1>3, <2>4 DEF OpenNotLatest
  <2> QED BY <2>1, <2>2, <2>3, <2>4
<1> QED BY <1>1, <1>2, <1>4, <1>5 DEF Call


LEMMA OpenMagicChain ==
  ASSUME FilesOK, ReplicationMode = "gtid", ChainInv, OpenMagic
  PROVE  ChainInv'
<1>1. /\ pc = "open_magic" /\ pc' = "open_meta" /\ UNCHANGED <<index, meta>>
      /\ current' = [EmptyRecord EXCEPT !.size = magic_binlog_offset, !.previous = get_gtids]
      /\ Chained /\ IInv
  BY DEF OpenMagic, ChainInv, FilesOK
<1>2. Chained' /\ (index # << >> => Total' = Total)
  BY <1>1, SameChain
<1>3. current'.previous = get_gtids
  BY <1>1 DEF EmptyRecord
<1>4. index = records
  BY <1>1 DEF IInv, ObjectsInv
<1>5. index # << >> => get_gtids = Total
  <2> SUFFICES ASSUME index # << >> PROVE get_gtids = Total
    OBVIOUS
  <2>1. get_gtids = current.previous \cup current.added
    BY <1>4 DEF get_gtids, is_empty
  <2>2. current = meta[index[Len(index)]]
    BY <1>1 DEF ChainInv
  <2> QED BY <1>1, <2>1, <2>2, ChainedTotal
<1> QED BY <1>1, <1>2, <1>3, <1>5 DEF ChainInv, Flushing

LEMMA OpenMetaChain ==
  ASSUME FilesOK, SaveBinlogMetadata, index' = index, pc = "open_meta"
  PROVE  (Chained => Chained') /\ (index # << >> => Total' = Total)
<1>1. stream \in BinlogName /\ stream \notin NameSet(index) /\ TypeOK /\ IInv
  BY DEF FilesOK, IInv, TypeOK, StreamInv, ObjectsInv, BackendCalls
<1>2. \A n \in NameSet(index) : meta'[n] = meta[n]
  BY <1>1, SaveFacts, SizesAreNumbers
<1> QED BY <1>1, <1>2, SameChain

LEMMA BackendChain ==
  ASSUME FilesOK, ReplicationMode = "gtid", ChainInv, BackendStep
  PROVE  ChainInv'
<1>0. Chained /\ IInv
  BY DEF ChainInv, FilesOK
<1>1. CASE OpenMeta
  <2>1. /\ pc = "open_meta" /\ pc' = "open_index" /\ SaveBinlogMetadata
        /\ UNCHANGED <<index, current>>
    BY <1>1 DEF OpenMeta, memory
  <2> QED BY <1>0, <2>1, OpenMetaChain DEF ChainInv, Flushing
<1>2. CASE OpenIndex
  <2>1. pc = "open_index" /\ pc' = "ready" /\ index' = records /\ UNCHANGED meta
    BY <1>2 DEF OpenIndex
  <2>2. Chained'
    BY <2>1, IndexedChain DEF ChainInv
  <2> QED BY <2>1, <2>2 DEF ChainInv, Flushing
<1>3. CASE FlushWrite
  <2>1. /\ pc = "flush_write" /\ pc' = "flush_meta" /\ UNCHANGED <<index, meta, stream>>
        /\ current \in Metadata
        /\ current' = [current EXCEPT !.size = @ + boundary,
                                      !.added = @ \cup gtids_in_event_buffer,
                                      !.ts = add_range(@, ready_ts),
                                      !.seq = ready_seq]
    BY <1>0, <1>3 DEF FlushWrite, IInv, TypeOK
  <2>2. current'.previous = current.previous
    BY <2>1 DEF Metadata
  <2>3. Chained'
    BY <1>0, <2>1, SameChain
  <2> QED BY <2>1, <2>2, <2>3 DEF ChainInv, Flushing
<1>4. CASE FlushMeta
  <2>1. pc = "flush_meta" /\ pc' \in {"down", "ready"} /\ SaveBinlogMetadata /\ UNCHANGED index
    BY <1>4 DEF FlushMeta, CloseStream
  <2>2. Chained'
    BY <1>0, <2>1, SavedChain DEF ChainInv, Flushing
  <2> QED BY <2>1, <2>2 DEF ChainInv, Flushing
<1> QED BY <1>1, <1>2, <1>3, <1>4, OpenMagicChain DEF BackendStep

LEMMA FailuresChain ==
  ASSUME FilesOK, ReplicationMode = "gtid", ChainInv, WriteFails \/ PutFails \/ Kill
  PROVE  ChainInv'
<1>0. Chained /\ IInv
  BY DEF ChainInv, FilesOK
<1>1. ASSUME pc' = "down", Chained' PROVE ChainInv'
  BY <1>1 DEF ChainInv, Flushing
<1>2. ASSUME NEW t, Unwind(t), Chained', pc \notin Flushing, pc \in BackendCalls
      PROVE  ChainInv'
  <2>1. pc \in Opening
    BY <1>2 DEF BackendCalls, Opening, Flushing
  <2>2. event_buffer = << >>
    BY <1>0, <2>1 DEF IInv, StreamInv
  <2>3. boundary = 0
    BY <1>0, <2>2, BufferTypes
  <2> QED BY <1>1, <1>2, <2>3 DEF Unwind, has_event_data_to_flush
<1>3. ASSUME NEW t, Unwind(t), Chained', current.previous = meta'[stream].previous
      PROVE  ChainInv'
  <2>1. \/ pc' = "down"
        \/ pc' = "flush_write" /\ UNCHANGED <<current, stream>>
    BY <1>3 DEF Unwind
  <2> QED BY <1>1, <1>3, <2>1 DEF ChainInv, Flushing
<1>4. CASE Kill
  <2>1. UNCHANGED <<index, meta>> /\ pc' = "down"
    BY <1>4 DEF Kill
  <2> QED BY <1>0, <1>1, <2>1, SameChain
<1>5. CASE WriteFails
  <2>1. pc \in {"open_magic", "flush_write"} /\ UNCHANGED <<index, meta>>
    BY <1>5 DEF WriteFails
  <2>2. Chained'
    BY <1>0, <2>1, SameChain
  <2>3. \/ pc' = "down"
        \/ Unwind(tmp \o DataToWrite)
    BY <1>5 DEF WriteFails
  <2>4. CASE pc = "open_magic"
    BY <1>1, <1>2, <2>2, <2>3, <2>4 DEF BackendCalls, Flushing
  <2>5. CASE pc = "flush_write"
    <3>1. current.previous = meta'[stream].previous
      BY <2>1, <2>5 DEF ChainInv, Flushing
    <3> QED BY <1>1, <1>3, <2>2, <2>3, <3>1
  <2> QED BY <2>1, <2>4, <2>5
<1>6. CASE PutFails
  <2>1. Unwind(tmp)
    BY <1>6 DEF PutFails
  <2>2. CASE pc = "flush_meta" /\ (SaveBinlogMetadata \/ UNCHANGED <<metas, meta>>) /\ UNCHANGED index
    <3>1. current.previous = meta[stream].previous
      BY <2>2 DEF ChainInv, Flushing
    <3>2. Chained' /\ current.previous = meta'[stream].previous
      BY <1>0, <2>2, <3>1, SavedChain, SameChain
    <3> QED BY <1>3, <2>1, <3>2
  <2>3. CASE pc = "open_meta" /\ (SaveBinlogMetadata \/ UNCHANGED <<metas, meta>>) /\ UNCHANGED index
    <3>1. Chained'
      BY <1>0, <2>3, OpenMetaChain, SameChain
    <3> QED BY <1>2, <2>1, <2>3, <3>1 DEF BackendCalls, Flushing
  <2>4. CASE pc = "open_index" /\ (index' = records \/ UNCHANGED index) /\ UNCHANGED <<metas, meta>>
    <3>1. Chained'
      BY <1>0, <2>4, IndexedChain, SameChain DEF ChainInv
    <3> QED BY <1>2, <2>1, <2>4, <3>1 DEF BackendCalls, Flushing
  <2> QED BY <1>6, <2>2, <2>3, <2>4 DEF PutFails
<1> QED BY <1>4, <1>5, <1>6

LEMMA NextChain ==
  ASSUME FilesOK, ChainInv, [Next]_vars
  PROVE  ChainInv'
<1>1. CASE ReplicationMode # "gtid"
  BY <1>1 DEF ChainInv
<1>2. CASE ReplicationMode = "gtid" /\ Next
  <2>1. IInv'
    BY <1>2, NextExact DEF FilesOK
  <2> QED BY <1>2, <2>1, CallChain, BackendChain, FailuresChain DEF Next
<1>3. CASE ReplicationMode = "gtid" /\ UNCHANGED vars
  <2>1. UNCHANGED <<index, meta, pc, current, stream>>
    BY <1>3 DEF vars, objects, memory
  <2>2. (Chained => Chained') /\ (index # << >> => Total' = Total)
    BY <2>1, SameChain DEF FilesOK
  <2> QED BY <2>1, <2>2 DEF ChainInv
<1> QED BY <1>1, <1>2, <1>3

LEMMA ChainHolds == Spec => []ChainInv
<1>1. Init => ChainInv
  BY DEF Init, ChainInv, Chained, Flushing
<1>2. FilesOK /\ ChainInv /\ [Next]_vars => ChainInv'
  BY NextChain
<1> QED BY <1>1, <1>2, ContentHolds, PTL DEF Spec

\* What the metadata of the latest file says, between two operations.
LEMMA ReportedGtids ==
  ASSUME FilesOK, ContentInv, ChainInv, ReplicationMode = "gtid", pc = "ready"
  PROVE  ResumeSetIsExact
<1> SUFFICES ASSUME records # << >>
             PROVE  get_gtids = meta[index[1]].previous
                      \cup UNION {CompletedGtids(payload[n]) : n \in NameSet(index)}
  BY DEF ResumeSetIsExact, is_empty
<1>1. IInv /\ Settled /\ index = records /\ index # << >>
  BY ReadyIsSettled DEF FilesOK
<1>2. get_gtids = current.previous \cup current.added
  BY DEF get_gtids, is_empty
<1>3. current = meta[index[Len(index)]]
  BY <1>1 DEF Settled
<1>4. get_gtids = Total
  BY <1>1, <1>2, <1>3, ChainedTotal DEF ChainInv
<1>5. \A n \in NameSet(index) : meta[n].added = CompletedGtids(payload[n])
  BY <1>1, ContentIsDescribed DEF Settled, Whole, MetadataDescribesPayload
<1>6. {meta[n].added : n \in NameSet(index)} = {CompletedGtids(payload[n]) : n \in NameSet(index)}
  BY <1>5, Zenon
<1> QED BY <1>4, <1>6 DEF Total

\* Whatever was killed, failed or discarded before: the gtids the storage reports
\* when it asks the server to resume are those its first file starts with and those
\* of the transactions its files hold, so the server sends what is missing and
\* nothing else.
THEOREM ResumptionIsExact == Spec => []ResumeSetIsExact
<1>1. FilesOK /\ ContentInv /\ ChainInv => ResumeSetIsExact
  BY ReportedGtids DEF ResumeSetIsExact
<1> QED BY <1>1, ContentHolds, ChainHolds, PTL

=============================================================================
