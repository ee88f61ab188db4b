------------------------ MODULE GtidIntervalsProofs -------------------------
(* Proofs that gtid_set's maps stay canonical, that they implement a set of  *)
(* GTIDs, and that comparing them compares the sets, for all UUIDs, tags and *)
(* transaction numbers.                                                      *)
EXTENDS GtidIntervals, TLAPS

-----------------------------------------------------------------------------
(* Sets of intervals *)

\* The transaction numbers in a set of intervals.
Covered(I) == {n \in Gno : \E i \in I : i.lo <= n /\ n < i.hi}

Span(lo, hi) == {n \in Gno : lo <= n /\ n < hi}

\* Insertion into a set of intervals that are apart, as interval_set does it,
\* leaves them apart and adds the inserted numbers.
LEMMA InsertCorrect ==
  ASSUME NEW I \in SUBSET Interval, Apart(I), NEW lo \in Gno,
         NEW hi \in 2 .. MaxGno + 1, lo < hi
  PROVE  /\ insert(I, lo, hi) \in SUBSET Interval
         /\ Apart(insert(I, lo, hi))
         /\ Covered(insert(I, lo, hi)) = Covered(I) \cup Span(lo, hi)
         /\ insert(I, lo, hi) # {}
<1> DEFINE reaches(i) == i.lo < lo /\ lo <= i.hi
           passes(i) == i.lo <= hi /\ hi < i.hi
           low == IF \E i \in I : reaches(i) THEN (CHOOSE i \in I : reaches(i)).lo ELSE lo
           high == IF \E i \in I : passes(i) THEN (CHOOSE i \in I : passes(i)).hi ELSE hi
           far == {i \in I : ~Touches(i, lo, hi)}
           new == [lo |-> low, hi |-> high]
<1>0. insert(I, lo, hi) = far \cup {new}
  BY DEF insert
<1>1. \A i \in I : i.lo \in Nat /\ i.hi \in Nat /\ i.lo < i.hi /\ i.lo \in Gno
                     /\ i.hi <= MaxGno + 1 /\ i = [lo |-> i.lo, hi |-> i.hi]
  BY MaxGnoAssumption DEF Interval, Gno
<1>2. /\ low \in Gno /\ low <= lo
      /\ low = lo \/ \E i \in I : reaches(i) /\ low = i.lo
      /\ \A i \in I : reaches(i) => low = i.lo
  <2>1. CASE \E i \in I : reaches(i)
    <3>1. PICK i \in I : i = (CHOOSE j \in I : reaches(j)) /\ reaches(i) /\ low = i.lo
      BY <2>1
    <3>2. \A j \in I : reaches(j) => j = i
      BY <3>1, <1>1, MaxGnoAssumption DEF Apart, Gno
    <3>3. low = i.lo
      BY <3>1
    <3>4. reaches(i)
      BY <3>1
    <3> HIDE DEF low
    <3>5. low \in Gno /\ low <= lo
      BY <3>3, <3>4, <1>1, MaxGnoAssumption DEF Gno
    <3>6. \E j \in I : reaches(j) /\ low = j.lo
      BY <3>3, <3>4
    <3>7. \A j \in I : reaches(j) => low = j.lo
      BY <3>2, <3>3
    <3> QED
      BY <3>5, <3>6, <3>7
  <2>2. CASE ~ \E i \in I : reaches(i)
    BY <2>2, MaxGnoAssumption DEF Gno
  <2> QED
    BY <2>1, <2>2
<1>3. /\ high \in 2 .. MaxGno + 1 /\ hi <= high
      /\ high = hi \/ \E i \in I : passes(i) /\ high = i.hi
      /\ \A i \in I : passes(i) => high = i.hi
  <2>1. CASE \E i \in I : passes(i)
    <3>1. PICK i \in I : i = (CHOOSE j \in I : passes(j)) /\ passes(i) /\ high = i.hi
      BY <2>1
    <3>2. \A j \in I : passes(j) => j = i
      BY <3>1, <1>1, MaxGnoAssumption DEF Apart, Gno
    <3>3. high = i.hi
      BY <3>1
    <3>4. passes(i)
      BY <3>1
    <3> HIDE DEF high
    <3>5. high \in 2 .. MaxGno + 1 /\ hi <= high
      BY <3>3, <3>4, <1>1, MaxGnoAssumption DEF Gno
    <3>6. \E j \in I : passes(j) /\ high = j.hi
      BY <3>3, <3>4
    <3>7. \A j \in I : passes(j) => high = j.hi
      BY <3>2, <3>3
    <3> QED
      BY <3>5, <3>6, <3>7
  <2>2. CASE ~ \E i \in I : passes(i)
    BY <2>2, MaxGnoAssumption DEF Gno
  <2> QED
    BY <2>1, <2>2
<1>4. low \in Nat /\ high \in Nat /\ low < high /\ lo \in Nat /\ hi \in Nat
  BY <1>2, <1>3, MaxGnoAssumption DEF Gno
<1> HIDE DEF low, high
<1>5. new \in Interval /\ new.lo = low /\ new.hi = high
  BY <1>2, <1>3, <1>4 DEF Interval
<1>6. far \cup {new} \in SUBSET Interval
  BY <1>5
<1>7. \A i \in far : i.hi < low \/ high < i.lo
  <2> SUFFICES ASSUME NEW i \in far PROVE i.hi < low \/ high < i.lo
    OBVIOUS
  <2>1. i \in I /\ (hi < i.lo \/ i.hi < lo)
    BY <1>1, <1>4 DEF Touches
  <2>2. CASE i.hi < lo
    BY <2>1, <2>2, <1>1, <1>2, <1>4 DEF Apart
  <2>3. CASE hi < i.lo
    BY <2>1, <2>3, <1>1, <1>3, <1>4 DEF Apart
  <2> QED
    BY <2>1, <2>2, <2>3
<1>8. Apart(far \cup {new})
  BY <1>5, <1>7 DEF Apart
<1>9. Covered(far \cup {new}) = Covered(I) \cup Span(lo, hi)
  <2>1. ASSUME NEW n \in Gno, NEW i \in far \cup {new}, i.lo <= n, n < i.hi
        PROVE  n \in Covered(I) \cup Span(lo, hi)
    <3>1. CASE i \in far
      BY <2>1, <3>1 DEF Covered
    <3>2. CASE i = new
      <4>1. n \in Nat /\ low <= n /\ n < high
        BY <2>1, <3>2, <1>5, MaxGnoAssumption DEF Gno
      <4>2. CASE n < lo
        BY <4>1, <4>2, <1>2, <1>1, <1>4 DEF Covered
      <4>3. CASE hi <= n
        BY <4>1, <4>3, <1>3, <1>1, <1>4 DEF Covered
      <4>4. CASE lo <= n /\ n < hi
        BY <4>4 DEF Span
      <4> QED
        BY <4>1, <4>2, <4>3, <4>4, <1>4
    <3> QED
      BY <3>1, <3>2
  <2>2. ASSUME NEW n \in Gno, NEW i \in I, i.lo <= n, n < i.hi
        PROVE  n \in Covered(far \cup {new})
    <3>1. CASE i \in far
      BY <2>2, <3>1 DEF Covered
    <3>2. CASE Touches(i, lo, hi)
      <4>1. low <= i.lo
        BY <3>2, <1>1, <1>2, <1>4 DEF Touches
      <4>2. i.hi <= high
        BY <3>2, <1>1, <1>3, <1>4 DEF Touches
      <4>3. n \in Nat
        BY MaxGnoAssumption DEF Gno
      <4>4. low <= n /\ n < high
        BY <2>2, <4>1, <4>2, <4>3, <1>1, <1>4
      <4> QED
        BY <4>4, <1>5 DEF Covered
    <3> QED
      BY <3>1, <3>2
  <2>3. ASSUME NEW n \in Span(lo, hi)
        PROVE  n \in Covered(far \cup {new})
    <3>1. n \in Gno /\ n \in Nat /\ low <= n /\ n < high
      BY <1>2, <1>3, <1>4, MaxGnoAssumption DEF Span, Gno
    <3> QED
      BY <3>1, <1>5 DEF Covered
  <2> QED
    BY <2>1, <2>2, <2>3 DEF Covered
<1> QED
  BY <1>0, <1>6, <1>8, <1>9

\* Erasure from a set of intervals that are apart leaves them apart and removes
\* the erased numbers.
LEMMA EraseCorrect ==
  ASSUME NEW I \in SUBSET Interval, Apart(I), NEW lo \in Gno,
         NEW hi \in 2 .. MaxGno + 1, lo < hi
  PROVE  /\ erase(I, lo, hi) \in SUBSET Interval
         /\ Apart(erase(I, lo, hi))
         /\ Covered(erase(I, lo, hi)) = Covered(I) \ Span(lo, hi)
<1> DEFINE E == erase(I, lo, hi)
           outside == {i \in I : i.hi <= lo \/ hi <= i.lo}
           left == {[lo |-> i.lo, hi |-> lo] : i \in {j \in I : j.lo < lo /\ lo < j.hi}}
           right == {[lo |-> hi, hi |-> i.hi] : i \in {j \in I : j.lo < hi /\ hi < j.hi}}
<1>0. E = outside \cup left \cup right
  BY DEF erase
<1>1. \A i \in I : i.lo \in Nat /\ i.hi \in Nat /\ i.lo < i.hi /\ i.lo \in Gno
                     /\ i.hi <= MaxGno + 1 /\ i = [lo |-> i.lo, hi |-> i.hi]
  BY MaxGnoAssumption DEF Interval, Gno
<1>2. lo \in Nat /\ hi \in Nat
  BY MaxGnoAssumption DEF Gno
<1>3. \A e \in outside : e \in I /\ (e.hi <= lo \/ hi <= e.lo)
  OBVIOUS
<1>4. \A e \in left : \E i \in I : i.lo < lo /\ lo < i.hi /\ e.lo = i.lo /\ e.hi = lo
                                     /\ e = [lo |-> i.lo, hi |-> lo]
  OBVIOUS
<1>5. \A e \in right : \E i \in I : i.lo < hi /\ hi < i.hi /\ e.lo = hi /\ e.hi = i.hi
                                      /\ e = [lo |-> hi, hi |-> i.hi]
  OBVIOUS
<1>6. E \in SUBSET Interval
  <2>1. outside \in SUBSET Interval
    OBVIOUS
  <2>2. left \in SUBSET Interval
    BY <1>1, <1>2, <1>4, MaxGnoAssumption DEF Interval, Gno
  <2>3. right \in SUBSET Interval
    BY <1>1, <1>2, <1>5, MaxGnoAssumption DEF Interval, Gno
  <2> QED
    BY <2>1, <2>2, <2>3, <1>0
\* Every piece lies in an interval of I, and a piece of it is outside, its
\* left or its right part.
<1>7. \A e \in E : \E i \in I : /\ i.lo <= e.lo /\ e.hi <= i.hi /\ e.lo \in Nat /\ e.hi \in Nat
                                /\ \/ e = i /\ (i.hi <= lo \/ hi <= i.lo)
                                   \/ e = [lo |-> i.lo, hi |-> lo] /\ i.lo < lo /\ lo < i.hi
                                   \/ e = [lo |-> hi, hi |-> i.hi] /\ i.lo < hi /\ hi < i.hi
  <2>1. \A e \in outside : e.lo <= e.lo /\ e.hi <= e.hi
    BY <1>1
  <2> QED
    BY <2>1, <1>0, <1>1, <1>2, <1>3, <1>4, <1>5
<1>8. Apart(E)
  <2> SUFFICES ASSUME NEW d \in E, NEW e \in E
               PROVE  d = e \/ d.hi < e.lo \/ e.hi < d.lo
    BY DEF Apart
  <2>1. PICK i \in I : /\ i.lo <= d.lo /\ d.hi <= i.hi /\ d.lo \in Nat /\ d.hi \in Nat
                       /\ \/ d = i /\ (i.hi <= lo \/ hi <= i.lo)
                          \/ d = [lo |-> i.lo, hi |-> lo] /\ i.lo < lo /\ lo < i.hi
                          \/ d = [lo |-> hi, hi |-> i.hi] /\ i.lo < hi /\ hi < i.hi
    BY <1>7
  <2>2. PICK j \in I : /\ j.lo <= e.lo /\ e.hi <= j.hi /\ e.lo \in Nat /\ e.hi \in Nat
                       /\ \/ e = j /\ (j.hi <= lo \/ hi <= j.lo)
                          \/ e = [lo |-> j.lo, hi |-> lo] /\ j.lo < lo /\ lo < j.hi
                          \/ e = [lo |-> hi, hi |-> j.hi] /\ j.lo < hi /\ hi < j.hi
    BY <1>7
  <2>3. CASE i # j
    <3>1. i.hi < j.lo \/ j.hi < i.lo
      BY <2>3 DEF Apart
    <3> QED
      BY <3>1, <2>1, <2>2, <1>1
  <2>4. CASE i = j
    BY <2>4, <2>1, <2>2, <1>1, <1>2
  <2> QED
    BY <2>3, <2>4
<1>9. Covered(E) = Covered(I) \ Span(lo, hi)
  <2>1. ASSUME NEW n \in Covered(E) PROVE n \in Covered(I) /\ n \notin Span(lo, hi)
    <3>1. PICK e \in E : e.lo <= n /\ n < e.hi
      BY DEF Covered
    <3>2. n \in Gno /\ n \in Nat
      BY MaxGnoAssumption DEF Covered, Gno
    <3>3. PICK i \in I : /\ i.lo <= e.lo /\ e.hi <= i.hi /\ e.lo \in Nat /\ e.hi \in Nat
                         /\ \/ e = i /\ (i.hi <= lo \/ hi <= i.lo)
                            \/ e = [lo |-> i.lo, hi |-> lo] /\ i.lo < lo /\ lo < i.hi
                            \/ e = [lo |-> hi, hi |-> i.hi] /\ i.lo < hi /\ hi < i.hi
      BY <1>7
    <3>4. i.lo <= n /\ n < i.hi
      BY <3>1, <3>2, <3>3, <1>1
    <3>5. n < lo \/ hi <= n
      BY <3>1, <3>2, <3>3, <1>1, <1>2
    <3> QED
      BY <3>2, <3>4, <3>5, <1>2 DEF Covered, Span
  <2>2. ASSUME NEW n \in Covered(I), n \notin Span(lo, hi) PROVE n \in Covered(E)
    <3>1. n \in Gno /\ n \in Nat /\ (n < lo \/ hi <= n)
      BY <2>2, <1>2, MaxGnoAssumption DEF Covered, Span, Gno
    <3>2. PICK i \in I : i.lo <= n /\ n < i.hi
      BY DEF Covered
    <3>3. CASE i.hi <= lo \/ hi <= i.lo
      BY <3>1, <3>2, <3>3, <1>0 DEF Covered
    <3>4. CASE n < lo /\ lo < i.hi
      <4>1. i.lo < lo
        BY <3>1, <3>2, <3>4, <1>1, <1>2
      <4>2. [lo |-> i.lo, hi |-> lo] \in E
        BY <4>1, <3>4, <1>0
      <4> QED
        BY <4>2, <3>1, <3>2, <3>4 DEF Covered
    <3>5. CASE hi <= n /\ i.lo < hi
      <4>1. hi < i.hi
        BY <3>1, <3>2, <3>5, <1>1, <1>2
      <4>2. [lo |-> hi, hi |-> i.hi] \in E
        BY <4>1, <3>5, <1>0
      <4> QED
        BY <4>2, <3>1, <3>2, <3>5 DEF Covered
    <3> QED
      BY <3>1, <3>3, <3>4, <3>5, <1>1, <1>2
  <2> QED
    BY <2>1, <2>2
<1> QED
  BY <1>6, <1>8, <1>9

\* Sets of intervals that are apart and hold the same numbers are the same.
LEMMA ApartIsUnique ==
  ASSUME NEW I \in SUBSET Interval, NEW J \in SUBSET Interval, Apart(I), Apart(J),
         Covered(I) = Covered(J)
  PROVE  I \subseteq J
<1> SUFFICES ASSUME NEW i \in I PROVE i \in J
  OBVIOUS
<1>1. \A k \in I \cup J : k.lo \in Nat /\ k.hi \in Nat /\ k.lo < k.hi /\ k.lo \in Gno
                     /\ k.hi <= MaxGno + 1 /\ k = [lo |-> k.lo, hi |-> k.hi] /\ 1 <= k.lo
  BY MaxGnoAssumption DEF Interval, Gno
<1>2. PICK j \in J : j.lo <= i.lo /\ i.lo < j.hi
  <2>1. i.lo \in Covered(I)
    BY <1>1 DEF Covered
  <2> QED
    BY <2>1 DEF Covered
<1>3. j.lo = i.lo
  <2> SUFFICES ASSUME j.lo < i.lo PROVE FALSE
    BY <1>1, <1>2
  <2>1. i.lo - 1 \in Gno /\ i.lo - 1 \in Nat
    BY <1>1, MaxGnoAssumption DEF Gno
  <2>2. i.lo - 1 \in Covered(J)
    BY <2>1, <1>1, <1>2 DEF Covered
  <2>3. PICK k \in I : k.lo <= i.lo - 1 /\ i.lo - 1 < k.hi
    BY <2>2 DEF Covered
  <2> QED
    BY <2>1, <2>3, <1>1 DEF Apart
<1>4. ~(i.hi < j.hi)
  <2> SUFFICES ASSUME i.hi < j.hi PROVE FALSE
    OBVIOUS
  <2>1. i.hi \in Gno /\ i.hi \in Nat
    BY <1>1, MaxGnoAssumption DEF Gno
  <2>2. i.hi \in Covered(J)
    BY <2>1, <1>1, <1>2 DEF Covered
  <2>3. PICK k \in I : k.lo <= i.hi /\ i.hi < k.hi
    BY <2>2 DEF Covered
  <2> QED
    BY <2>1, <2>3, <1>1 DEF Apart
<1>5. ~(j.hi < i.hi)
  <2> SUFFICES ASSUME j.hi < i.hi PROVE FALSE
    OBVIOUS
  <2>1. j.hi \in Gno /\ j.hi \in Nat
    BY <1>1, MaxGnoAssumption DEF Gno
  <2>2. j.hi \in Covered(I)
    BY <2>1, <1>1, <1>2 DEF Covered
  <2>3. PICK k \in J : k.lo <= j.hi /\ j.hi < k.hi
    BY <2>2 DEF Covered
  <2> QED
    BY <2>1, <2>3, <1>1 DEF Apart
<1> QED
  BY <1>1, <1>2, <1>3, <1>4, <1>5

-----------------------------------------------------------------------------
(* Objects *)

\* The transactions of a TSID from lo to before hi.
Between(x, lo, hi) == {g \in GtidValue : g[1] = x /\ lo <= g[2] /\ g[2] < hi}

\* contains answers from the intervals of the TSID alone: find_gnos never hides
\* any of them.
LEMMA MembersAreCovered ==
  ASSUME NEW o, Canonical(o), NEW g \in GtidValue
  PROVE  g \in Members(o) <=> g[2] \in Covered(o.gnos[g[1]])
<1>1. g[1] \in Tsid /\ g[2] \in Gno
  BY DEF GtidValue
<1>2. o.gnos[g[1]] # {} => find_gnos(o, g[1])
  BY <1>1 DEF Canonical, find_gnos
<1> QED
  BY <1>1, <1>2 DEF Members, contains, Covered

LEMMA InsertAtCorrect ==
  ASSUME NEW o, Canonical(o), NEW x \in Tsid, NEW lo \in Gno,
         NEW hi \in 2 .. MaxGno + 1, lo < hi
  PROVE  /\ Canonical(InsertInto(o, x, lo, hi))
         /\ Members(InsertInto(o, x, lo, hi)) = Members(o) \cup Between(x, lo, hi)
<1> DEFINE p == InsertInto(o, x, lo, hi)
           I == insert(o.gnos[x], lo, hi)
<1>1. o \in Object /\ o.gnos \in [Tsid -> SUBSET Interval] /\ o.gnos[x] \in SUBSET Interval
      /\ Apart(o.gnos[x]) /\ o.uuids \in SUBSET Uuid /\ o.tsids \in SUBSET Tsid
  BY DEF Canonical, Object
<1>2. I \in SUBSET Interval /\ Apart(I) /\ I # {}
      /\ Covered(I) = Covered(o.gnos[x]) \cup Span(lo, hi)
  BY <1>1, InsertCorrect
<1>3. p = [uuids |-> o.uuids \cup {x[1]}, tsids |-> o.tsids \cup {x},
           gnos |-> [o.gnos EXCEPT ![x] = I]]
  BY DEF InsertInto
<1> HIDE DEF I
<1>4. /\ p.uuids = o.uuids \cup {x[1]} /\ p.tsids = o.tsids \cup {x}
      /\ p.gnos = [o.gnos EXCEPT ![x] = I]
  BY <1>3
<1>5. p.gnos[x] = I /\ \A y \in Tsid : y # x => p.gnos[y] = o.gnos[y]
  BY <1>1, <1>4
<1>6. Canonical(p)
  <2>1. p \in Object
    <3>1. x[1] \in Uuid
      BY TsidAssumption
    <3>2. p.gnos \in [Tsid -> SUBSET Interval]
      BY <1>1, <1>2, <1>4
    <3> QED
      BY <3>1, <3>2, <1>1, <1>3, <1>4 DEF Object
  <2>2. \A y \in Tsid : Apart(p.gnos[y])
    BY <1>2, <1>5 DEF Canonical
  <2>3. p.tsids = {y \in Tsid : p.gnos[y] # {}}
    BY <1>2, <1>4, <1>5 DEF Canonical
  <2>4. p.uuids = {y[1] : y \in p.tsids}
    BY <1>4 DEF Canonical
  <2> QED
    BY <2>1, <2>2, <2>3, <2>4 DEF Canonical
<1>7. Members(p) = Members(o) \cup Between(x, lo, hi)
  <2>1. ASSUME NEW g \in GtidValue
        PROVE  g \in Members(p) <=> g \in Members(o) \/ g \in Between(x, lo, hi)
    <3>1. g[1] \in Tsid /\ g[2] \in Gno
      BY DEF GtidValue
    <3>2. g \in Members(p) <=> g[2] \in Covered(p.gnos[g[1]])
      BY <1>6, MembersAreCovered
    <3>3. g \in Members(o) <=> g[2] \in Covered(o.gnos[g[1]])
      BY MembersAreCovered
    <3>4. CASE g[1] = x
      BY <3>1, <3>2, <3>3, <3>4, <1>2, <1>5 DEF Between, Span
    <3>5. CASE g[1] # x
      BY <3>1, <3>2, <3>3, <3>5, <1>5 DEF Between
    <3> QED
      BY <3>4, <3>5
  <2> QED
    BY <2>1 DEF Members, Between
<1> QED
  BY <1>6, <1>7

LEMMA EraseAtCorrect ==
  ASSUME NEW o, Canonical(o), NEW x \in Tsid, NEW lo \in Gno,
         NEW hi \in 2 .. MaxGno + 1, lo < hi
  PROVE  /\ Canonical(EraseAt(o, x, lo, hi))
         /\ Members(EraseAt(o, x, lo, hi)) = Members(o) \ Between(x, lo, hi)
<1> DEFINE p == EraseAt(o, x, lo, hi)
           I == erase(o.gnos[x], lo, hi)
           G == [o.gnos EXCEPT ![x] = I]
<1>1. o \in Object /\ o.gnos \in [Tsid -> SUBSET Interval] /\ o.gnos[x] \in SUBSET Interval
      /\ Apart(o.gnos[x]) /\ o.uuids \in SUBSET Uuid /\ o.tsids \in SUBSET Tsid
      /\ o = [uuids |-> o.uuids, tsids |-> o.tsids, gnos |-> o.gnos]
  BY DEF Canonical, Object
<1>2. I \in SUBSET Interval /\ Apart(I)
      /\ Covered(I) = Covered(o.gnos[x]) \ Span(lo, hi)
  BY <1>1, EraseCorrect
<1>3. ~find_gnos(o, x) => o.gnos[x] = {}
  BY DEF find_gnos, Canonical
<1>4. CASE ~find_gnos(o, x)
  <2>1. p = o
    BY <1>4 DEF EraseAt
  <2>2. ASSUME NEW g \in Members(o) PROVE g \notin Between(x, lo, hi)
    BY <1>3, <1>4, MembersAreCovered DEF Members, Between, Covered
  <2> QED
    BY <2>1, <2>2
<1>5. CASE find_gnos(o, x)
  <2> DEFINE q == [o EXCEPT !.gnos = G]
             left == o.tsids \ {x}
             U == IF \E y \in left : y[1] = x[1] THEN o.uuids ELSE o.uuids \ {x[1]}
  <2>1. p = cleanup_if_empty(q, x)
    BY <1>5 DEF EraseAt
  <2> HIDE DEF I
  <2>2. q = [uuids |-> o.uuids, tsids |-> o.tsids, gnos |-> G]
    BY <1>1
  <2>3. G \in [Tsid -> SUBSET Interval] /\ G[x] = I
        /\ \A y \in Tsid : y # x => G[y] = o.gnos[y]
    BY <1>1, <1>2
  <2> HIDE DEF G, q
  <2>4. q.uuids = o.uuids /\ q.tsids = o.tsids /\ q.gnos = G
    BY <2>2
  <2>5. p = IF I # {} THEN [uuids |-> o.uuids, tsids |-> o.tsids, gnos |-> G]
            ELSE [uuids |-> U, tsids |-> left, gnos |-> G]
    BY <2>1, <2>2, <2>3, <2>4 DEF cleanup_if_empty
  <2> HIDE DEF p, U
  <2>6. p.gnos = G
    BY <2>5
  <2>7. p.tsids = {y \in Tsid : G[y] # {}}
    <3>1. o.tsids = {y \in Tsid : o.gnos[y] # {}} /\ x \in o.tsids
      BY <1>5 DEF Canonical, find_gnos
    <3>2. CASE I # {}
      BY <3>1, <3>2, <2>3, <2>5
    <3>3. CASE I = {}
      BY <3>1, <3>3, <2>3, <2>5
    <3> QED
      BY <3>2, <3>3
  <2>8. p.uuids = {y[1] : y \in p.tsids}
    <3>1. o.uuids = {y[1] : y \in o.tsids} /\ x \in o.tsids
      BY <1>5 DEF Canonical, find_gnos
    <3>2. CASE I # {}
      BY <3>1, <3>2, <2>5
    <3>3. CASE I = {} /\ \E y \in left : y[1] = x[1]
      BY <3>1, <3>3, <2>5 DEF U
    <3>4. CASE I = {} /\ ~ \E y \in left : y[1] = x[1]
      BY <3>1, <3>4, <2>5 DEF U
    <3> QED
      BY <3>2, <3>3, <3>4
  <2>9. Canonical(p)
    <3>1. p \in Object
      BY <1>1, <2>3, <2>5 DEF Object, U
    <3>2. \A y \in Tsid : Apart(G[y])
      BY <1>2, <2>3 DEF Canonical
    <3> QED
      BY <3>1, <3>2, <2>6, <2>7, <2>8 DEF Canonical
  <2>10. Members(p) = Members(o) \ Between(x, lo, hi)
    <3>1. ASSUME NEW g \in GtidValue
          PROVE  g \in Members(p) <=> g \in Members(o) /\ g \notin Between(x, lo, hi)
      <4>1. g[1] \in Tsid /\ g[2] \in Gno
        BY DEF GtidValue
      <4>2. g \in Members(p) <=> g[2] \in Covered(p.gnos[g[1]])
        BY <2>9, MembersAreCovered
      <4>3. g \in Members(o) <=> g[2] \in Covered(o.gnos[g[1]])
        BY MembersAreCovered
      <4>4. CASE g[1] = x
        BY <4>1, <4>2, <4>3, <4>4, <1>2, <2>3, <2>6 DEF Between, Span, I
      <4>5. CASE g[1] # x
        BY <4>1, <4>2, <4>3, <4>5, <2>3, <2>6 DEF Between
      <4> QED
        BY <4>4, <4>5
    <3> QED
      BY <3>1 DEF Members, Between
  <2> QED
    BY <2>9, <2>10 DEF p
<1> QED
  BY <1>4, <1>5

\* Canonical objects with the same transactions are the same object.
LEMMA CanonicalIsUnique ==
  ASSUME NEW o, NEW p, Canonical(o), Canonical(p), Members(o) = Members(p)
  PROVE  o = p
<1>1. /\ o \in Object /\ o = [uuids |-> o.uuids, tsids |-> o.tsids, gnos |-> o.gnos]
      /\ p \in Object /\ p = [uuids |-> p.uuids, tsids |-> p.tsids, gnos |-> p.gnos]
      /\ o.gnos \in [Tsid -> SUBSET Interval] /\ p.gnos \in [Tsid -> SUBSET Interval]
  BY DEF Canonical, Object
<1>2. ASSUME NEW x \in Tsid PROVE o.gnos[x] = p.gnos[x]
  <2>1. ASSUME NEW n \in Gno PROVE n \in Covered(o.gnos[x]) <=> n \in Covered(p.gnos[x])
    <3>1. <<x, n>> \in GtidValue
      BY DEF GtidValue
    <3> QED
      BY <3>1, MembersAreCovered
  <2>2. Covered(o.gnos[x]) = Covered(p.gnos[x])
    BY <2>1 DEF Covered
  <2>3. Apart(o.gnos[x]) /\ Apart(p.gnos[x])
    BY DEF Canonical
  <2> QED
    BY <2>2, <2>3, <1>1, ApartIsUnique
<1>3. o.gnos = p.gnos
  BY <1>1, <1>2
<1>4. o.tsids = p.tsids
  BY <1>3 DEF Canonical
<1>5. o.uuids = p.uuids
  BY <1>4 DEF Canonical
<1> QED
  BY <1>1, <1>3, <1>4, <1>5

\* intersects decides whether two canonical sets share a transaction.
LEMMA IntersectsIsExact ==
  ASSUME NEW o, NEW p, Canonical(o), Canonical(p)
  PROVE  intersects(o, p) <=> (Members(o) \cap Members(p) # {})
<1>0. /\ o.gnos \in [Tsid -> SUBSET Interval] /\ p.gnos \in [Tsid -> SUBSET Interval]
      /\ p.tsids \in SUBSET Tsid
  BY DEF Canonical, Object
<1>1. ASSUME intersects(o, p) PROVE Members(o) \cap Members(p) # {}
  <2>0. PICK x \in p.tsids :
          \E i \in o.gnos[x], j \in p.gnos[x] : i.lo < j.hi /\ j.lo < i.hi
    BY <1>1 DEF intersects
  <2>1. PICK i \in o.gnos[x], j \in p.gnos[x] : i.lo < j.hi /\ j.lo < i.hi
    BY <2>0
  <2>2. x \in Tsid /\ i \in Interval /\ j \in Interval
    BY <2>1, <1>0
  <2>3. i.lo \in Nat /\ i.hi \in Nat /\ j.lo \in Nat /\ j.hi \in Nat /\ i.lo \in Gno
        /\ j.lo \in Gno /\ i.lo < i.hi /\ j.lo < j.hi
    BY <2>2, MaxGnoAssumption DEF Interval, Gno
  <2> DEFINE n == IF i.lo <= j.lo THEN j.lo ELSE i.lo
  <2>4. n \in Gno /\ i.lo <= n /\ n < i.hi /\ j.lo <= n /\ n < j.hi
    BY <2>1, <2>3
  <2> HIDE DEF n
  <2>5. n \in Covered(o.gnos[x]) /\ n \in Covered(p.gnos[x])
    BY <2>4 DEF Covered
  <2>6. <<x, n>> \in GtidValue /\ <<x, n>>[1] = x /\ <<x, n>>[2] = n
    BY <2>2, <2>4 DEF GtidValue
  <2>7. <<x, n>> \in Members(o) /\ <<x, n>> \in Members(p)
    BY <2>5, <2>6, MembersAreCovered
  <2> QED
    BY <2>7
<1>2. ASSUME NEW g \in Members(o) \cap Members(p) PROVE intersects(o, p)
  <2>1. g \in GtidValue /\ g[1] \in Tsid /\ g[2] \in Gno /\ g[2] \in Nat
    BY MaxGnoAssumption DEF Members, GtidValue, Gno
  <2>2. /\ find_gnos(o, g[1]) /\ find_gnos(p, g[1])
        /\ \E i \in o.gnos[g[1]] : i.lo <= g[2] /\ g[2] < i.hi
        /\ \E j \in p.gnos[g[1]] : j.lo <= g[2] /\ g[2] < j.hi
    BY DEF Members, contains
  <2>3. PICK i \in o.gnos[g[1]] : i.lo <= g[2] /\ g[2] < i.hi
    BY <2>2
  <2>4. PICK j \in p.gnos[g[1]] : j.lo <= g[2] /\ g[2] < j.hi
    BY <2>2
  <2>5. i.lo \in Nat /\ i.hi \in Nat /\ j.lo \in Nat /\ j.hi \in Nat
    BY <2>1, <1>0, MaxGnoAssumption DEF Interval, Gno
  <2>6. i.lo < j.hi /\ j.lo < i.hi
    BY <2>1, <2>3, <2>4, <2>5
  <2>7. g[1] \in p.tsids
    BY <2>2 DEF find_gnos
  <2> QED
    BY <2>2, <2>6, <2>7 DEF intersects
<1> QED
  BY <1>1, <1>2

LEMMA EmptyIsCanonical == Canonical(Empty) /\ Members(Empty) = {}
<1>1. Canonical(Empty)
  BY DEF Canonical, Empty, Object, Apart
<1>2. Members(Empty) = {}
  BY DEF Members, contains, find_gnos, Empty
<1> QED
  BY <1>1, <1>2

-----------------------------------------------------------------------------
(* The inductive invariant: the sets are canonical between any two steps of  *)
(* a loop, and the loop has intervals of its argument left.                  *)

IInv ==
  /\ SetsAreCanonical
  /\ op \in {"none", "add", "subtract"}
  /\ todo \subseteq Pieces(values)
  /\ op = "none" <=> todo = {}

LEMMA PieceType ==
  ASSUME NEW p \in Pieces(values)
  PROVE  /\ p[1] \in Tsid /\ p[2].lo \in Gno /\ p[2].hi \in 2 .. MaxGno + 1
         /\ p[2].lo < p[2].hi
BY DEF Pieces, Interval

LEMMA BoundsOfCalls ==
  ASSUME NEW g \in Gno
  PROVE  g + 1 \in 2 .. MaxGno + 1 /\ g < g + 1 /\ g \in Nat
BY MaxGnoAssumption DEF Gno

LEMMA IInvHolds == Spec => []IInv
<1>1. Init => IInv
  BY EmptyIsCanonical DEF Init, IInv, SetsAreCanonical
<1>2. IInv /\ [Next]_vars => IInv'
  <2> SUFFICES ASSUME IInv, [Next]_vars PROVE IInv'
    OBVIOUS
  <2> USE DEF IInv, SetsAreCanonical
  <2>1. ASSUME NEW x \in Tsid, NEW g \in Gno, add(x, g) PROVE IInv'
    BY <2>1, BoundsOfCalls, InsertAtCorrect DEF add
  <2>2. ASSUME NEW x \in Tsid, NEW g \in Gno, subtract(x, g) PROVE IInv'
    BY <2>2, BoundsOfCalls, EraseAtCorrect DEF subtract
  <2>3. ASSUME NEW x \in Tsid, NEW l \in Gno, NEW u \in Gno, add_interval(x, l, u) PROVE IInv'
    <3>1. l < u + 1
      BY <2>3, BoundsOfCalls DEF add_interval
    <3> QED
      BY <3>1, <2>3, BoundsOfCalls, InsertAtCorrect DEF add_interval
  <2>4. ASSUME NEW x \in Tsid, NEW l \in Gno, NEW u \in Gno, subtract_interval(x, l, u) PROVE IInv'
    <3>1. l < u + 1
      BY <2>4, BoundsOfCalls DEF subtract_interval
    <3> QED
      BY <3>1, <2>4, BoundsOfCalls, EraseAtCorrect DEF subtract_interval
  <2>5. CASE clear
    BY <2>5, EmptyIsCanonical DEF clear
  <2>6. CASE assign
    BY <2>6 DEF assign
  <2>7. CASE start("add")
    BY <2>7 DEF start
  <2>8. CASE start("subtract")
    BY <2>8 DEF start
  <2>9. ASSUME NEW p \in todo, turn(p) PROVE IInv'
    <3>1. p \in Pieces(values)
      OBVIOUS
    <3>2. Canonical(data)'
      <4>1. Canonical(InsertInto(data, p[1], p[2].lo, p[2].hi))
        BY <3>1, PieceType, InsertAtCorrect
      <4>2. Canonical(EraseAt(data, p[1], p[2].lo, p[2].hi))
        BY <3>1, PieceType, EraseAtCorrect
      <4> QED
        BY <4>1, <4>2, <2>9 DEF turn
    <3> QED
      BY <3>2, <2>9 DEF turn
  <2>10. CASE UNCHANGED vars
    BY <2>10 DEF vars
  <2> QED
    BY <2>1, <2>2, <2>3, <2>4, <2>5, <2>6, <2>7, <2>8, <2>9, <2>10 DEF Next
<1> QED
  BY <1>1, <1>2, PTL DEF Spec

\* Whatever operations are called in whatever order, gtid_set's maps hold no
\* empty entry and no intervals that overlap or touch.
THEOREM GtidSetsStayCanonical == Spec => []SetsAreCanonical
<1>1. IInv => SetsAreCanonical
  BY DEF IInv
<1> QED
  BY <1>1, IInvHolds, PTL

\* operator== and intersects, which look at the maps, decide equality and
\* disjointness of the sets of transactions.
THEOREM GtidSetComparisons == Spec => []ComparisonsAreExact
<1>1. IInv => ComparisonsAreExact
  <2> SUFFICES ASSUME IInv PROVE ComparisonsAreExact
    OBVIOUS
  <2>1. Canonical(data) /\ Canonical(values)
    BY DEF IInv, SetsAreCanonical
  <2>2. Members(data) = Members(values) => data = values
    BY <2>1, CanonicalIsUnique
  <2>3. intersects(data, values) <=> (Members(data) \cap Members(values) # {})
    BY <2>1, IntersectsIsExact
  <2> QED
    BY <2>2, <2>3 DEF ComparisonsAreExact
<1> QED
  BY <1>1, IInvHolds, PTL

-----------------------------------------------------------------------------
(* The refinement *)

LEMMA SameGtids == Abstract!Gno = Gno /\ Abstract!GtidValue = GtidValue
BY DEF Abstract!Gno, Abstract!GtidValue, Gno, GtidValue

\* The numbers before hi are the numbers up to hi - 1.
LEMMA BetweenIsTransactions ==
  ASSUME NEW x \in Tsid, NEW lo \in Gno, NEW hi \in Gno
  PROVE  Between(x, lo, hi + 1) = Abstract!Transactions(x, lo, hi)
<1>1. \A g \in GtidValue : g[2] \in Nat
  BY MaxGnoAssumption DEF GtidValue, Gno
<1>2. hi \in Nat
  BY MaxGnoAssumption DEF Gno
<1> QED
  BY <1>1, <1>2, SameGtids DEF Between, Abstract!Transactions

\* What a loop over all of values is still to take is the set values.
LEMMA PiecesAreMembers ==
  ASSUME NEW o, Canonical(o)
  PROVE  {g \in GtidValue : \E p \in Pieces(o) : p[1] = g[1] /\ p[2].lo <= g[2] /\ g[2] < p[2].hi}
           = Members(o)
<1> DEFINE left(g) == \E p \in Pieces(o) : p[1] = g[1] /\ p[2].lo <= g[2] /\ g[2] < p[2].hi
<1>1. ASSUME NEW g \in GtidValue PROVE left(g) <=> g \in Members(o)
  <2>1. o.gnos \in [Tsid -> SUBSET Interval]
    BY DEF Canonical, Object
  <2>2. g[1] \in Tsid
    BY DEF GtidValue
  <2>3. ASSUME left(g) PROVE g \in Members(o)
    <3>1. PICK p \in Pieces(o) : p[1] = g[1] /\ p[2].lo <= g[2] /\ g[2] < p[2].hi
      BY <2>3
    <3>2. p[2] \in o.gnos[g[1]] /\ g[1] \in o.tsids
      BY <3>1 DEF Pieces
    <3>3. find_gnos(o, g[1])
      BY <3>2, <2>1 DEF Canonical, find_gnos
    <3> QED
      BY <3>1, <3>2, <3>3 DEF Members, contains
  <2>4. ASSUME g \in Members(o) PROVE left(g)
    <3>1. PICK i \in o.gnos[g[1]] : i.lo <= g[2] /\ g[2] < i.hi
      BY <2>4 DEF Members, contains
    <3>2. g[1] \in o.tsids
      BY <2>4 DEF Members, contains, find_gnos
    <3>3. <<g[1], i>> \in Pieces(o)
      BY <2>1, <2>2, <3>1, <3>2 DEF Pieces
    <3> QED
      BY <3>1, <3>3
  <2> QED
    BY <2>3, <2>4
<1> QED
  BY <1>1 DEF Members

LEMMA NothingPending == todo = {} => Pending = {}
BY DEF Pending

LEMMA ImplementsInit == Init => Abstract!Init
<1> SUFFICES ASSUME Init PROVE Abstract!Init
  OBVIOUS
<1>1. Members(data) = {} /\ Members(values) = {}
  BY EmptyIsCanonical DEF Init
<1>2. Pending = {}
  BY NothingPending DEF Init
<1> QED
  BY <1>1, <1>2 DEF Abstract!Init, Current, Init

\* A call that is not a loop changes the set as the abstract step does.
LEMMA OutsideLoops ==
  ASSUME op = "none", todo = {}, UNCHANGED <<todo, op>>
  PROVE  Current = Members(data) /\ Current' = Members(data')
<1>1. Pending = {} /\ Pending' = {}
  BY DEF Pending
<1>2. Members(data)' = Members(data')
  BY DEF Members, contains, find_gnos
<1> QED
  BY <1>1, <1>2 DEF Current

LEMMA ImplementsNext == IInv /\ IInv' /\ [Next]_vars => [Abstract!Next]_(Abstract!vars)
<1> SUFFICES ASSUME IInv, IInv', [Next]_vars PROVE [Abstract!Next]_(Abstract!vars)
  OBVIOUS
<1>0. /\ Canonical(data) /\ Canonical(values) /\ (op = "none" <=> todo = {})
      /\ op \in {"none", "add", "subtract"}
      /\ Members(data)' = Members(data') /\ Members(values)' = Members(values')
  BY DEF IInv, SetsAreCanonical, Members, contains, find_gnos
<1>1. ASSUME NEW x \in Tsid, NEW lo \in Gno, NEW hi \in Gno,
             data' = InsertInto(data, x, lo, hi + 1), lo < hi + 1, op = "none",
             UNCHANGED <<values, todo, op>>
      PROVE  Abstract!Next
  <2>1. Members(data') = Members(data) \cup Abstract!Transactions(x, lo, hi)
    BY <1>0, <1>1, InsertAtCorrect, BoundsOfCalls, BetweenIsTransactions
  <2>2. Current = Members(data) /\ Current' = Members(data')
    BY <1>0, <1>1, OutsideLoops
  <2>3. Members(values)' = Members(values)
    BY <1>0, <1>1
  <2>4. Abstract!Union(Abstract!Transactions(x, lo, hi))
    BY <2>1, <2>2, <2>3 DEF Abstract!Union
  <2> QED
    BY <2>4, SameGtids DEF Abstract!Next
<1>2. ASSUME NEW x \in Tsid, NEW lo \in Gno, NEW hi \in Gno,
             data' = EraseAt(data, x, lo, hi + 1), lo < hi + 1, op = "none",
             UNCHANGED <<values, todo, op>>
      PROVE  Abstract!Next
  <2>1. Members(data') = Members(data) \ Abstract!Transactions(x, lo, hi)
    BY <1>0, <1>2, EraseAtCorrect, BoundsOfCalls, BetweenIsTransactions
  <2>2. Current = Members(data) /\ Current' = Members(data')
    BY <1>0, <1>2, OutsideLoops
  <2>3. Members(values)' = Members(values)
    BY <1>0, <1>2
  <2>4. Abstract!Difference(Abstract!Transactions(x, lo, hi))
    BY <2>1, <2>2, <2>3 DEF Abstract!Difference
  <2> QED
    BY <2>4, SameGtids DEF Abstract!Next
<1>3. ASSUME NEW x \in Tsid, NEW g \in Gno, add(x, g) \/ subtract(x, g) PROVE Abstract!Next
  BY <1>1, <1>2, <1>3, BoundsOfCalls DEF add, subtract
<1>4. ASSUME NEW x \in Tsid, NEW l \in Gno, NEW u \in Gno,
             add_interval(x, l, u) \/ subtract_interval(x, l, u)
      PROVE  Abstract!Next
  <2>1. l < u + 1
    BY <1>4, BoundsOfCalls DEF add_interval, subtract_interval
  <2> QED
    BY <1>1, <1>2, <1>4, <2>1 DEF add_interval, subtract_interval
<1>5. CASE clear
  <2>1. Current' = {} /\ Members(values)' = Members(values)
    BY <1>0, <1>5, OutsideLoops, EmptyIsCanonical DEF clear
  <2> QED
    BY <2>1 DEF Abstract!Next, Abstract!Clear
<1>6. CASE assign
  <2>1. Current = Members(data) /\ Current' = Members(data') /\ data' = data
    BY <1>0, <1>6, OutsideLoops DEF assign
  <2>2. Members(values)' = Members(data)
    BY <1>0, <1>6 DEF assign
  <2> QED
    BY <2>1, <2>2 DEF Abstract!Next, Abstract!Copy
<1>7. ASSUME NEW loop \in {"add", "subtract"}, start(loop) PROVE Abstract!Next
  <2>1. data' = data /\ values' = values /\ todo' = Pieces(values) /\ op' = loop /\ op = "none"
    BY <1>7 DEF start
  <2>2. Pending' = {g \in GtidValue : \E p \in Pieces(values) :
                                p[1] = g[1] /\ p[2].lo <= g[2] /\ g[2] < p[2].hi}
    BY <2>1 DEF Pending
  <2>3. Pending' = Members(values)
    BY <1>0, <2>2, PiecesAreMembers
  <2>4. Current = Members(data)
    BY <1>0, <2>1, NothingPending DEF Current
  <2>5. Members(values)' = Members(values) /\ Members(data)' = Members(data)
    BY <1>0, <2>1
  <2>6. CASE loop = "add"
    BY <2>1, <2>3, <2>4, <2>5, <2>6 DEF Current, Abstract!Next, Abstract!Union
  <2>7. CASE loop = "subtract"
    BY <2>1, <2>3, <2>4, <2>5, <2>7 DEF Current, Abstract!Next, Abstract!Difference
  <2> QED
    BY <2>6, <2>7
<1>8. ASSUME NEW p \in todo, turn(p) PROVE UNCHANGED Abstract!vars
  <2> DEFINE B == Between(p[1], p[2].lo, p[2].hi)
  <2>1. p \in Pieces(values)
    BY DEF IInv
  <2>2. Members(values)' = Members(values)
    BY <1>0, <1>8 DEF turn
  <2>3. Pending = Pending' \cup B
    <3>1. todo = todo' \cup {p}
      BY <1>8 DEF turn
    <3> QED
      BY <3>1 DEF Pending, Between
  <2>4. op' # op => Pending' = {} /\ op' = "none"
    BY <1>8 DEF turn, Pending
  <2>5. CASE op = "add"
    <3>1. Members(data') = Members(data) \cup B
      BY <1>0, <1>8, <2>1, <2>5, PieceType, InsertAtCorrect DEF turn
    <3>2. Current' = Members(data') \cup Pending'
      BY <1>0, <2>4, <2>5 DEF Current
    <3> QED
      BY <3>1, <3>2, <2>2, <2>3, <2>5 DEF Current, Abstract!vars
  <2>6. CASE op = "subtract"
    <3>1. Members(data') = Members(data) \ B
      BY <1>0, <1>8, <2>1, <2>6, PieceType, EraseAtCorrect DEF turn
    <3>2. Current' = Members(data') \ Pending'
      BY <1>0, <2>4, <2>6 DEF Current
    <3> QED
      BY <3>1, <3>2, <2>2, <2>3, <2>6 DEF Current, Abstract!vars
  <2>7. op = "add" \/ op = "subtract"
    BY <1>0, <1>8 DEF turn
  <2> QED
    BY <2>5, <2>6, <2>7
<1>9. CASE UNCHANGED vars
  <2>1. Pending' = Pending
    BY <1>9 DEF vars, Pending
  <2> QED
    BY <2>1, <1>0, <1>9 DEF vars, Abstract!vars, Current
<1> QED
  BY <1>3, <1>4, <1>5, <1>6, <1>7, <1>8, <1>9 DEF Next

\* gtid_set's maps of intervals implement a set of GTIDs with union,
\* difference, assignment and clear.
THEOREM GtidSetImplementsSet == Spec => ImplementsSet
<1>1. Init => Abstract!Init
  BY ImplementsInit
<1>2. IInv /\ IInv' /\ [Next]_vars => [Abstract!Next]_(Abstract!vars)
  BY ImplementsNext
<1> QED
  BY <1>1, <1>2, IInvHolds, PTL DEF Spec, ImplementsSet, Abstract!Spec

=============================================================================
