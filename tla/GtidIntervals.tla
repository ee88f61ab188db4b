--------------------------- MODULE GtidIntervals ----------------------------
(* Class gtid_set: a map from UUIDs to maps from tags to sets of half-open   *)
(* intervals of transaction numbers.  An object is a record of the keys of   *)
(* the outer map, the keys of the inner maps and, for every TSID, its        *)
(* intervals ({} when it has no entry).                                      *)
EXTENDS Naturals

CONSTANTS Uuid, Tag,  \* the UUIDs that are not empty, and the tags
          Tsid,       \* the pairs of them in use
          MaxGno      \* gtids::max_gno

ASSUME TsidAssumption == Tsid \subseteq Uuid \X Tag

ASSUME MaxGnoAssumption == MaxGno \in Nat \ {0}

VARIABLES data,       \* data_ of the set that is worked on
          values,     \* another set, the argument of an operation on two
          todo,       \* intervals of values that a loop has not come to
          op          \* the loop that runs: "none", "add" or "subtract"

vars == <<data, values, todo, op>>

Gno == 1 .. MaxGno

Interval == {i \in [lo : Gno, hi : 2 .. MaxGno + 1] : i.lo < i.hi}

Object == [uuids : SUBSET Uuid, tsids : SUBSET Tsid, gnos : [Tsid -> SUBSET Interval]]

Empty == [uuids |-> {}, tsids |-> {}, gnos |-> [x \in Tsid |-> {}]]

-----------------------------------------------------------------------------
(* boost::icl::interval_set: insertion joins intervals that overlap or       *)
(* touch, erasure cuts them.                                                 *)

Touches(i, lo, hi) == i.lo <= hi /\ lo <= i.hi

\* Mutant: what it touches is replaced.
insert_replacing(I, lo, hi) == {i \in I : ~Touches(i, lo, hi)} \cup {[lo |-> lo, hi |-> hi]}

insert(I, lo, hi) ==
  LET reaches(i) == i.lo < lo /\ lo <= i.hi
      passes(i) == i.lo <= hi /\ hi < i.hi
      low == IF \E i \in I : reaches(i) THEN (CHOOSE i \in I : reaches(i)).lo ELSE lo
      high == IF \E i \in I : passes(i) THEN (CHOOSE i \in I : passes(i)).hi ELSE hi
  IN  {i \in I : ~Touches(i, lo, hi)} \cup {[lo |-> low, hi |-> high]}

erase(I, lo, hi) ==
  {i \in I : i.hi <= lo \/ hi <= i.lo}
    \cup {[lo |-> i.lo, hi |-> lo] : i \in {j \in I : j.lo < lo /\ lo < j.hi}}
    \cup {[lo |-> hi, hi |-> i.hi] : i \in {j \in I : j.lo < hi /\ hi < j.hi}}

-----------------------------------------------------------------------------
(* The steps of gtid_set's operations on an object *)

\* data_[uuid][tag].insert(...)
InsertInto(o, x, lo, hi) ==
  [uuids |-> o.uuids \cup {x[1]}, tsids |-> o.tsids \cup {x},
   gnos |-> [o.gnos EXCEPT ![x] = insert(o.gnos[x], lo, hi)]]

find_gnos(o, x) == x[1] \in o.uuids /\ x \in o.tsids

cleanup_if_empty(o, x) ==
  LET left == o.tsids \ {x}
  IN  IF o.gnos[x] # {} THEN o
      ELSE [uuids |-> IF \E y \in left : y[1] = x[1] THEN o.uuids ELSE o.uuids \ {x[1]},
            tsids |-> left, gnos |-> o.gnos]

EraseAt(o, x, lo, hi) ==
  IF ~find_gnos(o, x) THEN o
  ELSE cleanup_if_empty([o EXCEPT !.gnos = [o.gnos EXCEPT ![x] = erase(o.gnos[x], lo, hi)]], x)

-----------------------------------------------------------------------------
(* The operations.  A call with a number out of range throws and changes     *)
(* nothing, it is no step.                                                   *)

validate_components(x, g) == x \in Tsid /\ g \in Gno

add(x, g) ==
  /\ op = "none"
  /\ validate_components(x, g)
  /\ data' = InsertInto(data, x, g, g + 1)
  /\ UNCHANGED <<values, todo, op>>

add_interval(x, lower, upper) ==
  /\ op = "none"
  /\ lower < upper /\ upper \in Gno
  /\ validate_components(x, lower)
  /\ data' = InsertInto(data, x, lower, upper + 1)
  /\ UNCHANGED <<values, todo, op>>

subtract(x, g) ==
  /\ op = "none"
  /\ validate_components(x, g)
  /\ data' = EraseAt(data, x, g, g + 1)
  /\ UNCHANGED <<values, todo, op>>

subtract_interval(x, lower, upper) ==
  /\ op = "none"
  /\ lower < upper /\ upper \in Gno
  /\ validate_components(x, lower)
  /\ data' = EraseAt(data, x, lower, upper + 1)
  /\ UNCHANGED <<values, todo, op>>

clear ==
  /\ op = "none"
  /\ data' = Empty
  /\ UNCHANGED <<values, todo, op>>

\* values = data, the copy constructor or assignment
assign ==
  /\ op = "none"
  /\ values' = data
  /\ UNCHANGED <<data, todo, op>>

\* add(const gtid_set &) and subtract(const gtid_set &) take the intervals of
\* their argument one by one; no other operation runs before the loop ends.
Pieces(o) == {p \in Tsid \X Interval : p[1] \in o.tsids /\ p[2] \in o.gnos[p[1]]}

start(loop) ==
  /\ op = "none"
  /\ Pieces(values) # {}
  /\ todo' = Pieces(values)
  /\ op' = loop
  /\ UNCHANGED <<data, values>>

turn(p) ==
  /\ op # "none"
  /\ data' = IF op = "add" THEN InsertInto(data, p[1], p[2].lo, p[2].hi)
             ELSE EraseAt(data, p[1], p[2].lo, p[2].hi)
  /\ todo' = todo \ {p}
  /\ op' = IF todo = {p} THEN "none" ELSE op
  /\ UNCHANGED values

Init == data = Empty /\ values = Empty /\ todo = {} /\ op = "none"

Next ==
  \/ \E x \in Tsid, g \in Gno : add(x, g) \/ subtract(x, g)
  \/ \E x \in Tsid, lower \in Gno, upper \in Gno :
       add_interval(x, lower, upper) \/ subtract_interval(x, lower, upper)
  \/ clear
  \/ assign
  \/ start("add")
  \/ start("subtract")
  \/ \E p \in todo : turn(p)

Spec == Init /\ [][Next]_vars

-----------------------------------------------------------------------------
(* Queries *)

contains(o, g) ==
  /\ find_gnos(o, g[1])
  /\ \E i \in o.gnos[g[1]] : i.lo <= g[2] /\ g[2] < i.hi

\* Mutant: the upper bounds are taken to belong to the intervals.
intersects_closed(first, second) ==
  \E x \in second.tsids :
    /\ find_gnos(first, x)
    /\ \E i \in first.gnos[x], j \in second.gnos[x] : i.lo <= j.hi /\ j.lo <= i.hi

intersects(first, second) ==
  \E x \in second.tsids :
    /\ find_gnos(first, x)
    /\ \E i \in first.gnos[x], j \in second.gnos[x] : i.lo < j.hi /\ j.lo < i.hi

-----------------------------------------------------------------------------
(* Properties *)

GtidValue == Tsid \X Gno

Members(o) == {g \in GtidValue : contains(o, g)}

\* Intervals of a TSID neither overlap nor touch.
Apart(I) == \A i, j \in I : i = j \/ i.hi < j.lo \/ j.hi < i.lo

Canonical(o) ==
  /\ o \in Object
  /\ \A x \in Tsid : Apart(o.gnos[x])
  /\ o.tsids = {x \in Tsid : o.gnos[x] # {}}
  /\ o.uuids = {x[1] : x \in o.tsids}

\* After any sequence of operations the maps hold no empty entry and no two
\* intervals that could be one, so that is_empty, str and the encoded size,
\* which look at the entries, see the transactions and nothing else.
SetsAreCanonical == Canonical(data) /\ Canonical(values)

\* operator== compares the maps and intersects the intervals; both decide what
\* they say of the transactions in the sets.
ComparisonsAreExact ==
  /\ (data = values) <=> (Members(data) = Members(values))
  /\ intersects(data, values) <=> (Members(data) \cap Members(values) # {})

\* Every operation does to the transactions of the set what its name says; a
\* loop over the argument is one step of it, taken where the loop begins.
Pending == {g \in GtidValue : \E p \in todo : p[1] = g[1] /\ p[2].lo <= g[2] /\ g[2] < p[2].hi}

Current ==
  IF op = "add" THEN Members(data) \cup Pending ELSE Members(data) \ Pending

Abstract == INSTANCE GtidSet WITH members <- Current, argument <- Members(values)

ImplementsSet == Abstract!Spec

=============================================================================
