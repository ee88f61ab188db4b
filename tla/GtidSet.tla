------------------------------ MODULE GtidSet -------------------------------
(* What class gtid_set promises: a set of GTIDs with union, difference and   *)
(* comparison, and a second set to combine it with.                          *)
EXTENDS Naturals

CONSTANTS Tsid,       \* the pairs of a UUID and a tag
          MaxGno      \* the largest transaction number

VARIABLES members, argument

vars == <<members, argument>>

Gno == 1 .. MaxGno

GtidValue == Tsid \X Gno

\* The transactions lo .. hi of a TSID.
Transactions(x, lo, hi) == {g \in GtidValue : g[1] = x /\ lo <= g[2] /\ g[2] <= hi}

Init == members = {} /\ argument = {}

Union(S) == members' = members \cup S /\ UNCHANGED argument

Difference(S) == members' = members \ S /\ UNCHANGED argument

Clear == members' = {} /\ UNCHANGED argument

Copy == argument' = members /\ UNCHANGED members

Next ==
  \/ \E x \in Tsid, lo \in Gno, hi \in Gno :
       Union(Transactions(x, lo, hi)) \/ Difference(Transactions(x, lo, hi))
  \/ Union(argument)
  \/ Difference(argument)
  \/ Clear
  \/ Copy

Spec == Init /\ [][Next]_vars

=============================================================================
