------------------------------- MODULE MCGtid -------------------------------
(* Two UUIDs, one of them with and without a tag.                            *)
EXTENDS GtidCodec

CONSTANTS u1, u2, none, t1, MaxMembers

MCUuid == {u1, u2}
MCTag == {none, t1}
MCTsid == {<<u1, none>>, <<u1, t1>>, <<u2, none>>}
MCUuidBytes == u1 :> [i \in 1 .. 16 |-> i] @@ u2 :> [i \in 1 .. 16 |-> 200]
MCTagBytes == none :> << >> @@ t1 :> <<97, 98>>

\* Of the transactions of both sets together.
Small == Cardinality(Members(data)) + Cardinality(Members(values)) <= MaxMembers

=============================================================================
