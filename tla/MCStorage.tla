------------------------------ MODULE MCStorage ------------------------------
(* A storage with two files and two transactions, for model checking *)
EXTENDS Storage

CONSTANTS g1, g2, header, body, magic

\* The events of a caller: a format description or gtid event (no boundary), the
\* last event of the transactions g1 and g2, and a ROTATE event.
MCWrittenEvent ==
  {[data |-> header, boundary |-> FALSE, gtid |-> NoGtid, ts |-> 3, seq |-> 0]}
    \cup {[data |-> body, boundary |-> TRUE, gtid |-> g1, ts |-> 2, seq |-> 1],
          [data |-> body, boundary |-> TRUE, gtid |-> g2, ts |-> 0, seq |-> 2],
          [data |-> body, boundary |-> TRUE, gtid |-> NoGtid, ts |-> 1, seq |-> 0]}

\* The storage while no call of the backend fails: Spec with MaxFailures = 0.
KillNext == Construct \/ Call \/ BackendStep \/ Kill

KillSpec == Init /\ [][KillNext]_vars

=============================================================================
