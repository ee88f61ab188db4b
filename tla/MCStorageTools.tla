--------------------------- MODULE MCStorageTools ----------------------------
(* A bucket.  Either one process streams two files to it, and two of its     *)
(* calls may fail; or shorter files are also queried and purged, three of    *)
(* them, with two kills or failures.                                         *)
EXTENDS StorageTools

CONSTANTS g1, g2, header, body, magic, ToolFaults, ToolFileSize

MCWrittenEvent ==
  {[data |-> header, boundary |-> FALSE, gtid |-> NoGtid, ts |-> 3, seq |-> 0]}
    \cup {[data |-> body, boundary |-> TRUE, gtid |-> g1, ts |-> 2, seq |-> 1],
          [data |-> body, boundary |-> TRUE, gtid |-> g2, ts |-> 0, seq |-> 2],
          [data |-> body, boundary |-> TRUE, gtid |-> NoGtid, ts |-> 1, seq |-> 0]}

WithoutTools == query.pc = "off"

MCInit ==
  \/ ToolsInit
  \/ /\ Init
     /\ query = [NoQuery EXCEPT !.pc = "off"] /\ purge = NoPurge /\ purges = MaxPurges

\* A server numbers its files.
NextName == IF records = << >> THEN 1 ELSE records[Len(records)] + 1

\* With the tools: no more than a transaction with a gtid in a file.
Small ==
  /\ crashes + failures <= ToolFaults
  /\ pc = "ready" => get_current_position <= ToolFileSize
  /\ \A i \in DOMAIN event_buffer : event_buffer[i].gtid # NoGtid
  /\ records = << >> => purged_gtids = {}

MCNext ==
  \/ /\ WithoutTools
     /\ Streaming
     /\ crashes' = 0 /\ stream' # 3
  \/ /\ ~WithoutTools
     /\ ToolsNext
     /\ stream' \in {NoName, NextName} \cup NameSet(records)
     /\ Small'

MCSpec == MCInit /\ [][MCNext]_<<vars, toolVars>>

=============================================================================
