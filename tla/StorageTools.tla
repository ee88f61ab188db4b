---------------------------- MODULE StorageTools -----------------------------
(****************************************************************************)
(* The short-lived commands of the program on a storage that another        *)
(* process streams to: list, search_by_timestamp and search_by_gtid_set     *)
(* (class storage in the querying_only mode) and purge_binlogs (the purging *)
(* mode).                                                                   *)
(*                                                                          *)
(* A query reads the objects one by one while the streaming process and a   *)
(* purge change them.  A purge does not run beside the streaming process,   *)
(* as the manual demands, but it can be killed, and its calls can fail.     *)
(****************************************************************************)
EXTENDS Storage

CONSTANT MaxPurges       \* bound: purges that begin

ASSUME ToolsAssumption == MaxPurges \in Nat

VARIABLES
  query,                 \* the process of a query
  purge,                 \* the process of a purge
  purges                 \* purges so far

toolVars == <<query, purge, purges>>

-----------------------------------------------------------------------------
(* A storage in the querying_only mode *)

\* What the streaming process has committed: a query that begins now must see
\* it.  (For the properties.)
CommittedGtids == UNION {meta[n].added : n \in NameSet(index)}

NoQuery == [pc |-> "idle", listed |-> {}, names |-> << >>, records |-> << >>,
            before |-> {}, whole |-> TRUE]

\* list_objects.  Without an index object there is nothing to report: the very
\* first file may be about to be created.
ListObjects ==
  /\ query.pc = "idle"
  /\ query' = [NoQuery EXCEPT !.pc = IF index = << >> THEN "loaded" ELSE "index",
                              !.listed = metas,
                              !.before = CommittedGtids]
  /\ UNCHANGED <<vars, purge, purges>>

\* load_binlog_index; validate_binlog_index accepts any difference.
LoadBinlogIndex ==
  /\ query.pc = "index"
  /\ query' = [query EXCEPT !.pc = "metadata", !.names = index]
  /\ UNCHANGED <<vars, purge, purges>>

Skipped == [query EXCEPT !.names = Tail(@)]

\* An iteration of load_and_validate_binlog_metadata_set.  A file without
\* metadata, in the listing or by now, is left out; the sizes are not compared.
LoadBinlogMetadata ==
  /\ query.pc = "metadata" /\ query.names # << >>
  /\ LET n == Head(query.names)
     IN  query' = IF n \in query.listed \cap metas
                  THEN [Skipped EXCEPT !.records = Append(@, [name |-> n, meta |-> meta[n]])]
                  ELSE Skipped
  /\ UNCHANGED <<vars, purge, purges>>

\* get_object fails: a file the query cannot read about is left out as well.
LoadBinlogMetadataFails ==
  /\ query.pc = "metadata" /\ query.names # << >>
  /\ query' = [Skipped EXCEPT !.whole = FALSE]
  /\ Fails
  /\ UNCHANGED <<objects, pc, memory, purge, purges>>

\* The records are complete, and the command reports on them.
Loaded ==
  /\ query.pc = "metadata" /\ query.names = << >>
  /\ query' = [query EXCEPT !.pc = "loaded"]
  /\ UNCHANGED <<vars, purge, purges>>

\* The answer has been printed, or the query ends before it is.
QueryEnds ==
  /\ query.pc # "idle"
  /\ query' = NoQuery
  /\ UNCHANGED <<vars, purge, purges>>

Query == \/ ListObjects \/ LoadBinlogIndex \/ LoadBinlogMetadata
         \/ LoadBinlogMetadataFails \/ Loaded \/ QueryEnds

-----------------------------------------------------------------------------
(* The commands, as functions of the records.  An empty answer is an error:  *)
(* "Binlog storage is empty", "Timestamp is too old", "The specified GTID    *)
(* set cannot be covered".                                                   *)

handle_list(records_) == records_

\* The files up to the first one that begins after the timestamp.
handle_search_by_timestamp(records_, timestamp) ==
  LET later == {i \in DOMAIN records_ : records_[i].meta.ts.min > timestamp}
  IN  IF later = {} THEN records_
      ELSE SubSeq(records_, 1, (CHOOSE i \in later : \A j \in later : i <= j) - 1)


\* What the files before the i-th one have subtracted from the remaining gtids.
AddedBefore(records_, i) == UNION {records_[j].meta.added : j \in 1 .. i - 1}

\* The files that hold some of the gtids that still remain.
handle_search_by_gtid_set(records_, gtids) ==
  LET found == {i \in DOMAIN records_ :
                  (gtids \ AddedBefore(records_, i)) \cap records_[i].meta.added # {}}
  IN  IF gtids \subseteq AddedBefore(records_, Len(records_) + 1)
      THEN {records_[i].name : i \in found} ELSE {}

-----------------------------------------------------------------------------
(* A storage in the purging mode *)

NoPurge == [pc |-> "idle", kept |-> << >>, victims |-> << >>]

PurgeIsIdle == purge.pc = "idle"

\* The names handed to remove_objects, two for every file.
Victims(names) ==
  [i \in 1 .. 2 * Len(names) |->
     [kind |-> IF i % 2 = 1 THEN "metadata" ELSE "payload", name |-> names[(i + 1) \div 2]]]

\* Mutant: the tail can be purged.
MayPurge_tail(k) == StorageIsValid /\ k \in 1 .. Len(index)

\* The constructor accepts the storage, and the target, the k-th file, is not
\* the tail.
MayPurge(k) == StorageIsValid /\ k \in 1 .. Len(index) - 1

\* purge_binlogs up to its first change.  The constructor has read all objects,
\* which nobody changes meanwhile.
PurgeBegins ==
  /\ PurgeIsIdle /\ purges < MaxPurges
  /\ pc \in {"down", "refused"}
  /\ \E k \in DOMAIN index :
       /\ MayPurge(k)
       /\ purge' = [pc |-> "index",
                    kept |-> SubSeq(index, k + 1, Len(index)),
                    victims |-> Victims(SubSeq(index, 1, k))]
  /\ purges' = purges + 1
  /\ UNCHANGED <<vars, query>>

\* Mutant: the objects are removed before the index is saved.
PurgeSaves_late ==
  /\ purge.pc = "index"
  /\ purge' = [purge EXCEPT !.pc = "remove"]
  /\ UNCHANGED <<vars, query, purges>>

\* save_binlog_index: the purge is committed.
PurgeSaves ==
  /\ purge.pc = "index"
  /\ index' = purge.kept
  /\ purge' = [purge EXCEPT !.pc = "remove"]
  /\ UNCHANGED <<initialized, payloads, payload, metas, meta, pc, memory, bounds,
                 query, purges>>

\* The same, failing before or after the object was replaced: purge_binlogs
\* throws, and nothing is removed.
PurgeSaveFails ==
  /\ purge.pc = "index"
  /\ index' \in {index, purge.kept}
  /\ purge' = NoPurge
  /\ Fails
  /\ UNCHANGED <<initialized, payloads, payload, metas, meta, pc, memory, query,
                 purges>>

RemoveObject(o) ==
  IF o.kind = "payload"
  THEN /\ payloads' = payloads \ {o.name}
       /\ payload' = [payload EXCEPT ![o.name] = << >>]
       /\ UNCHANGED <<metas, meta>>
  ELSE /\ metas' = metas \ {o.name}
       /\ meta' = [meta EXCEPT ![o.name] = EmptyRecord]
       /\ UNCHANGED <<payloads, payload>>

\* The head of the names has been dealt with.
RemovalStep ==
  /\ purge.pc = "remove" /\ purge.victims # << >>
  /\ purge' = [purge EXCEPT !.victims = Tail(@)]
  /\ UNCHANGED <<initialized, index, pc, memory, query, purges>>

\* Mutant: the metadata stays.
PurgeRemoves_payloads ==
  /\ RemovalStep
  /\ IF Head(purge.victims).kind = "payload" THEN RemoveObject(Head(purge.victims))
     ELSE UNCHANGED <<payloads, payload, metas, meta>>
  /\ UNCHANGED bounds

\* An iteration of remove_objects.
PurgeRemoves ==
  /\ RemovalStep
  /\ RemoveObject(Head(purge.victims))
  /\ UNCHANGED bounds

\* An object that cannot be removed, or of which that is said, is passed over;
\* the first error is reported in the end.
PurgeRemoveFails ==
  /\ RemovalStep
  /\ \/ RemoveObject(Head(purge.victims))
     \/ UNCHANGED <<payloads, payload, metas, meta>>
  /\ Fails

\* All names have been tried: purge_binlogs returns.
PurgeEnds ==
  /\ purge.pc = "remove" /\ purge.victims = << >>
  /\ purge' = NoPurge
  /\ UNCHANGED <<vars, query, purges>>

PurgeKilled ==
  /\ ~PurgeIsIdle
  /\ crashes < MaxCrashes
  /\ crashes' = crashes + 1
  /\ purge' = NoPurge
  /\ UNCHANGED <<objects, pc, memory, failures, query, purges>>

Purge == \/ PurgeBegins \/ PurgeSaves \/ PurgeSaveFails \/ PurgeRemoves
         \/ PurgeRemoveFails \/ PurgeEnds \/ PurgeKilled

-----------------------------------------------------------------------------

ToolsInit ==
  /\ Init
  /\ query = NoQuery /\ purge = NoPurge /\ purges = 0

\* The streaming process does not run during a purge.
Streaming == PurgeIsIdle /\ Next /\ UNCHANGED toolVars

ToolsNext == Streaming \/ Query \/ Purge

ToolsSpec == ToolsInit /\ [][ToolsNext]_<<vars, toolVars>>

-----------------------------------------------------------------------------
(* Properties *)

\* A purge that nothing disturbed leaves a storage that is accepted again, and
\* one that was killed or met a failure is never mistaken for a finished one:
\* the process streams only to a storage that is valid.
PurgesAreResumable == PurgeIsIdle => StorageIsResumable

\* t is s, with something behind it or not.
Continues(s, t) == Len(s) <= Len(t) /\ SubSeq(t, 1, Len(s)) = s

\* Whatever is purged, killed and failing, only whole files go, the oldest
\* ones, and never the last: the file and the gtids from which streaming is
\* resumed stay, and what is committed to a file that is listed stays in it.
OnlyOldestFilesGo ==
  [][/\ \A n \in NameSet(index) \cap NameSet(index)' : Continues(Committed(n), Committed(n)')
     /\ index # << >> =>
          \E k \in 1 .. Len(index) : Continues(SubSeq(index, k, Len(index)), index')
    ]_<<vars, toolVars>>

\* What a query reports of a file that is still listed is true of a state of
\* that file: the payload has at least the reported size, and the gtids and
\* times are those of the events up to that size, although the objects were
\* read one after the other while the streaming process was writing.
QueriesAreConsistent ==
  query.pc = "loaded" =>
    \A r \in NameSet(handle_list(query.records)) :
      r.name \in NameSet(index) =>
        /\ r.meta.size <= Len(payload[r.name])
        /\ LET p == SubSeq(payload[r.name], 1, r.meta.size)
           IN  /\ EndsAtBoundary(p)
               /\ ReplicationMode = "gtid" => r.meta.added = CompletedGtids(p)
               /\ \A t \in Timestamps(p) : r.meta.ts.min <= t /\ t <= r.meta.ts.max

Ordered(records_) ==
  \A i, j \in DOMAIN records_ : i < j => records_[i].meta.ts.min <= records_[j].meta.ts.min


\* The constructor of a query goes on to read the front of its records: there
\* is one, as long as the metadata of some file can be read.  The comment on
\* skipped files says that the storage can then still be queried.
FrontExists ==
  query.pc = "metadata" /\ query.names = << >> => query.records # << >>

=============================================================================
