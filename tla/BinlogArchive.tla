---------------------------- MODULE BinlogArchive ----------------------------
(****************************************************************************)
(* What the storage promises its users, with no backend, metadata or        *)
(* process in sight: an archive is a list of binlog files of which only the *)
(* newest one grows, and it grows by whole transactions, in the order in    *)
(* which their events were accepted.  Accepted events that are not in the   *)
(* archive yet can be lost, latest first; what is in it stays.              *)
(****************************************************************************)
EXTENDS Naturals, Sequences

CONSTANTS BinlogName, NoName, Event, Magic

VARIABLES
  log,       \* the content of every file, << >> for a file not created yet
  file,      \* the newest file, or NoName
  pending    \* accepted events that are not in the archive

archive == <<log, file, pending>>

Init ==
  /\ log = [n \in BinlogName |-> << >>]
  /\ file = NoName
  /\ pending = << >>

Create(n) ==
  /\ log[n] = << >> /\ pending = << >>
  /\ log' = [log EXCEPT ![n] = <<Magic>>]
  /\ file' = n
  /\ UNCHANGED pending

Accept(e) ==
  /\ file # NoName
  /\ pending' = Append(pending, e)
  /\ UNCHANGED <<log, file>>

\* The transactions that end at or before k join the file.  The rest stays
\* pending, or is lost when this is the last thing the process does.
Commit(k) ==
  /\ pending[k].boundary
  /\ log' = [log EXCEPT ![file] = @ \o SubSeq(pending, 1, k)]
  /\ \/ pending' = SubSeq(pending, k + 1, Len(pending))
     \/ pending' = << >>
  /\ UNCHANGED file

Lose(k) ==
  /\ pending' = SubSeq(pending, 1, k)
  /\ UNCHANGED <<log, file>>

Next ==
  \/ \E n \in BinlogName : Create(n)
  \/ \E e \in Event : Accept(e)
  \/ \E k \in 1 .. Len(pending) : Commit(k)
  \/ \E k \in 0 .. Len(pending) - 1 : Lose(k)

Spec == Init /\ [][Next]_archive

=============================================================================
