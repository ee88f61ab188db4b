---------------------------- MODULE CommitOrder -----------------------------
(* The logical clock of rewritten transactions.  A source binlog file numbers*)
(* its transactions 1, 2, ... and says for each the last one that has to be  *)
(* committed before it runs.  The rewriter numbers them anew: the files of   *)
(* the storage begin and end elsewhere.                                      *)
EXTENDS Integers

VARIABLES file,       \* the source file that is read
          remote,     \* the number of its last transaction that was read
          begin,      \* both, as they were when the storage began its file
          local,      \* the last number given out in the storage's file
          stored      \* the transactions of the storage's file

clockVars == <<file, remote, begin, local, stored>>

\* Mutant: the new number is not taken into account.
fix_keeping_last_committed(last_local, sequence_number, last_committed) ==
  [sequence_number |-> last_local + 1,
   last_committed |-> IF last_committed <= last_local THEN last_committed ELSE last_local]

\* The exception on last_committed >= sequence_number is the caller's guard.
fix_sequence_number_and_last_committed(last_local, sequence_number, last_committed) ==
  LET delta == sequence_number - last_committed
      new == last_local + 1
  IN  [sequence_number |-> new,
       last_committed |-> IF new > delta THEN new - delta ELSE IF new = 1 THEN 0 ELSE 1]

-----------------------------------------------------------------------------

ClockInit ==
  /\ file = 1 /\ remote = 0 /\ local = 0
  /\ begin = [file |-> 1, remote |-> 0]
  /\ stored = {}

\* The next transaction of the source is rewritten; starts: the storage's file
\* has reached its size, or there is none, and the next one begins with it.
Rewrite(starts, last_committed) ==
  LET sequence_number == remote + 1
      new == fix_sequence_number_and_last_committed(IF starts THEN 0 ELSE local,
                                                    sequence_number, last_committed)
  IN  /\ last_committed < sequence_number
      /\ stored' = (IF starts THEN {} ELSE stored)
                     \cup {[file |-> file, sequence_number |-> sequence_number,
                            last_committed |-> last_committed, new |-> new]}
      /\ begin' = IF starts THEN [file |-> file, remote |-> remote] ELSE begin
      /\ local' = new.sequence_number
      /\ remote' = sequence_number
      /\ UNCHANGED file

\* The source goes on to its next file.
SourceRotates ==
  /\ file' = file + 1
  /\ remote' = 0
  /\ UNCHANGED <<begin, local, stored>>

\* A crash loses what was not flushed; the numbering goes on behind the last
\* transaction that is left, and so does the source.
Lose(last) ==
  LET t == CHOOSE t \in stored : t.new.sequence_number = last
  IN  /\ local' = last
      /\ stored' = {u \in stored : u.new.sequence_number <= last}
      /\ file' = IF last = 0 THEN begin.file ELSE t.file
      /\ remote' = IF last = 0 THEN begin.remote ELSE t.sequence_number
      /\ UNCHANGED begin

ClockNext ==
  \/ \E starts \in BOOLEAN, last_committed \in 0 .. remote : Rewrite(starts, last_committed)
  \/ SourceRotates
  \/ \E last \in 0 .. local : Lose(last)

ClockSpec == ClockInit /\ [][ClockNext]_clockVars

-----------------------------------------------------------------------------
(* Properties *)

\* b may not start before a is committed: a is of an earlier source file, or
\* b names it or a later one as its commit parent.
Waits(b, a) ==
  a.file < b.file \/ (a.file = b.file /\ a.sequence_number <= b.last_committed)

\* Whoever replays the storage's file in parallel makes a transaction wait for
\* every transaction of the file it had to wait for on the source, however the
\* files of the two are cut and whatever a crash made the program read again.
CommitOrderIsKept ==
  \A a, b \in stored : Waits(b, a) => a.new.sequence_number <= b.new.last_committed

\* The storage's file counts its transactions from 1, each behind its commit
\* parent, and only the first one has no parent.
ClockIsWellFormed ==
  /\ \A n \in 1 .. local : \E t \in stored : t.new.sequence_number = n
  /\ \A a, b \in stored : a.new.sequence_number = b.new.sequence_number => a = b
  /\ \A t \in stored : /\ t.new.last_committed < t.new.sequence_number
                       /\ t.new.last_committed = 0 <=> t.new.sequence_number = 1

=============================================================================
