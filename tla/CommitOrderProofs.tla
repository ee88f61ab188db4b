------------------------- MODULE CommitOrderProofs --------------------------
(* The rewriter keeps the commit order of the source, for files of any       *)
(* length, any number of rotations on either side and any crashes.           *)
EXTENDS CommitOrder, TLAPS

Transaction == [file : Nat, sequence_number : Nat, last_committed : Nat,
                new : [sequence_number : Nat, last_committed : Nat]]

\* What a transaction became is the rewriter's answer for its place.
Numbered(t) ==
  /\ t.last_committed < t.sequence_number
  /\ t.new.sequence_number >= 1
  /\ t.new = fix_sequence_number_and_last_committed(t.new.sequence_number - 1,
                                                    t.sequence_number, t.last_committed)

\* Transaction a stands before source position (f, r), which is position n of
\* the storage's file: in one source file the distances are the same, and an
\* earlier source file ends before the later one's transactions begin.
Before(a, f, r, n) ==
  \/ a.file = f /\ r - a.sequence_number = n - a.new.sequence_number
  \/ a.file < f /\ n - r >= a.new.sequence_number

ClockInv ==
  /\ file \in Nat /\ remote \in Nat /\ local \in Nat
  /\ begin \in [file : Nat, remote : Nat]
  /\ stored \subseteq Transaction
  /\ \A t \in stored : Numbered(t) /\ t.new.sequence_number <= local
  /\ \A n \in 1 .. local : \E t \in stored : t.new.sequence_number = n
  /\ \A a, b \in stored : a.new.sequence_number = b.new.sequence_number => a = b
  /\ \A a, b \in stored : a.new.sequence_number < b.new.sequence_number =>
       Before(a, b.file, b.sequence_number, b.new.sequence_number)
  /\ \A a \in stored : Before(a, file, remote, local)

\* The rewriter's numbers: what fix_sequence_number_and_last_committed returns
\* is a transaction's clock behind its parent, with a parent unless it is the
\* first of its file.
LEMMA NewClock ==
  ASSUME NEW n \in Nat, NEW s \in Nat, NEW c \in Nat, c < s
  PROVE  LET new == fix_sequence_number_and_last_committed(n, s, c)
         IN  /\ new \in [sequence_number : Nat, last_committed : Nat]
             /\ new.sequence_number = n + 1
             /\ new.last_committed < new.sequence_number
             /\ new.last_committed = 0 <=> new.sequence_number = 1
  BY DEF fix_sequence_number_and_last_committed

LEMMA ClockInitially == ClockInit => ClockInv
  BY DEF ClockInit, ClockInv

\* The first transaction of a file of the storage.
LEMMA FirstKeepsInv ==
  ASSUME ClockInv, NEW c \in 0 .. remote, Rewrite(TRUE, c)
  PROVE  ClockInv'
  <1> DEFINE s == remote + 1
             new == fix_sequence_number_and_last_committed(0, s, c)
             t == [file |-> file, sequence_number |-> s, last_committed |-> c, new |-> new]
  <1>1. file \in Nat /\ remote \in Nat /\ c \in Nat /\ s \in Nat /\ c < s
    BY DEF ClockInv, Rewrite
  <1>2. /\ new \in [sequence_number : Nat, last_committed : Nat]
        /\ new.sequence_number = 1
    BY <1>1, NewClock
  <1>3. /\ stored' = {t} /\ local' = 1 /\ remote' = s
        /\ file' = file /\ begin' = [file |-> file, remote |-> remote]
    BY <1>2 DEF Rewrite
  <1> HIDE DEF new
  <1>4. t \in Transaction /\ Numbered(t)
    <2>1. t \in Transaction
      BY <1>1, <1>2 DEF Transaction
    <2>2. t.new.sequence_number - 1 = 0
      BY <1>1, <1>2
    <2> QED BY <1>1, <1>2, <2>1, <2>2 DEF Numbered, new
  <1>5. t.new.sequence_number = 1 /\ t.file = file /\ t.sequence_number = remote + 1
    BY <1>2
  <1> HIDE DEF t
  <1> QED BY <1>1, <1>3, <1>4, <1>5 DEF ClockInv, Before

\* One more transaction: it stands behind all others.
LEMMA RewriteKeepsInv ==
  ASSUME ClockInv, NEW c \in 0 .. remote, Rewrite(FALSE, c)
  PROVE  ClockInv'
  <1> DEFINE s == remote + 1
             new == fix_sequence_number_and_last_committed(local, s, c)
             t == [file |-> file, sequence_number |-> s, last_committed |-> c, new |-> new]
  <1>1. /\ file \in Nat /\ remote \in Nat /\ local \in Nat /\ c \in Nat /\ s \in Nat /\ c < s
        /\ stored \subseteq Transaction
    BY DEF ClockInv, Rewrite
  <1>2. /\ new \in [sequence_number : Nat, last_committed : Nat]
        /\ new.sequence_number = local + 1
    BY <1>1, NewClock
  <1>3. /\ stored' = stored \cup {t} /\ local' = local + 1 /\ remote' = s
        /\ file' = file /\ begin' = begin
    BY <1>2 DEF Rewrite
  <1> HIDE DEF new
  <1>4. t \in Transaction /\ Numbered(t)
    <2>1. t \in Transaction
      BY <1>1, <1>2 DEF Transaction
    <2>2. t.new.sequence_number - 1 = local
      BY <1>1, <1>2
    <2> QED BY <1>1, <1>2, <2>1, <2>2 DEF Numbered, new
  <1>5. t.new.sequence_number = local + 1 /\ t.file = file /\ t.sequence_number = remote + 1
    BY <1>2
  <1> HIDE DEF t
  <1>6. \A a \in stored : Before(a, file, remote + 1, local + 1)
    BY <1>1 DEF ClockInv, Before, Transaction
  <1>7. \A u \in stored' : Numbered(u) /\ u.new.sequence_number <= local'
    BY <1>1, <1>3, <1>4, <1>5 DEF ClockInv, Transaction
  <1>8. \A n \in 1 .. local' : \E u \in stored' : u.new.sequence_number = n
    BY <1>1, <1>3, <1>5 DEF ClockInv
  <1>9. \A a, b \in stored' : a.new.sequence_number = b.new.sequence_number => a = b
    BY <1>1, <1>3, <1>5 DEF ClockInv, Transaction
  <1>10. \A a, b \in stored' : a.new.sequence_number < b.new.sequence_number =>
           Before(a, b.file, b.sequence_number, b.new.sequence_number)
    <2> SUFFICES ASSUME NEW a \in stored', NEW b \in stored',
                        a.new.sequence_number < b.new.sequence_number
                 PROVE  Before(a, b.file, b.sequence_number, b.new.sequence_number)
      OBVIOUS
    <2>1. a \in stored
      BY <1>1, <1>3, <1>5 DEF ClockInv, Transaction
    <2>2. CASE b \in stored
      BY <2>1, <2>2 DEF ClockInv
    <2>3. CASE b = t
      BY <2>1, <2>3, <1>5, <1>6
    <2> QED BY <1>3, <2>2, <2>3
  <1>11. \A a \in stored' : Before(a, file', remote', local')
    <2>1. Before(t, file, remote + 1, local + 1)
      BY <1>1, <1>5 DEF Before
    <2> QED BY <1>3, <1>6, <2>1
  <1>12. /\ file' \in Nat /\ remote' \in Nat /\ local' \in Nat
         /\ begin' \in [file : Nat, remote : Nat] /\ stored' \subseteq Transaction
    BY <1>1, <1>3, <1>4 DEF ClockInv
  <1> QED BY <1>7, <1>8, <1>9, <1>10, <1>11, <1>12 DEF ClockInv

\* The source's next file begins behind all transactions that are stored.
LEMMA SourceRotatesKeepsInv == ASSUME ClockInv, SourceRotates PROVE ClockInv'
  <1>1. \A a \in stored : a.file < file' /\ local >= a.new.sequence_number
    BY DEF ClockInv, SourceRotates, Before, Transaction
  <1>2. \A a \in stored' : Before(a, file', remote', local')
    BY <1>1 DEF ClockInv, SourceRotates, Before, Transaction
  <1> QED BY <1>2 DEF ClockInv, SourceRotates

\* What is left after a crash is a beginning of the storage's file.
LEMMA LoseKeepsInv ==
  ASSUME ClockInv, NEW last \in 0 .. local, Lose(last)
  PROVE  ClockInv'
  <1> DEFINE t == CHOOSE u \in stored : u.new.sequence_number = last
  <1>1. last \in Nat /\ last <= local /\ local' = last /\ begin' = begin
        /\ stored' = {u \in stored : u.new.sequence_number <= last}
    BY DEF ClockInv, Lose
  <1>2. last # 0 => t \in stored /\ t.new.sequence_number = last
    <2>1. last # 0 => \E u \in stored : u.new.sequence_number = last
      BY <1>1 DEF ClockInv
    <2> QED BY <2>1
  <1>3. /\ file' = IF last = 0 THEN begin.file ELSE t.file
        /\ remote' = IF last = 0 THEN begin.remote ELSE t.sequence_number
    BY DEF Lose
  <1> HIDE DEF t
  <1>4. file' \in Nat /\ remote' \in Nat
    BY <1>2, <1>3 DEF ClockInv, Transaction
  <1>5. \A n \in 1 .. local' : \E u \in stored' : u.new.sequence_number = n
    BY <1>1 DEF ClockInv
  <1>6. \A a \in stored' : Before(a, file', remote', local')
    <2> SUFFICES ASSUME NEW a \in stored' PROVE Before(a, file', remote', local')
      OBVIOUS
    <2>1. a \in stored /\ a.new.sequence_number <= last /\ a.new.sequence_number >= 1
          /\ a \in Transaction
      BY <1>1 DEF ClockInv, Numbered
    <2>2. last # 0
      BY <1>1, <2>1 DEF Transaction
    <2>3. CASE a.new.sequence_number = last
      <3>1. a = t
        BY <1>2, <2>1, <2>2, <2>3 DEF ClockInv
      <3> QED BY <1>1, <1>2, <1>3, <2>1, <2>2, <3>1 DEF Before, Transaction
    <2>4. CASE a.new.sequence_number < last
      BY <1>1, <1>2, <1>3, <2>1, <2>2, <2>4 DEF ClockInv
    <2> QED BY <1>1, <2>1, <2>3, <2>4 DEF Transaction
  <1>7. \A u \in stored' : Numbered(u) /\ u.new.sequence_number <= local'
    BY <1>1 DEF ClockInv
  <1>8. /\ \A a, b \in stored' : a.new.sequence_number = b.new.sequence_number => a = b
        /\ \A a, b \in stored' : a.new.sequence_number < b.new.sequence_number =>
             Before(a, b.file, b.sequence_number, b.new.sequence_number)
        /\ stored' \subseteq Transaction
    BY <1>1 DEF ClockInv
  <1> QED BY <1>1, <1>4, <1>5, <1>6, <1>7, <1>8 DEF ClockInv

LEMMA ClockInvHolds == ClockSpec => []ClockInv
  <1>1. ClockInv /\ [ClockNext]_clockVars => ClockInv'
    <2> SUFFICES ASSUME ClockInv, [ClockNext]_clockVars PROVE ClockInv'
      OBVIOUS
    <2>1. ASSUME NEW starts \in BOOLEAN, NEW c \in 0 .. remote, Rewrite(starts, c)
          PROVE  ClockInv'
      <3>1. CASE starts = TRUE
        BY <2>1, <3>1, FirstKeepsInv
      <3>2. CASE starts = FALSE
        BY <2>1, <3>2, RewriteKeepsInv
      <3> QED BY <3>1, <3>2
    <2>2. CASE SourceRotates
      BY <2>2, SourceRotatesKeepsInv
    <2>3. ASSUME NEW last \in 0 .. local, Lose(last) PROVE ClockInv'
      BY <2>3, LoseKeepsInv
    <2>4. CASE UNCHANGED clockVars
      BY <2>4 DEF clockVars, ClockInv
    <2> QED BY <2>1, <2>2, <2>3, <2>4 DEF ClockNext
  <1> QED BY <1>1, ClockInitially, PTL DEF ClockSpec

\* The clock the rewriter writes is a clock: fix_sequence_number_and_last_committed
\* counts the transactions of the storage's file, whatever was lost and rewritten.
THEOREM RewrittenClock == ClockSpec => []ClockIsWellFormed
  <1>1. ClockInv => ClockIsWellFormed
    <2> SUFFICES ASSUME ClockInv PROVE ClockIsWellFormed
      OBVIOUS
    <2>1. ASSUME NEW t \in stored
          PROVE  /\ t.new.last_committed < t.new.sequence_number
                 /\ t.new.last_committed = 0 <=> t.new.sequence_number = 1
      <3>1. /\ t.new.sequence_number - 1 \in Nat /\ t.sequence_number \in Nat
            /\ t.last_committed \in Nat /\ t.last_committed < t.sequence_number
        BY DEF ClockInv, Numbered, Transaction
      <3>2. t.new = fix_sequence_number_and_last_committed(t.new.sequence_number - 1,
                                                           t.sequence_number, t.last_committed)
        BY DEF ClockInv, Numbered
      <3> DEFINE new == fix_sequence_number_and_last_committed(t.new.sequence_number - 1,
                                                               t.sequence_number, t.last_committed)
      <3>3. /\ new.last_committed < new.sequence_number
            /\ new.last_committed = 0 <=> new.sequence_number = 1
        BY <3>1, NewClock
      <3> HIDE DEF new
      <3>4. t.new = new
        BY <3>2 DEF new
      <3> QED BY <3>3, <3>4
    <2> QED BY <2>1 DEF ClockInv, ClockIsWellFormed
  <1> QED BY <1>1, ClockInvHolds, PTL

\* A replica that replays the storage's file in parallel waits for all it had
\* to wait for on the source: the distance the rewriter keeps between a
\* transaction and its commit parent is enough.
THEOREM RewritingKeepsCommitOrder == ClockSpec => []CommitOrderIsKept
  <1>1. ClockInv => CommitOrderIsKept
    <2> SUFFICES ASSUME ClockInv, NEW a \in stored, NEW b \in stored, Waits(b, a)
                 PROVE  a.new.sequence_number <= b.new.last_committed
      BY DEF CommitOrderIsKept
    <2>1. a \in Transaction /\ b \in Transaction /\ Numbered(a) /\ Numbered(b)
      BY DEF ClockInv
    <2>2. b.new.sequence_number - b.sequence_number + b.last_committed >= a.new.sequence_number
      <3>1. CASE a.new.sequence_number < b.new.sequence_number
        <4>1. Before(a, b.file, b.sequence_number, b.new.sequence_number)
          BY <3>1 DEF ClockInv
        <4> QED BY <4>1, <2>1 DEF Before, Waits, Transaction
      <3>2. CASE a.new.sequence_number = b.new.sequence_number
        <4>1. a = b
          BY <3>2 DEF ClockInv
        <4> QED BY <4>1, <2>1 DEF Waits, Numbered, Transaction
      <3>3. CASE b.new.sequence_number < a.new.sequence_number
        <4>1. Before(b, a.file, a.sequence_number, a.new.sequence_number)
          BY <3>3 DEF ClockInv
        <4> QED BY <3>3, <4>1, <2>1 DEF Before, Waits, Numbered, Transaction
      <3> QED BY <3>1, <3>2, <3>3, <2>1 DEF Transaction
    <2>3. b.new.last_committed
            = LET delta == b.sequence_number - b.last_committed
                  n == b.new.sequence_number
              IN  IF n > delta THEN n - delta ELSE IF n = 1 THEN 0 ELSE 1
      BY <2>1 DEF Numbered, fix_sequence_number_and_last_committed, Transaction
    <2> QED BY <2>1, <2>2, <2>3 DEF Numbered, Transaction
  <1> QED BY <1>1, ClockInvHolds, PTL

=============================================================================
