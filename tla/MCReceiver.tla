------------------------------ MODULE MCReceiver ------------------------------
(* Small servers for the receiver *)
EXTENDS Receiver

CONSTANTS g1, g2, g3

\* A file closed by FLUSH BINARY LOGS, and the one after it.
RotatedFiles ==
  <<[transactions |-> <<g1, g2>>, end |-> "rotate"],
    [transactions |-> <<g3>>, end |-> "none"]>>

\* A file closed by a shutdown, one left by a crash, and a third one.
RestartedFiles ==
  <<[transactions |-> <<g1>>, end |-> "stop"],
    [transactions |-> <<g2>>, end |-> "none"],
    [transactions |-> <<g3>>, end |-> "none"]>>

\* A server that crashed right after it created its second file.
CrashedEmptyFiles ==
  <<[transactions |-> <<g1>>, end |-> "none"],
    [transactions |-> << >>, end |-> "none"],
    [transactions |-> <<g2>>, end |-> "none"]>>

MCMagic == [code |-> "magic", next |-> 0, body |-> {}, part |-> 0]

\* What the program may write of the server's events.
MCWrittenEvent ==
  UNION {{LET e == ServerEvent(n, i)
              t == ServerFiles[n].transactions
              j == TransactionAt(i)
              in_group == i > PreambleLength /\ j <= Len(t)
          IN  [data |-> DataOf(e),
               boundary |-> i > PreambleLength
                              /\ (in_group => PartAt(i) = TransactionLength),
               gtid |-> IF in_group THEN t[j] ELSE NoGtid,
               ts |-> e.ts, seq |-> IF in_group THEN j ELSE 0] :
          i \in 1 .. FileLength(n)} : n \in 1 .. Len(ServerFiles)}

MCData == {e.data : e \in MCWrittenEvent} \cup {MCMagic}

\* What the program may write in rewrite mode.
MCRewrittenEvent ==
  LET base(code, next) == [code |-> code, next |-> next, body |-> {}, part |-> 0]
      ev(data, gtid, ts, seq) ==
        [data |-> data, gtid |-> gtid, ts |-> ts, seq |-> seq,
         boundary |-> data.code = "rotate" \/ data.part = TransactionLength]
  IN  {ev(base("rotate", p), NoGtid, 1, 0) : p \in 2 .. MaxFileSize}
        \cup {ev(base("format_description", 2), NoGtid, 1, 0)}
        \cup {ev([base("previous_gtids_log", 3) EXCEPT !.body = G], NoGtid, 1, 0) :
                G \in SUBSET Gtid}
        \cup {ev([code |-> IF k = 1 THEN "gtid_log" ELSE "query", next |-> p,
                  body |-> {g}, part |-> k], g, t, q) :
                k \in 1 .. TransactionLength, p \in 2 .. MaxFileSize, g \in Gtid,
                t \in Timestamp, q \in SequenceNumber}

MCRewrittenData == {e.data : e \in MCRewrittenEvent} \cup {MCMagic}

=============================================================================
