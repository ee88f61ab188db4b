------------------------------ MODULE MCEvents ------------------------------
(* What the program knows of events.  A behaviour is one of three systems,   *)
(* the others stand still: a reader context with a peer that sends anything; *)
(* the rewriting of GTID events of every kind, with and without the optional *)
(* fields, where numbers are about to take one more byte; GTID sets.         *)
EXTENDS Rewriter, ReaderStream, MCGtid

uuid == [i \in 1 .. 16 |-> IF i = 1 THEN 1 ELSE 200]

untagged(c, orig, ver, orig_ver, ticket) ==
  [code |-> c,
   post_header |-> [flags |-> <<1>>, uuid |-> uuid, gno |-> <<200>>, logical_ts_code |-> <<2>>,
                    last_committed |-> << >>, sequence_number |-> << >>],
   body |-> [immediate_commit_timestamp |-> <<1, 2, 3>>, original_commit_timestamp |-> orig,
             transaction_length |-> << >>, immediate_server_version |-> ver,
             original_server_version |-> orig_ver, commit_group_ticket |-> ticket,
             last_committed |-> << >>, sequence_number |-> << >>]]

tagged(tag, gno, now_, ver, orig, orig_ver, ticket) ==
  [code |-> gtid_tagged_log,
   post_header |-> [last_committed |-> << >>, sequence_number |-> << >>],
   body |-> [flags |-> <<1>>, uuid |-> uuid, gno |-> [neg |-> FALSE, mag |-> gno], tag |-> tag,
             last_committed |-> << >>, sequence_number |-> << >>,
             immediate_commit_timestamp |-> now_, original_commit_timestamp |-> orig,
             transaction_length |-> << >>, immediate_server_version |-> ver,
             original_server_version |-> orig_ver, commit_group_ticket |-> ticket]]

\* The body of the last one takes 127 bytes with numbers of one byte.
MCGtids ==
  << untagged(gtid_log, {}, {}, {}, {}),
     untagged(anonymous_gtid_log, {<<1, 2>>}, {<<56, 57, 1>>}, {<<55, 57, 1>>}, {<<9>>}),
     tagged(<<97>>, <<1>>, <<1, 2, 3>>, <<56, 57, 1>>, {}, {}, {}),
     tagged([i \in 1 .. 31 |-> 97], AllOnes(7) \o <<63>>, AllOnes(7), AllOnes(4),
            {AllOnes(7)}, {AllOnes(4)}, {AllOnes(8)}) >>

MCVersions == {80045, 80408}

\* With 12 the transaction of the first tagged one is 127 bytes long.
MCTailSizes == {12, 100}

MCFileSize == Nat2Int(300)

\* 200, and 100 less than 2^32
MCPositions == {<<200>>, <<156, 255, 255, 255>>}

Counted(n) ==
  {[file |-> 1, sequence_number |-> i, last_committed |-> i - 1,
    new |-> [sequence_number |-> i, last_committed |-> i - 1]] : i \in 1 .. n}

\* An empty storage; a new source file after 62 stored transactions; an empty
\* storage and a source that has come to transaction 62.
MCHistories ==
  << [file |-> 1, remote |-> 0, begin |-> [file |-> 1, remote |-> 0], local |-> 0, stored |-> {}],
     [file |-> 2, remote |-> 0, begin |-> [file |-> 1, remote |-> 0], local |-> 62,
      stored |-> Counted(62)],
     [file |-> 1, remote |-> 62, begin |-> [file |-> 1, remote |-> 62], local |-> 0,
      stored |-> {}] >>

NoRewriting ==
  /\ file = 0 /\ remote = 0 /\ begin = [file |-> 0, remote |-> 0] /\ local = 0 /\ stored = {}
  /\ context = FreshContext(80408)
  /\ position = << >> /\ pending = << >> /\ written = << >>
  /\ refused = FALSE /\ turns = MaxTurns

NoStream ==
  /\ ctx = NewContext("gtid", NoName, 0)
  /\ thrown = TRUE /\ grammar = "start"
  /\ end = ctx.position /\ group = [declared |-> 0, seen |-> 0] /\ files = 0

EventsInit ==
  /\ Init
  /\ \/ RewriterInit /\ NoStream
     \/ StreamInit /\ NoRewriting
     \/ NoRewriting /\ NoStream

EventsNext ==
  \/ RewriterNext /\ UNCHANGED <<svars, vars>>
  \/ StreamNext /\ UNCHANGED <<clockVars, rewriterVars, vars>>
  \/ NoRewriting /\ NoStream /\ Next /\ Small' /\ UNCHANGED <<clockVars, rewriterVars, svars>>

EventsSpec == EventsInit /\ [][EventsNext]_<<clockVars, rewriterVars, svars, vars>>

=============================================================================
