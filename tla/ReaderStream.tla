---------------------------- MODULE ReaderStream -----------------------------
(****************************************************************************)
(* A reader context fed by a peer that may send any event at any time.      *)
(* Beside the context, two observers follow what it lets through: one the   *)
(* grammar the class documents, one the bytes and transactions that are     *)
(* written.  The checks of the context are all that keeps them in order.    *)
(****************************************************************************)
EXTENDS ReaderContext

CONSTANTS
  Name,           \* binlog names
  NoName,         \* the name of an empty storage
  Gtid,
  MaxPosition,    \* bound: positions in a file
  MaxLength,      \* bound: declared length of a transaction
  MaxFiles        \* bound: artificial rotate events of a connection

VARIABLES
  ctx,
  thrown,         \* process_event_view has thrown, the connection is over
  grammar,        \* the part of the grammar the accepted events have reached
  end,            \* where the last event written to the current file ended
  group,          \* [declared, seen]: length of the transaction being written
  files           \* artificial rotate events so far

svars == <<ctx, thrown, grammar, end, group, files>>

Base == [code |-> "query", artificial |-> FALSE, ts |-> 0, next |-> 0,
         name |-> NoName, position |-> 0, gtid |-> NoGtid, seq |-> 0,
         length |-> 0]

Position == 0 .. MaxPosition

RotateEvent(a, t, p, n, q) ==
  [Base EXCEPT !.code = "rotate", !.artificial = a, !.ts = t, !.next = p,
               !.name = n, !.position = q]

StartEvent(c, p, g, l) ==
  [Base EXCEPT !.code = c, !.next = p, !.gtid = g, !.length = l, !.seq = 1]

OtherEvent(c, a, p) == [Base EXCEPT !.code = c, !.artificial = a, !.next = p]

\* Every event the class can tell apart, in and out of place.
AnyEvent ==
  {RotateEvent(a, t, p, n, q) :
     a \in BOOLEAN, t \in {0, 1}, p \in Position, n \in Name, q \in Position}
  \cup
  {StartEvent(c, p, g, l) :
     c \in GtidCodes, p \in Position, g \in Gtid \cup {NoGtid}, l \in 1 .. MaxLength}
  \cup
  {OtherEvent(c, a, p) :
     c \in {"format_description", "previous_gtids_log", "stop", "query"},
     a \in BOOLEAN, p \in Position}

-----------------------------------------------------------------------------
(* The observers *)

\* The grammar of reader_context.hpp: a set of symbols may follow each part.
Symbol(ev) ==
  IF IsArtificialRotate(ev) THEN "ROTATE(artificial)"
  ELSE IF ev.code = "format_description" THEN "FORMAT_DESCRIPTION"
  ELSE IF ev.code = "previous_gtids_log" THEN "PREVIOUS_GTIDS_LOG"
  ELSE IF ev.code \in GtidCodes THEN "GTID"
  ELSE IF ev.code \in EndCodes THEN "ROTATE|STOP"
  ELSE "ANY"

Group == {"GTID", "ROTATE|STOP", "ROTATE(artificial)"}

MayFollow(part) ==
  CASE part \in {"start", "ROTATE|STOP"} -> {"ROTATE(artificial)"}
    [] part = "ROTATE(artificial)" -> {"FORMAT_DESCRIPTION"}
    [] part = "FORMAT_DESCRIPTION" -> {"PREVIOUS_GTIDS_LOG"} \cup Group
    [] part = "PREVIOUS_GTIDS_LOG" -> Group
    [] part \in {"GTID", "ANY"} -> {"ANY"} \cup Group

ObserveEnd(ev, info_only) ==
  end' = IF IsArtificialRotate(ev) /\ (ev.name # ctx.name \/ ~ctx.fresh)
         THEN MagicOffset
         ELSE IF info_only THEN end ELSE end + EventSize

ObserveGroup(ev) ==
  group' = IF ev.code \in GtidCodes
           THEN [declared |-> ev.length, seen |-> EventSize]
           ELSE IF ev.code = "query"
           THEN [group EXCEPT !.seen = @ + EventSize] ELSE group

-----------------------------------------------------------------------------

StreamInit ==
  /\ \E mode \in {"position", "gtid"}, name \in Name \cup {NoName},
        position \in Position :
       /\ (name = NoName) <=> (position = 0)
       /\ ctx = NewContext(mode, name, position)
  /\ thrown = FALSE
  /\ grammar = "start"
  /\ end = ctx.position
  /\ group = [declared |-> 0, seen |-> 0]
  /\ files = 0

Accept(ev) ==
  LET result == process_event_view(ctx, ev)
  IN  /\ ~thrown /\ ~Throws(ctx, ev)
      /\ IsArtificialRotate(ev) => files < MaxFiles
      /\ ctx' = result.context
      /\ grammar' = IF Symbol(ev) \in MayFollow(grammar) THEN Symbol(ev)
                    ELSE "violated"
      /\ ObserveEnd(ev, result.info_only)
      /\ ObserveGroup(ev)
      /\ files' = files + (IF IsArtificialRotate(ev) THEN 1 ELSE 0)
      /\ UNCHANGED thrown

Reject(ev) ==
  /\ ~thrown /\ Throws(ctx, ev)
  /\ thrown' = TRUE
  /\ UNCHANGED <<ctx, grammar, end, group, files>>

StreamNext == \E ev \in AnyEvent : Accept(ev) \/ Reject(ev)

StreamSpec == StreamInit /\ [][StreamNext]_svars

-----------------------------------------------------------------------------
(* Properties *)

\* The accepted events follow the grammar in the comment of reader_context.hpp,
\* whatever the peer sends: process_event_view throws on every other event.
FollowsGrammar == grammar # "violated"

\* The position the context keeps is where the last written event ended, so the
\* file is written without gaps or overlaps, across resumption, info-only
\* preambles and the switch to another file (validate_position_and_advance).
\* After the last event of a file it is reset for the next one.
PositionFollowsWrittenEvents ==
  ctx.state # "rotate_artificial_expected" => ctx.position = end

\* A transaction boundary is reported only when all the events of the declared
\* transaction length have been written, and a transaction group never ends
\* otherwise: the storage flushes up to reported boundaries.
BoundaryMeansWholeTransaction ==
  is_at_transaction_boundary(ctx) => group.seen = group.declared

=============================================================================
