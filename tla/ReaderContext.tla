---------------------------- MODULE ReaderContext ----------------------------
(****************************************************************************)
(* The class binsrv::events::reader_context: the state machine that follows *)
(* the events of one connection and decides, for each of them, whether it   *)
(* may come now, whether it is written or only taken note of, and whether a *)
(* transaction ends with it.                                                *)
(*                                                                          *)
(* A context is a value: process_event_view takes a context and an event    *)
(* and gives the next context, or says that it throws.  An event shows what *)
(* the class reads of it: its type code, the artificial flag, the next      *)
(* event position, the name and position of a ROTATE event, and the gtid,   *)
(* sequence number and length of a transaction in its GTID event.  Every    *)
(* event has size 1.                                                        *)
(****************************************************************************)
EXTENDS Naturals

CONSTANT NoGtid

MagicOffset == 1
EventSize == 1

GtidCodes == {"anonymous_gtid_log", "gtid_log"}
EndCodes == {"rotate", "stop"}

IsArtificialRotate(ev) == ev.code = "rotate" /\ ev.artificial

NewContext(mode, name, position) ==
  [mode |-> mode,
   state |-> "rotate_artificial_expected",
   name |-> name,
   position |-> IF position = 0 THEN MagicOffset ELSE position,
   gtid |-> NoGtid, seq |-> 0, expected |-> 0, current |-> 0,
   info_only_preamble |-> FALSE, fresh |-> TRUE]

is_fresh(c) == c.fresh

\* Mutant: every event of a transaction is a boundary.
is_at_transaction_boundary_always(c) ==
  c.state \in {"any_other_expected", "rotate_artificial_expected"}

is_at_transaction_boundary(c) ==
  \/ c.state = "any_other_expected" /\ c.current = c.expected
  \/ c.state = "rotate_artificial_expected"

-----------------------------------------------------------------------------
(* The transaction under way and the position *)

finish_transaction(c) ==
  [c EXCEPT !.gtid = NoGtid, !.seq = 0, !.expected = 0, !.current = 0]

start_transaction(c, ev) ==
  [c EXCEPT !.gtid = ev.gtid, !.seq = ev.seq, !.expected = ev.length,
            !.current = EventSize]

reset_position(c) == [c EXCEPT !.position = MagicOffset]

PositionIsValid(c, ev) ==
  ev.next # 0 /\ c.position + EventSize = ev.next

advance(c, ev) == [c EXCEPT !.position = ev.next]

-----------------------------------------------------------------------------
(* Events that end the current group: the state changes, and the event is     *)
(* then processed in the new state                                            *)

EndsGroup(c, ev) ==
  \/ c.state \in {"gtid_log_expected", "any_other_expected"}
     /\ ev.code \in EndCodes
  \/ c.state = "any_other_expected" /\ ev.code \in GtidCodes

Redirected(c, ev) ==
  LET f == finish_transaction(c)
  IN  IF ~EndsGroup(c, ev) THEN c
      ELSE IF IsArtificialRotate(ev)
      THEN [reset_position(f) EXCEPT !.state = "rotate_artificial_expected"]
      ELSE IF ev.code \in EndCodes
      THEN [f EXCEPT !.state = "rotate_or_stop_expected"]
      ELSE [f EXCEPT !.state = "gtid_log_expected"]

-----------------------------------------------------------------------------
(* The six states: when an event is expected, and the context after it *)

RotateArtificialExpected(c, ev) ==
  /\ IsArtificialRotate(ev)
  /\ ev.ts = 0 /\ ev.next = 0
  /\ ev.position = IF c.mode = "position" /\ ev.name = c.name
                   THEN c.position ELSE MagicOffset

\* Mutant: the position is kept for another file.
RotateArtificial_keeps_position(c, ev) ==
  [c EXCEPT !.state = "format_description_expected", !.name = ev.name,
            !.info_only_preamble = /\ c.fresh /\ ev.name = c.name
                                   /\ c.position > MagicOffset,
            !.fresh = FALSE]

RotateArtificial(c, ev) ==
  [c EXCEPT !.state = "format_description_expected",
            !.name = ev.name,
            !.position = IF ev.name = c.name THEN c.position ELSE MagicOffset,
            !.info_only_preamble = /\ c.fresh /\ ev.name = c.name
                                   /\ c.position > MagicOffset,
            !.fresh = FALSE]

\* In position mode a resumed file starts with a pseudo format description.
PseudoPreamble(c) == c.mode = "position" /\ c.info_only_preamble

FormatDescriptionExpected(c, ev) ==
  /\ ev.code = "format_description" /\ ~ev.artificial
  /\ PseudoPreamble(c) => ev.next = 0
  /\ ~c.info_only_preamble => PositionIsValid(c, ev)

FormatDescription(c, ev) ==
  [(IF c.info_only_preamble THEN c ELSE advance(c, ev)) EXCEPT
     !.state = IF PseudoPreamble(c) THEN "gtid_log_expected"
               ELSE "previous_gtids_expected"]

PreviousGtidsExpected(c, ev) ==
  /\ ev.code = "previous_gtids_log" /\ ~ev.artificial
  /\ ~c.info_only_preamble => PositionIsValid(c, ev)

PreviousGtids(c, ev) ==
  [(IF c.info_only_preamble THEN c ELSE advance(c, ev)) EXCEPT
     !.state = "gtid_log_expected"]

GtidLogExpected(c, ev) ==
  /\ ev.code \in GtidCodes
  /\ ev.code = "anonymous_gtid_log" => c.mode # "gtid"
  /\ (ev.code = "anonymous_gtid_log") <=> (ev.gtid = NoGtid)
  /\ PositionIsValid(c, ev)

GtidLog(c, ev) ==
  [advance(start_transaction(c, ev), ev) EXCEPT !.state = "any_other_expected"]

AnyOtherExpected(c, ev) ==
  /\ ev.code \notin {"format_description", "previous_gtids_log"}
  /\ ~ev.artificial
  /\ c.current + EventSize <= c.expected
  /\ PositionIsValid(c, ev)

AnyOther(c, ev) == [advance(c, ev) EXCEPT !.current = @ + EventSize]

RotateOrStopExpected(c, ev) ==
  /\ ev.code \in EndCodes /\ ~ev.artificial
  /\ ev.code = "rotate" => ev.position = MagicOffset
  /\ PositionIsValid(c, ev)

\* Mutant: a second terminator is let through.
RotateOrStop_twice(c, ev) == reset_position(c)

RotateOrStop(c, ev) ==
  [reset_position(c) EXCEPT !.state = "rotate_artificial_expected"]

-----------------------------------------------------------------------------
(* process_event_view *)

Expected(c, ev) ==
  CASE c.state = "rotate_artificial_expected" -> RotateArtificialExpected(c, ev)
    [] c.state = "format_description_expected" -> FormatDescriptionExpected(c, ev)
    [] c.state = "previous_gtids_expected" -> PreviousGtidsExpected(c, ev)
    [] c.state = "gtid_log_expected" -> GtidLogExpected(c, ev)
    [] c.state = "any_other_expected" -> AnyOtherExpected(c, ev)
    [] c.state = "rotate_or_stop_expected" -> RotateOrStopExpected(c, ev)

Processed(c, ev) ==
  CASE c.state = "rotate_artificial_expected" -> RotateArtificial(c, ev)
    [] c.state = "format_description_expected" -> FormatDescription(c, ev)
    [] c.state = "previous_gtids_expected" -> PreviousGtids(c, ev)
    [] c.state = "gtid_log_expected" -> GtidLog(c, ev)
    [] c.state = "any_other_expected" -> AnyOther(c, ev)
    [] c.state = "rotate_or_stop_expected" -> RotateOrStop(c, ev)

InfoOnly(c, ev) ==
  \/ c.state = "rotate_artificial_expected"
  \/ /\ c.state \in {"format_description_expected", "previous_gtids_expected"}
     /\ c.info_only_preamble

\* process_event_view(c, ev): whether it throws, else the context after the
\* event and whether the event is only taken note of.
Throws(c, ev) ==
  \/ EndsGroup(c, ev) /\ c.current # c.expected
  \/ ~Expected(Redirected(c, ev), ev)

process_event_view(c, ev) ==
  LET r == Redirected(c, ev)
  IN  [context |-> Processed(r, ev), info_only |-> InfoOnly(r, ev)]

=============================================================================
