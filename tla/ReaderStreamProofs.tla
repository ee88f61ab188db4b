------------------------- MODULE ReaderStreamProofs --------------------------
(****************************************************************************)
(* Theorems about the reader context, for every set of names and gtids,     *)
(* every length of a transaction and every file: whatever the peer sends,   *)
(* what the context lets through follows its grammar, is written without    *)
(* gaps, and ends a transaction where it says it does.                      *)
(****************************************************************************)
EXTENDS ReaderStream, TLAPS

State ==
  {"rotate_artificial_expected", "format_description_expected", "previous_gtids_expected",
   "gtid_log_expected", "any_other_expected", "rotate_or_stop_expected"}

Context ==
  [mode : {"position", "gtid"}, state : State, name : Name \cup {NoName}, position : Nat,
   gtid : Gtid \cup {NoGtid}, seq : Nat, expected : Nat, current : Nat,
   info_only_preamble : BOOLEAN, fresh : BOOLEAN]

\* Which part of the grammar has been reached in each state.  Between two events
\* the context never waits for a ROTATE or STOP event alone.
GrammarInv ==
  /\ ctx.state # "rotate_or_stop_expected"
  /\ ctx.state = "rotate_artificial_expected" =>
       grammar = IF ctx.fresh THEN "start" ELSE "ROTATE|STOP"
  /\ ctx.state = "format_description_expected" => grammar = "ROTATE(artificial)"
  /\ ctx.state = "previous_gtids_expected" => grammar = "FORMAT_DESCRIPTION"
  /\ ctx.state = "gtid_log_expected" => grammar \in {"FORMAT_DESCRIPTION", "PREVIOUS_GTIDS_LOG"}
  /\ ctx.state = "any_other_expected" => grammar \in {"GTID", "ANY"}

\* A new context keeps the position it resumes at until it knows the name of the
\* file; later the position at the start of a file is the one behind the magic.
PositionInv ==
  /\ end \in Nat
  /\ ctx.state # "rotate_artificial_expected" => ~ctx.fresh /\ ctx.position = end
  /\ ctx.state = "rotate_artificial_expected" =>
       ctx.position = IF ctx.fresh THEN end ELSE MagicOffset

\* The lengths of the context are those of the transaction that is written; outside
\* of one they are 0, and the last transaction is whole.
GroupInv ==
  /\ group \in [declared : Nat, seen : Nat]
  /\ IF ctx.state = "any_other_expected"
     THEN group.declared = ctx.expected /\ group.seen = ctx.current
     ELSE group.declared = group.seen /\ ctx.expected = 0 /\ ctx.current = 0

ReaderInv == ctx \in Context /\ GrammarInv /\ PositionInv /\ GroupInv

-----------------------------------------------------------------------------
(* An event in the state that processes it *)

EventCode ==
  {"rotate", "format_description", "previous_gtids_log", "stop", "query"} \cup GtidCodes

LEMMA EventFacts ==
  ASSUME NEW ev \in AnyEvent
  PROVE  /\ ev.code \in EventCode /\ ev.artificial \in BOOLEAN
         /\ ev.name \in Name \cup {NoName}
         /\ ev.gtid \in Gtid \cup {NoGtid} /\ ev.seq \in Nat /\ ev.length \in Nat
<1> DEFINE Typed(x) ==
             /\ x.code \in EventCode /\ x.artificial \in BOOLEAN
             /\ x.name \in Name \cup {NoName}
             /\ x.gtid \in Gtid \cup {NoGtid} /\ x.seq \in Nat /\ x.length \in Nat
<1>1. \A a \in BOOLEAN, t \in {0, 1}, p \in Position, n \in Name, q \in Position :
        Typed(RotateEvent(a, t, p, n, q))
  BY DEF Base, EventCode, RotateEvent
<1>2. \A c \in GtidCodes, p \in Position, g \in Gtid \cup {NoGtid}, l \in 1 .. MaxLength :
        Typed(StartEvent(c, p, g, l))
  BY DEF Base, EventCode, StartEvent
<1>3. \A c \in {"format_description", "previous_gtids_log", "stop", "query"},
         a \in BOOLEAN, p \in Position : Typed(OtherEvent(c, a, p))
  BY DEF Base, EventCode, OtherEvent
<1> HIDE DEF Typed
<1>4. Typed(ev)
  BY <1>1, <1>2, <1>3 DEF AnyEvent
<1> QED BY <1>4 DEF Typed

\* What holds of the context in which the event is processed: the one the reader
\* has, or the one it is redirected to because the event ends a group.
Ready(c, ev) ==
  /\ c \in Context /\ c.name = ctx.name /\ c.fresh = ctx.fresh
  /\ c.state = "rotate_artificial_expected" =>
       /\ "ROTATE(artificial)" \in MayFollow(grammar)
       /\ c.position = IF c.fresh THEN end ELSE MagicOffset
  /\ c.state # "rotate_artificial_expected" => ~c.fresh /\ c.position = end
  /\ c.state = "format_description_expected" => "FORMAT_DESCRIPTION" \in MayFollow(grammar)
  /\ c.state = "previous_gtids_expected" => "PREVIOUS_GTIDS_LOG" \in MayFollow(grammar)
  /\ c.state = "gtid_log_expected" => "GTID" \in MayFollow(grammar)
  /\ c.state = "rotate_or_stop_expected" => "ROTATE|STOP" \in MayFollow(grammar)
  /\ IF c.state = "any_other_expected"
     THEN /\ "ANY" \in MayFollow(grammar) /\ ev.code \notin EndCodes \cup GtidCodes
          /\ group.declared = c.expected /\ group.seen = c.current
     ELSE group.declared = group.seen /\ c.expected = 0 /\ c.current = 0

LEMMA GrammarFacts ==
  /\ MayFollow("start") = {"ROTATE(artificial)"}
  /\ MayFollow("ROTATE|STOP") = {"ROTATE(artificial)"}
  /\ MayFollow("ROTATE(artificial)") = {"FORMAT_DESCRIPTION"}
  /\ MayFollow("FORMAT_DESCRIPTION") = {"PREVIOUS_GTIDS_LOG"} \cup Group
  /\ MayFollow("PREVIOUS_GTIDS_LOG") = Group
  /\ MayFollow("GTID") = {"ANY"} \cup Group
  /\ MayFollow("ANY") = {"ANY"} \cup Group
BY DEF MayFollow

LEMMA RedirectedIsReady ==
  ASSUME ReaderInv, NEW ev \in AnyEvent, ~Throws(ctx, ev)
  PROVE  Ready(Redirected(ctx, ev), ev)
<1>1. CASE ~EndsGroup(ctx, ev)
  <2>1. Redirected(ctx, ev) = ctx
    BY <1>1 DEF Redirected
  <2>2. ctx.state = "any_other_expected" => ev.code \notin EndCodes \cup GtidCodes
    BY <1>1 DEF EndsGroup
  <2>3. ctx.state = "any_other_expected" => "ANY" \in MayFollow(grammar)
    BY GrammarFacts DEF ReaderInv, GrammarInv
  <2>4. ctx.state = "rotate_artificial_expected" => "ROTATE(artificial)" \in MayFollow(grammar)
    BY GrammarFacts DEF ReaderInv, GrammarInv, Context
  <2>5. ctx.state = "gtid_log_expected" => "GTID" \in MayFollow(grammar)
    BY GrammarFacts DEF ReaderInv, GrammarInv, Group
  <2>6. /\ ctx.state = "format_description_expected" => "FORMAT_DESCRIPTION" \in MayFollow(grammar)
        /\ ctx.state = "previous_gtids_expected" => "PREVIOUS_GTIDS_LOG" \in MayFollow(grammar)
        /\ ctx.state # "rotate_or_stop_expected"
    BY GrammarFacts DEF ReaderInv, GrammarInv
  <2> QED BY <2>1, <2>2, <2>3, <2>4, <2>5, <2>6 DEF Ready, ReaderInv, PositionInv, GroupInv
<1>2. CASE EndsGroup(ctx, ev)
  <2>1. /\ ctx.current = ctx.expected
        /\ ctx.state \in {"gtid_log_expected", "any_other_expected"}
    BY <1>2 DEF Throws, EndsGroup
  <2>2. Group \subseteq MayFollow(grammar)
    BY <2>1, GrammarFacts DEF ReaderInv, GrammarInv
  <2>3. ~ctx.fresh /\ ctx.position = end /\ group.declared = group.seen
    BY <2>1 DEF ReaderInv, PositionInv, GroupInv
  <2> DEFINE f == finish_transaction(ctx)
  <2>4. /\ f \in Context /\ f.expected = 0 /\ f.current = 0 /\ f.name = ctx.name
        /\ f.fresh = ctx.fresh /\ f.position = ctx.position
    BY DEF ReaderInv, Context, finish_transaction
  <2> HIDE DEF f
  <2>5. CASE IsArtificialRotate(ev)
    <3> DEFINE r == [reset_position(f) EXCEPT !.state = "rotate_artificial_expected"]
    <3>1. Redirected(ctx, ev) = r
      BY <1>2, <2>5 DEF Redirected, f
    <3>2. /\ r \in Context /\ r.state = "rotate_artificial_expected"
          /\ r.position = MagicOffset /\ r.expected = 0 /\ r.current = 0
          /\ r.name = ctx.name /\ r.fresh = ctx.fresh
      BY <2>4 DEF reset_position, Context, State, MagicOffset
    <3> HIDE DEF r
    <3> QED BY <2>2, <2>3, <3>1, <3>2 DEF Ready, Group
  <2>6. CASE ~IsArtificialRotate(ev)
    <3> DEFINE s == IF ev.code \in EndCodes THEN "rotate_or_stop_expected"
                    ELSE "gtid_log_expected"
               r == [f EXCEPT !.state = s]
    <3>1. Redirected(ctx, ev) = r
      BY <1>2, <2>6 DEF Redirected, f
    <3>2. s \in {"rotate_or_stop_expected", "gtid_log_expected"}
      OBVIOUS
    <3>3. /\ r \in Context /\ r.state = s /\ r.position = ctx.position
          /\ r.expected = 0 /\ r.current = 0 /\ r.name = ctx.name /\ r.fresh = ctx.fresh
      BY <2>4, <3>2 DEF Context, State
    <3> HIDE DEF r, s
    <3> QED BY <2>2, <2>3, <3>1, <3>2, <3>3 DEF Ready, Group
  <2> QED BY <2>5, <2>6
<1> QED BY <1>1, <1>2

\* What a step of the reader does, in terms of the context the event is processed in.
Step(c, ev) ==
  /\ Expected(c, ev) /\ ctx' = Processed(c, ev)
  /\ grammar' = IF Symbol(ev) \in MayFollow(grammar) THEN Symbol(ev) ELSE "violated"
  /\ ObserveEnd(ev, InfoOnly(c, ev)) /\ ObserveGroup(ev)

LEMMA RotateArtificialStep ==
  ASSUME ReaderInv, NEW ev \in AnyEvent, NEW c, Ready(c, ev), Step(c, ev),
         c.state = "rotate_artificial_expected"
  PROVE  ReaderInv'
<1>1. IsArtificialRotate(ev) /\ ctx' = RotateArtificial(c, ev) /\ InfoOnly(c, ev)
  BY DEF Step, Expected, Processed, RotateArtificialExpected, InfoOnly
<1>2. ev.code = "rotate" /\ Symbol(ev) = "ROTATE(artificial)" /\ grammar' = "ROTATE(artificial)"
  BY <1>1 DEF IsArtificialRotate, Symbol, Step, Ready
<1>3. group' = group
  BY <1>2 DEF Step, ObserveGroup, GtidCodes
<1>4. c \in Context /\ ev.name \in Name \cup {NoName} /\ MagicOffset \in Nat
  BY EventFacts DEF Ready, MagicOffset
<1>5. /\ ctx' \in Context /\ ctx'.state = "format_description_expected" /\ ~ctx'.fresh
      /\ ctx'.position = IF ev.name = c.name THEN c.position ELSE MagicOffset
      /\ ctx'.expected = c.expected /\ ctx'.current = c.current
  <2>1. (/\ c.fresh /\ ev.name = c.name /\ c.position > MagicOffset) \in BOOLEAN
    OBVIOUS
  <2> QED BY <1>1, <1>4, <2>1 DEF RotateArtificial, Context, State
<1>6. ctx'.position = end' /\ end' \in Nat
  <2>1. end' = IF ev.name # c.name \/ ~c.fresh THEN MagicOffset ELSE end
    BY <1>1 DEF Step, ObserveEnd, Ready
  <2>2. c.position = IF c.fresh THEN end ELSE MagicOffset
    BY DEF Ready
  <2> QED BY <1>4, <1>5, <2>1, <2>2 DEF ReaderInv, PositionInv
<1>7. group \in [declared : Nat, seen : Nat] /\ group.declared = group.seen
      /\ c.expected = 0 /\ c.current = 0
  BY DEF Ready, ReaderInv, GroupInv
<1> QED BY <1>2, <1>3, <1>5, <1>6, <1>7 DEF ReaderInv, GrammarInv, PositionInv, GroupInv

\* The events of the preamble: written unless a resumed file has them already.
LEMMA PreambleStep ==
  ASSUME ReaderInv, NEW ev \in AnyEvent, NEW c, Ready(c, ev), Step(c, ev),
         NEW s \in {"previous_gtids_expected", "gtid_log_expected"},
         ctx' = [(IF c.info_only_preamble THEN c ELSE advance(c, ev)) EXCEPT !.state = s],
         ~c.info_only_preamble => PositionIsValid(c, ev),
         InfoOnly(c, ev) <=> c.info_only_preamble,
         c.state \notin {"rotate_artificial_expected", "any_other_expected"},
         ev.code \notin {"rotate", "query"} \cup GtidCodes
  PROVE  /\ ctx' \in Context /\ ctx'.state = s /\ PositionInv' /\ GroupInv'
<1>1. c \in Context /\ end \in Nat /\ c.position = end /\ ~c.fresh
  BY DEF Ready, ReaderInv, PositionInv
<1>2. end' = IF c.info_only_preamble THEN end ELSE end + 1
  BY DEF Step, ObserveEnd, IsArtificialRotate, EventSize
<1>3. ~c.info_only_preamble => ev.next = end + 1
  BY <1>1 DEF PositionIsValid, EventSize
<1>4. /\ ctx' \in Context /\ ctx'.state = s /\ ~ctx'.fresh
      /\ ctx'.expected = c.expected /\ ctx'.current = c.current
      /\ ctx'.position = IF c.info_only_preamble THEN c.position ELSE ev.next
  <2>1. CASE c.info_only_preamble
    BY <1>1, <2>1 DEF Context, State
  <2>2. CASE ~c.info_only_preamble
    <3>1. ev.next \in Nat
      BY <1>1, <1>3, <2>2
    <3> QED BY <1>1, <2>2, <3>1 DEF Context, State, advance
  <2> QED BY <2>1, <2>2
<1>5. PositionInv'
  BY <1>1, <1>2, <1>3, <1>4 DEF PositionInv
<1>6. group' = group
  BY DEF Step, ObserveGroup
<1>7. group \in [declared : Nat, seen : Nat] /\ group.declared = group.seen
      /\ c.expected = 0 /\ c.current = 0
  BY DEF Ready, ReaderInv, GroupInv
<1> QED BY <1>4, <1>5, <1>6, <1>7 DEF GroupInv

LEMMA FormatDescriptionStep ==
  ASSUME ReaderInv, NEW ev \in AnyEvent, NEW c, Ready(c, ev), Step(c, ev),
         c.state = "format_description_expected"
  PROVE  ReaderInv'
<1>1. /\ ev.code = "format_description" /\ ~ev.artificial
      /\ ~c.info_only_preamble => PositionIsValid(c, ev)
      /\ ctx' = FormatDescription(c, ev)
      /\ InfoOnly(c, ev) <=> c.info_only_preamble
  BY DEF Step, Expected, Processed, FormatDescriptionExpected, InfoOnly
<1>2. Symbol(ev) = "FORMAT_DESCRIPTION" /\ grammar' = "FORMAT_DESCRIPTION"
  BY <1>1 DEF IsArtificialRotate, Symbol, Step, Ready
<1> DEFINE s == IF PseudoPreamble(c) THEN "gtid_log_expected" ELSE "previous_gtids_expected"
<1>3. s \in {"previous_gtids_expected", "gtid_log_expected"}
  OBVIOUS
<1>4. ctx' = [(IF c.info_only_preamble THEN c ELSE advance(c, ev)) EXCEPT !.state = s]
  BY <1>1 DEF FormatDescription
<1> HIDE DEF s
<1>5. ev.code \notin {"rotate", "query"} \cup GtidCodes
  BY <1>1 DEF GtidCodes
<1>6. ctx' \in Context /\ ctx'.state = s /\ PositionInv' /\ GroupInv'
  BY <1>1, <1>3, <1>4, <1>5, PreambleStep
<1> QED BY <1>2, <1>3, <1>6 DEF ReaderInv, GrammarInv

LEMMA PreviousGtidsStep ==
  ASSUME ReaderInv, NEW ev \in AnyEvent, NEW c, Ready(c, ev), Step(c, ev),
         c.state = "previous_gtids_expected"
  PROVE  ReaderInv'
<1>1. /\ ev.code = "previous_gtids_log" /\ ~ev.artificial
      /\ ~c.info_only_preamble => PositionIsValid(c, ev)
      /\ ctx' = PreviousGtids(c, ev)
      /\ InfoOnly(c, ev) <=> c.info_only_preamble
  BY DEF Step, Expected, Processed, PreviousGtidsExpected, InfoOnly
<1>2. Symbol(ev) = "PREVIOUS_GTIDS_LOG" /\ grammar' = "PREVIOUS_GTIDS_LOG"
  BY <1>1 DEF IsArtificialRotate, Symbol, Step, Ready
<1>3. ctx' = [(IF c.info_only_preamble THEN c ELSE advance(c, ev)) EXCEPT
                !.state = "gtid_log_expected"]
  BY <1>1 DEF PreviousGtids
<1>4. ev.code \notin {"rotate", "query"} \cup GtidCodes
  BY <1>1 DEF GtidCodes
<1>5. ctx' \in Context /\ ctx'.state = "gtid_log_expected" /\ PositionInv' /\ GroupInv'
  BY <1>1, <1>3, <1>4, PreambleStep
<1> QED BY <1>2, <1>5 DEF ReaderInv, GrammarInv

\* An event that is written moves the position and the end alike.
LEMMA WrittenStep ==
  ASSUME ReaderInv, NEW ev, NEW c, Ready(c, ev), Step(c, ev), PositionIsValid(c, ev),
         c.state \notin {"rotate_artificial_expected", "format_description_expected",
                         "previous_gtids_expected"},
         ~IsArtificialRotate(ev)
  PROVE  /\ c \in Context /\ ~c.fresh
         /\ ev.next \in Nat /\ end' = ev.next
<1>1. c \in Context /\ end \in Nat /\ c.position = end /\ ~c.fresh
  BY DEF Ready, ReaderInv, PositionInv
<1>2. ~InfoOnly(c, ev)
  BY DEF InfoOnly
<1>3. end' = end + 1 /\ ev.next = end + 1
  BY <1>1, <1>2 DEF Step, ObserveEnd, PositionIsValid, EventSize
<1> QED BY <1>1, <1>3

LEMMA GtidLogStep ==
  ASSUME ReaderInv, NEW ev \in AnyEvent, NEW c, Ready(c, ev), Step(c, ev),
         c.state = "gtid_log_expected"
  PROVE  ReaderInv'
<1>1. ev.code \in GtidCodes /\ PositionIsValid(c, ev) /\ ctx' = GtidLog(c, ev)
  BY DEF Step, Expected, Processed, GtidLogExpected
<1>2. Symbol(ev) = "GTID" /\ grammar' = "GTID" /\ ~IsArtificialRotate(ev)
  BY <1>1 DEF IsArtificialRotate, Symbol, Step, Ready, GtidCodes
<1>3. c \in Context /\ ~c.fresh /\ ev.next \in Nat /\ end' = ev.next
  BY <1>1, <1>2, WrittenStep
<1>4. ev.gtid \in Gtid \cup {NoGtid} /\ ev.seq \in Nat /\ ev.length \in Nat
  BY EventFacts
<1>5. /\ ctx' \in Context /\ ctx'.state = "any_other_expected" /\ ~ctx'.fresh
      /\ ctx'.position = ev.next /\ ctx'.expected = ev.length /\ ctx'.current = 1
  BY <1>1, <1>3, <1>4 DEF GtidLog, advance, start_transaction, Context, State, EventSize
<1>6. group' = [declared |-> ev.length, seen |-> 1]
  BY <1>1 DEF Step, ObserveGroup, EventSize
<1>7. GroupInv'
  BY <1>4, <1>5, <1>6 DEF GroupInv
<1> QED BY <1>2, <1>3, <1>5, <1>7 DEF ReaderInv, GrammarInv, PositionInv

LEMMA AnyOtherStep ==
  ASSUME ReaderInv, NEW ev \in AnyEvent, NEW c, Ready(c, ev), Step(c, ev),
         c.state = "any_other_expected"
  PROVE  ReaderInv'
<1>1. /\ ev.code \notin {"format_description", "previous_gtids_log"} \cup EndCodes \cup GtidCodes
      /\ PositionIsValid(c, ev) /\ ctx' = AnyOther(c, ev)
  BY DEF Step, Expected, Processed, AnyOtherExpected, Ready
<1>2. ev.code = "query"
  BY <1>1, EventFacts DEF EventCode, EndCodes
<1>3. Symbol(ev) = "ANY" /\ grammar' = "ANY" /\ ~IsArtificialRotate(ev)
  BY <1>1, <1>2 DEF IsArtificialRotate, Symbol, Step, Ready
<1>4. c \in Context /\ ~c.fresh /\ ev.next \in Nat /\ end' = ev.next
  BY <1>1, <1>3, WrittenStep
<1>5. /\ ctx' \in Context /\ ctx'.state = "any_other_expected" /\ ~ctx'.fresh
      /\ ctx'.position = ev.next /\ ctx'.expected = c.expected /\ ctx'.current = c.current + 1
  <2>1. ctx' = [c EXCEPT !.position = ev.next, !.current = c.current + 1]
    BY <1>1, <1>4 DEF AnyOther, advance, Context, EventSize
  <2>2. c.current + 1 \in Nat
    BY <1>4 DEF Context
  <2> QED BY <1>4, <2>1, <2>2 DEF Context, State
<1>6. group' = [group EXCEPT !.seen = @ + 1]
  BY <1>1, <1>2 DEF Step, ObserveGroup, EventSize
<1>7. GroupInv'
  <2>1. /\ group \in [declared : Nat, seen : Nat]
        /\ group.declared = c.expected /\ group.seen = c.current
    BY DEF ReaderInv, GroupInv, Ready
  <2> QED BY <1>5, <1>6, <2>1 DEF GroupInv
<1> QED BY <1>3, <1>4, <1>5, <1>7 DEF ReaderInv, GrammarInv, PositionInv

LEMMA RotateOrStopStep ==
  ASSUME ReaderInv, NEW ev \in AnyEvent, NEW c, Ready(c, ev), Step(c, ev),
         c.state = "rotate_or_stop_expected"
  PROVE  ReaderInv'
<1>1. /\ ev.code \in EndCodes /\ ~ev.artificial /\ PositionIsValid(c, ev)
      /\ ctx' = RotateOrStop(c, ev)
  BY DEF Step, Expected, Processed, RotateOrStopExpected
<1>2. Symbol(ev) = "ROTATE|STOP" /\ grammar' = "ROTATE|STOP" /\ ~IsArtificialRotate(ev)
  BY <1>1 DEF IsArtificialRotate, Symbol, Step, Ready, EndCodes, GtidCodes
<1>3. c \in Context /\ ~c.fresh /\ ev.next \in Nat /\ end' = ev.next
  BY <1>1, <1>2, WrittenStep
<1>4. /\ ctx' \in Context /\ ctx'.state = "rotate_artificial_expected" /\ ~ctx'.fresh
      /\ ctx'.position = MagicOffset /\ ctx'.expected = c.expected /\ ctx'.current = c.current
  BY <1>1, <1>3 DEF RotateOrStop, reset_position, Context, State, MagicOffset
<1>5. group' = group
  BY <1>1 DEF Step, ObserveGroup, EndCodes, GtidCodes
<1>6. group \in [declared : Nat, seen : Nat] /\ group.declared = group.seen
      /\ c.expected = 0 /\ c.current = 0
  BY DEF Ready, ReaderInv, GroupInv
<1> QED BY <1>2, <1>3, <1>4, <1>5, <1>6 DEF ReaderInv, GrammarInv, PositionInv, GroupInv

-----------------------------------------------------------------------------
(* The theorems *)

LEMMA AcceptPreserves ==
  ASSUME ReaderInv, NEW ev \in AnyEvent, Accept(ev)
  PROVE  ReaderInv'
<1> DEFINE c == Redirected(ctx, ev)
<1>1. Ready(c, ev)
  BY RedirectedIsReady DEF Accept
<1>2. Step(c, ev)
  BY DEF Accept, Step, process_event_view, Throws
<1> HIDE DEF c
<1>3. c.state \in State
  BY <1>1 DEF Ready, Context
<1> QED BY <1>1, <1>2, <1>3, RotateArtificialStep, FormatDescriptionStep, PreviousGtidsStep,
           GtidLogStep, AnyOtherStep, RotateOrStopStep
        DEF State

LEMMA ReaderInvHolds == StreamSpec => []ReaderInv
<1>1. StreamInit => ReaderInv
  <2> SUFFICES ASSUME StreamInit PROVE ReaderInv
    OBVIOUS
  <2>1. PICK mode \in {"position", "gtid"}, name \in Name \cup {NoName},
             position \in Position : ctx = NewContext(mode, name, position)
    BY DEF StreamInit
  <2>2. position \in Nat
    BY DEF Position
  <2>3. /\ ctx \in Context /\ ctx.state = "rotate_artificial_expected" /\ ctx.fresh
        /\ ctx.expected = 0 /\ ctx.current = 0
    BY <2>1, <2>2 DEF NewContext, Context, State, MagicOffset
  <2>4. ctx.position \in Nat
    BY <2>3 DEF Context
  <2> QED BY <2>3, <2>4 DEF StreamInit, ReaderInv, GrammarInv, PositionInv, GroupInv
<1>2. ReaderInv /\ [StreamNext]_svars => ReaderInv'
  <2> SUFFICES ASSUME ReaderInv, [StreamNext]_svars PROVE ReaderInv'
    OBVIOUS
  <2>1. ASSUME NEW ev \in AnyEvent, Accept(ev) PROVE ReaderInv'
    BY <2>1, AcceptPreserves
  <2>2. ASSUME UNCHANGED <<ctx, grammar, end, group>> PROVE ReaderInv'
    BY <2>2 DEF ReaderInv, GrammarInv, PositionInv, GroupInv
  <2> QED BY <2>1, <2>2 DEF StreamNext, Reject, svars
<1> QED BY <1>1, <1>2, PTL DEF StreamSpec

\* Whatever the peer sends, the events that process_event_view accepts follow the
\* grammar in the comment of reader_context.hpp.
THEOREM GrammarIsKept == StreamSpec => []FollowsGrammar
<1>1. ReaderInv => FollowsGrammar
  BY DEF ReaderInv, GrammarInv, FollowsGrammar, Context, State
<1> QED BY <1>1, ReaderInvHolds, PTL

\* Whatever the peer sends, the position of the context is where the last event
\* that was written ended: a file is written without gaps or overlaps.
THEOREM PositionIsExact == StreamSpec => []PositionFollowsWrittenEvents
<1>1. ReaderInv => PositionFollowsWrittenEvents
  BY DEF ReaderInv, PositionInv, PositionFollowsWrittenEvents
<1> QED BY <1>1, ReaderInvHolds, PTL

\* Whatever the peer sends, a transaction boundary is reported only when all events
\* of the length its GTID event declares have been written.
THEOREM BoundariesAreExact == StreamSpec => []BoundaryMeansWholeTransaction
<1>1. ReaderInv => BoundaryMeansWholeTransaction
  BY DEF ReaderInv, GroupInv, BoundaryMeansWholeTransaction, is_at_transaction_boundary
<1> QED BY <1>1, ReaderInvHolds, PTL

=============================================================================
