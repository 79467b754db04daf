------------------------ MODULE ResponseStream_proofs ------------------------
(***************************************************************************)
(* What is assembled from a stream is what the server has said, and a      *)
(* stream ends closed with one outcome: for every output, however long,    *)
(* every order of its events, every framing, and wherever the lines end.   *)
(***************************************************************************)
EXTENDS ResponseStream, ResponseAssembly_proofs

-----------------------------------------------------------------------------
(* The inductive invariant                                                 *)

Event == [type : STRING, data : Data]

ResponseHead ==
  [model : STRING \cup {None}, status : STRING \cup {None}, reason : STRING \cup {None}]

(* The texts of an item that were begun, and the ones before them.         *)
Begun(item, t) ==
  {k \in DOMAIN Texts(item) : \E j \in DOMAIN Texts(item) : k <= j /\ t.sent[j] > 0}

(* What the server can have said of an item.                               *)
Sayable(item, t) ==
  /\ t \in [added : BOOLEAN, done : BOOLEAN, sent : [DOMAIN Texts(item) -> Nat]]
  /\ \A k \in DOMAIN Texts(item) : t.sent[k] <= Len(Texts(item)[k])
  /\ \E n \in 0..Len(Texts(item)) : Begun(item, t) = 1..n

ServerOK(s) ==
  /\ DOMAIN s = {"plan", "terse", "payload", "told", "over", "inOrder", "callsInOrder"}
  /\ IsOutput(s.plan) /\ s.terse \in BOOLEAN /\ s.over \in BOOLEAN
  /\ DOMAIN s.told = DOMAIN s.plan
  /\ \A i \in DOMAIN s.plan : Sayable(s.plan[i], s.told[i])
  /\ ~s.over /\ ~s.terse => \A i \in DOMAIN s.plan : IsTold(s.told[i]) => s.told[i].added
  /\ s.payload \in ResponseHead
  /\ \/ s.over
     \/ s.payload = NoResponse
     \/ s.payload = [model |-> Model, status |-> "in_progress", reason |-> None]

(* The state of a response shows h, and has an outcome if h has one.       *)
Settled(st, h) ==
  /\ DOMAIN st = {"payload", "items", "final", "error"}
  /\ h \in ResponseRecord /\ Snapshot(st) = h
  /\ IsTerminal(st) = (h.status \in {"completed", "incomplete"})
  /\ IsTerminal(st) => st.final = h /\ st.error = None
  /\ st.error # None => st.error \in Failed /\ st.error.partial = h

(* A state without an outcome that has heard everything the server said.   *)
Follows(st, s) ==
  /\ st.payload = s.payload /\ st.items = ItemsTold(s)
  /\ st.final = None /\ st.error = None

(* An event that brings the state to what the server has said.             *)
Tells(event, st, s) ==
  event # ProtocolError =>
    LET after == Record(st, event)
    IN  /\ Settled(after.state, Account(s))
        /\ after.state.error = None => (after.type \in Terminal) = IsTerminal(after.state)
        /\ ~s.over => Follows(after.state, s)

At(type, lines, ahead) == decoder = [type |-> type, lines |-> lines] /\ wire = ahead

(* The lines of an event are partly in the decoder, partly to be read.     *)
Underway(event) ==
  LET whole  == DataLine(event.data, "whole")
      first  == DataLine(event.data, "first")
      second == DataLine(event.data, "second")
  IN  \/ At(None, <<>>, <<EventLine(event.type), whole, Blank>>)
      \/ At(event.type, <<>>, <<whole, Blank>>)
      \/ At(event.type, <<whole>>, <<Blank>>)
      \/ /\ event.data.type = event.type
         /\ \/ At(None, <<>>, <<EventLine("ping"), Blank, whole, Blank>>)
            \/ At("ping", <<>>, <<Blank, whole, Blank>>)
            \/ At(None, <<>>, <<whole, Blank>>)
            \/ At(None, <<whole>>, <<Blank>>)
      \/ At(None, <<>>, <<EventLine(event.type), first, Comment, second, Blank>>)
      \/ At(event.type, <<>>, <<first, Comment, second, Blank>>)
      \/ At(event.type, <<first>>, <<Comment, second, Blank>>)
      \/ At(event.type, <<first>>, <<second, Blank>>)
      \/ At(event.type, <<first, second>>, <<Blank>>)
      \/ \E line \in {DoneMark, DataLine(NoData, "second")} :
           /\ event = EventFromParts(None, <<line>>)
           /\ At(None, <<>>, <<line, Blank>>) \/ At(None, <<line>>, <<Blank>>)

(* Nothing is on its way, or one event, of which the server may have kept  *)
(* the end to itself.                                                      *)
InFlight ==
  \/ At(None, <<>>, <<>>) /\ (~server.over => Follows(state, server))
  \/ /\ stream.pc = "reading" /\ wire = <<>> /\ server.over
     /\ Flush(decoder).event # None =>
          Flush(decoder).event \in Event /\ Tells(Flush(decoder).event, state, server)
  \/ /\ stream.pc = "reading"
     /\ \E event \in Event : Underway(event) /\ Tells(event, state, server)

StreamOK ==
  stream \in [pc : {"new", "entered", "reading", "yielded", "over"}, open : BOOLEAN, left : BOOLEAN]

OpenUntilOutcome ==
  /\ stream.open => stream.pc # "over" /\ ~IsTerminal(state)
  /\ stream.pc # "over" => state.error = None
  /\ stream.pc \in {"new", "entered", "reading"} => ~IsTerminal(state)

ProtocolInv ==
  /\ ServerOK(server)
  /\ StreamOK
  /\ Settled(state, heard)
  /\ OpenUntilOutcome
  /\ stream.pc # "over" => InFlight

-----------------------------------------------------------------------------
(* Lines and the decoder                                                   *)

LEMMA HeadAndTail ==
  /\ \A a : Head(<<a>>) = a /\ Tail(<<a>>) = <<>> /\ <<a>> # <<>>
  /\ \A a, b : Head(<<a, b>>) = a /\ Tail(<<a, b>>) = <<b>> /\ <<a, b>> # <<>>
  /\ \A a, b, c : Head(<<a, b, c>>) = a /\ Tail(<<a, b, c>>) = <<b, c>> /\ <<a, b, c>> # <<>>
  /\ \A a, b, c, d : Head(<<a, b, c, d>>) = a /\ Tail(<<a, b, c, d>>) = <<b, c, d>>
                     /\ <<a, b, c, d>> # <<>>
  /\ \A a, b, c, d, e : Head(<<a, b, c, d, e>>) = a /\ Tail(<<a, b, c, d, e>>) = <<b, c, d, e>>
                        /\ <<a, b, c, d, e>> # <<>>
OBVIOUS

LEMMA LinesAreParsed ==
  ASSUME NEW json \in Data
  PROVE  /\ Parsed(<<DataLine(json, "whole")>>) = json
         /\ Parsed(<<DataLine(json, "first")>>) = None
         /\ Parsed(<<DataLine(json, "first"), DataLine(json, "second")>>) = json
         /\ Parsed(<<DataLine(json, "second")>>) = None
         /\ Parsed(<<DoneMark>>) = None
BY DEF Parsed, DataLine, DoneMark

LEMMA DoneMarkIsNoData ==
  \A json, piece, line : piece # "[DONE]" =>
     <<DataLine(json, piece)>> # <<DoneMark>> /\ <<DataLine(json, piece), line>> # <<DoneMark>>
BY DEF DataLine, DoneMark

LEMMA BlocksAreEvents ==
  ASSUME NEW event \in Event
  PROVE  LET json == event.data
         IN  /\ EventFromParts(event.type, <<DataLine(json, "whole")>>) = event
             /\ json.type = event.type => EventFromParts(None, <<DataLine(json, "whole")>>) = event
             /\ EventFromParts(event.type, <<DataLine(json, "first")>>) = ProtocolError
             /\ EventFromParts(event.type,
                  <<DataLine(json, "first"), DataLine(json, "second")>>) = event
<1>1. event.data \in Data /\ event.data # None /\ event.type # None
      /\ event = [type |-> event.type, data |-> event.data]
  BY NoneAssumption DEF Event
<1> QED BY <1>1, LinesAreParsed, DoneMarkIsNoData DEF EventFromParts, ResolvedType

LEMMA FedBlank ==
  ASSUME NEW d
  PROVE  FeedLine(d, Blank) = Flush(d)
BY DEF FeedLine, Blank

LEMMA FedComment ==
  ASSUME NEW d
  PROVE  FeedLine(d, Comment) = [decoder |-> d, event |-> None]
BY DEF FeedLine, Comment

LEMMA FedEvent ==
  ASSUME NEW type, NEW lines, NEW t
  PROVE  FeedLine([type |-> type, lines |-> lines], EventLine(t)) =
           [decoder |-> [type |-> t, lines |-> lines], event |-> None]
BY DEF FeedLine, EventLine

LEMMA FlushedLines ==
  ASSUME NEW type, NEW lines, lines # <<>>
  PROVE  Flush([type |-> type, lines |-> lines]) =
           [decoder |-> NoDecoder, event |-> EventFromParts(type, lines)]
BY DEF Flush

LEMMA FirstLine ==
  ASSUME NEW a
  PROVE  Append(<<>>, a) = <<a>>
<1>1. <<>> \in Seq({a}) /\ <<a>> \in Seq({a}) /\ Len(<<>>) = 0 /\ Len(<<a>>) = 1
  OBVIOUS
<1>2. /\ Append(<<>>, a) \in Seq({a}) /\ Len(Append(<<>>, a)) = 1 /\ Append(<<>>, a)[1] = a
  BY <1>1, AppendProperties
<1>3. \A i \in 1..1 : Append(<<>>, a)[i] = <<a>>[i]
  BY <1>2
<1> QED BY <1>1, <1>2, <1>3, SeqEqual, Zenon

LEMMA SecondLine ==
  ASSUME NEW a, NEW b
  PROVE  Append(<<a>>, b) = <<a, b>>
<1>1. <<a>> \in Seq({a, b}) /\ <<a, b>> \in Seq({a, b}) /\ Len(<<a>>) = 1 /\ Len(<<a, b>>) = 2
  OBVIOUS
<1>2. /\ Append(<<a>>, b) \in Seq({a, b})
      /\ Len(Append(<<a>>, b)) = 2 /\ Append(<<a>>, b)[1] = a /\ Append(<<a>>, b)[2] = b
  BY <1>1, AppendProperties
<1>3. \A i \in 1..2 : Append(<<a>>, b)[i] = <<a, b>>[i]
  <2>1. \A i \in 1..2 : i = 1 \/ i = 2
    OBVIOUS
  <2> QED BY <1>2, <2>1
<1> QED BY <1>1, <1>2, <1>3, SeqEqual, Zenon

LEMMA FedFirstLine ==
  ASSUME NEW type, NEW json, NEW piece
  PROVE  FeedLine([type |-> type, lines |-> <<>>], DataLine(json, piece)) =
           [decoder |-> [type |-> type, lines |-> <<DataLine(json, piece)>>], event |-> None]
<1>1. FeedLine([type |-> type, lines |-> <<>>], DataLine(json, piece)) =
        [decoder |-> [type |-> type, lines |-> Append(<<>>, DataLine(json, piece))],
         event |-> None]
  BY DEF FeedLine, DataLine
<1> QED BY <1>1, FirstLine

LEMMA FedSecondLine ==
  ASSUME NEW type, NEW line, NEW json, NEW piece
  PROVE  FeedLine([type |-> type, lines |-> <<line>>], DataLine(json, piece)) =
           [decoder |-> [type |-> type, lines |-> <<line, DataLine(json, piece)>>],
            event |-> None]
<1>1. FeedLine([type |-> type, lines |-> <<line>>], DataLine(json, piece)) =
        [decoder |-> [type |-> type, lines |-> Append(<<line>>, DataLine(json, piece))],
         event |-> None]
  BY DEF FeedLine, DataLine
<1> QED BY <1>1, SecondLine

(* A line brings the decoder nearer to its event, or completes it.         *)
LEMMA LineIsRead ==
  ASSUME NEW event \in Event, Underway(event), wire' = Tail(wire),
         decoder' = FeedLine(decoder, Head(wire)).decoder
  PROVE  LET fed == FeedLine(decoder, Head(wire)).event
         IN  \/ fed = None /\ Underway(event)'
             \/ fed = event /\ At(None, <<>>, <<>>)'
<1> DEFINE whole  == DataLine(event.data, "whole")
           first  == DataLine(event.data, "first")
           second == DataLine(event.data, "second")
           fed == FeedLine(decoder, Head(wire)).event
<1> HIDE DEF fed
<1> SUFFICES \/ fed = None /\ Underway(event)'
             \/ fed = event /\ At(None, <<>>, <<>>)'
  BY DEF fed
<1>1. event \in [type : STRING, data : Data] /\ event # None /\ event.type # None
  BY NoneAssumption DEF Event
<1>3. CASE At(None, <<>>, <<EventLine(event.type), whole, Blank>>)
  <2>1. /\ Head(wire) = EventLine(event.type) /\ Tail(wire) = <<whole, Blank>>
        /\ decoder = [type |-> None, lines |-> <<>>]
    BY <1>3, HeadAndTail DEF At
  <2>2. FeedLine(decoder, EventLine(event.type)) =
          [decoder |-> [type |-> event.type, lines |-> <<>>], event |-> None]
    BY <2>1, FedEvent
  <2> QED BY <2>1, <2>2 DEF Underway, At, fed
<1>4. CASE At(event.type, <<>>, <<whole, Blank>>)
  <2>1. /\ Head(wire) = whole /\ Tail(wire) = <<Blank>>
        /\ decoder = [type |-> event.type, lines |-> <<>>]
    BY <1>4, HeadAndTail DEF At
  <2>2. FeedLine(decoder, whole) =
          [decoder |-> [type |-> event.type, lines |-> <<whole>>], event |-> None]
    BY <2>1, FedFirstLine
  <2> QED BY <2>1, <2>2 DEF Underway, At, fed
<1>5. CASE At(event.type, <<whole>>, <<Blank>>)
  <2>1. /\ Head(wire) = Blank /\ Tail(wire) = <<>>
        /\ decoder = [type |-> event.type, lines |-> <<whole>>]
    BY <1>5, HeadAndTail DEF At
  <2>2. FeedLine(decoder, Blank) = [decoder |-> NoDecoder, event |-> event]
    <3>1. FeedLine(decoder, Blank) =
            [decoder |-> NoDecoder, event |-> EventFromParts(event.type, <<whole>>)]
      BY <2>1, FedBlank, FlushedLines, HeadAndTail
    <3> QED BY <3>1, BlocksAreEvents
  <2> QED BY <2>1, <2>2 DEF At, fed, NoDecoder
<1>6. CASE event.data.type = event.type
           /\ At(None, <<>>, <<EventLine("ping"), Blank, whole, Blank>>)
  <2>1. /\ Head(wire) = EventLine("ping") /\ Tail(wire) = <<Blank, whole, Blank>>
        /\ decoder = [type |-> None, lines |-> <<>>]
    BY <1>6, HeadAndTail DEF At
  <2>2. FeedLine(decoder, EventLine("ping")) =
          [decoder |-> [type |-> "ping", lines |-> <<>>], event |-> None]
    BY <2>1, FedEvent
  <2> QED BY <1>6, <2>1, <2>2 DEF Underway, At, fed
<1>7. CASE event.data.type = event.type
           /\ At("ping", <<>>, <<Blank, whole, Blank>>)
  <2>1. /\ Head(wire) = Blank /\ Tail(wire) = <<whole, Blank>>
        /\ decoder = [type |-> "ping", lines |-> <<>>]
    BY <1>7, HeadAndTail DEF At
  <2>2. FeedLine(decoder, Blank) = [decoder |-> NoDecoder, event |-> None]
    BY <2>1, FedBlank DEF Flush
  <2> QED BY <1>7, <2>1, <2>2 DEF Underway, At, fed, NoDecoder
<1>8. CASE event.data.type = event.type
           /\ At(None, <<>>, <<whole, Blank>>)
  <2>1. /\ Head(wire) = whole /\ Tail(wire) = <<Blank>>
        /\ decoder = [type |-> None, lines |-> <<>>]
    BY <1>8, HeadAndTail DEF At
  <2>2. FeedLine(decoder, whole) =
          [decoder |-> [type |-> None, lines |-> <<whole>>], event |-> None]
    BY <2>1, FedFirstLine
  <2> QED BY <1>8, <2>1, <2>2 DEF Underway, At, fed
<1>9. CASE event.data.type = event.type
           /\ At(None, <<whole>>, <<Blank>>)
  <2>1. /\ Head(wire) = Blank /\ Tail(wire) = <<>>
        /\ decoder = [type |-> None, lines |-> <<whole>>]
    BY <1>9, HeadAndTail DEF At
  <2>2. FeedLine(decoder, Blank) = [decoder |-> NoDecoder, event |-> event]
    <3>1. FeedLine(decoder, Blank) =
            [decoder |-> NoDecoder, event |-> EventFromParts(None, <<whole>>)]
      BY <2>1, FedBlank, FlushedLines, HeadAndTail
    <3> QED BY <1>9, <3>1, BlocksAreEvents
  <2> QED BY <2>1, <2>2 DEF At, fed, NoDecoder
<1>10. CASE At(None, <<>>, <<EventLine(event.type), first, Comment, second, Blank>>)
  <2>1. /\ Head(wire) = EventLine(event.type) /\ Tail(wire) = <<first, Comment, second, Blank>>
        /\ decoder = [type |-> None, lines |-> <<>>]
    BY <1>10, HeadAndTail DEF At
  <2>2. FeedLine(decoder, EventLine(event.type)) =
          [decoder |-> [type |-> event.type, lines |-> <<>>], event |-> None]
    BY <2>1, FedEvent
  <2> QED BY <2>1, <2>2 DEF Underway, At, fed
<1>11. CASE At(event.type, <<>>, <<first, Comment, second, Blank>>)
  <2>1. /\ Head(wire) = first /\ Tail(wire) = <<Comment, second, Blank>>
        /\ decoder = [type |-> event.type, lines |-> <<>>]
    BY <1>11, HeadAndTail DEF At
  <2>2. FeedLine(decoder, first) =
          [decoder |-> [type |-> event.type, lines |-> <<first>>], event |-> None]
    BY <2>1, FedFirstLine
  <2> QED BY <2>1, <2>2 DEF Underway, At, fed
<1>12. CASE At(event.type, <<first>>, <<Comment, second, Blank>>)
  <2>1. /\ Head(wire) = Comment /\ Tail(wire) = <<second, Blank>>
        /\ decoder = [type |-> event.type, lines |-> <<first>>]
    BY <1>12, HeadAndTail DEF At
  <2>2. FeedLine(decoder, Comment) = [decoder |-> decoder, event |-> None]
    BY FedComment
  <2> QED BY <2>1, <2>2 DEF Underway, At, fed
<1>13. CASE At(event.type, <<first>>, <<second, Blank>>)
  <2>1. /\ Head(wire) = second /\ Tail(wire) = <<Blank>>
        /\ decoder = [type |-> event.type, lines |-> <<first>>]
    BY <1>13, HeadAndTail DEF At
  <2>2. FeedLine(decoder, second) =
          [decoder |-> [type |-> event.type, lines |-> <<first, second>>], event |-> None]
    BY <2>1, FedSecondLine
  <2> QED BY <2>1, <2>2 DEF Underway, At, fed
<1>14. CASE At(event.type, <<first, second>>, <<Blank>>)
  <2>1. /\ Head(wire) = Blank /\ Tail(wire) = <<>>
        /\ decoder = [type |-> event.type, lines |-> <<first, second>>]
    BY <1>14, HeadAndTail DEF At
  <2>2. FeedLine(decoder, Blank) = [decoder |-> NoDecoder, event |-> event]
    <3>1. FeedLine(decoder, Blank) =
            [decoder |-> NoDecoder, event |-> EventFromParts(event.type, <<first, second>>)]
      BY <2>1, FedBlank, FlushedLines, HeadAndTail
    <3> QED BY <3>1, BlocksAreEvents
  <2> QED BY <2>1, <2>2 DEF At, fed, NoDecoder
<1>15. ASSUME NEW line \in {DoneMark, DataLine(NoData, "second")},
              event = EventFromParts(None, <<line>>), At(None, <<>>, <<line, Blank>>)
       PROVE  fed = None /\ Underway(event)'
  <2>1. PICK json, piece : line = DataLine(json, piece)
    BY <1>15 DEF DoneMark
  <2>2. /\ Head(wire) = line /\ Tail(wire) = <<Blank>>
        /\ decoder = [type |-> None, lines |-> <<>>]
    BY <1>15, HeadAndTail DEF At
  <2>3. FeedLine(decoder, line) = [decoder |-> [type |-> None, lines |-> <<line>>], event |-> None]
    BY <2>1, <2>2, FedFirstLine
  <2> QED BY <1>15, <2>2, <2>3 DEF Underway, At, fed
<1>16. ASSUME NEW line \in {DoneMark, DataLine(NoData, "second")},
              event = EventFromParts(None, <<line>>), At(None, <<line>>, <<Blank>>)
       PROVE  fed = event /\ At(None, <<>>, <<>>)'
  <2>1. /\ Head(wire) = Blank /\ Tail(wire) = <<>>
        /\ decoder = [type |-> None, lines |-> <<line>>] /\ <<line>> # <<>>
    BY <1>16, HeadAndTail DEF At
  <2>2. FeedLine(decoder, Blank) = [decoder |-> NoDecoder, event |-> event]
    BY <1>16, <2>1, FedBlank, FlushedLines
  <2> QED BY <2>1, <2>2 DEF At, fed, NoDecoder
<1> QED
  BY <1>3, <1>4, <1>5, <1>6, <1>7, <1>8, <1>9, <1>10, <1>11, <1>12, <1>13, <1>14, <1>15, <1>16
     DEF Underway

(* If the rest of its lines is missing, the event comes out broken, or     *)
(* whole, or not at all.                                                   *)
LEMMA LinesAreMissing ==
  ASSUME NEW event \in Event, Underway(event)
  PROVE  Flush(decoder).event \in {None, ProtocolError, event}
<1> DEFINE whole  == DataLine(event.data, "whole")
           first  == DataLine(event.data, "first")
           second == DataLine(event.data, "second")
<1>1. ASSUME NEW type, decoder = [type |-> type, lines |-> <<>>]
      PROVE  Flush(decoder).event = None
  BY <1>1 DEF Flush
<1>2. ASSUME NEW type, NEW lines, lines # <<>>, decoder = [type |-> type, lines |-> lines]
      PROVE  Flush(decoder).event = EventFromParts(type, lines)
  BY <1>2 DEF Flush
<1>3. CASE \E type : decoder = [type |-> type, lines |-> <<>>]
  BY <1>1, <1>3
<1>4. CASE decoder = [type |-> event.type, lines |-> <<whole>>]
  <2>1. <<whole>> # <<>>
    BY HeadAndTail
  <2>2. Flush(decoder).event = EventFromParts(event.type, <<whole>>)
    BY <1>2, <1>4, <2>1
  <2> QED BY <2>2, BlocksAreEvents
<1>5. CASE event.data.type = event.type /\ decoder = [type |-> None, lines |-> <<whole>>]
  <2>1. <<whole>> # <<>>
    BY HeadAndTail
  <2>2. Flush(decoder).event = EventFromParts(None, <<whole>>)
    BY <1>2, <1>5, <2>1
  <2> QED BY <1>5, <2>2, BlocksAreEvents
<1>6. CASE decoder = [type |-> event.type, lines |-> <<first>>]
  <2>1. <<first>> # <<>>
    BY HeadAndTail
  <2>2. Flush(decoder).event = EventFromParts(event.type, <<first>>)
    BY <1>2, <1>6, <2>1
  <2> QED BY <2>2, BlocksAreEvents
<1>7. CASE decoder = [type |-> event.type, lines |-> <<first, second>>]
  <2>1. <<first, second>> # <<>>
    BY HeadAndTail
  <2>2. Flush(decoder).event = EventFromParts(event.type, <<first, second>>)
    BY <1>2, <1>7, <2>1
  <2> QED BY <2>2, BlocksAreEvents
<1>8. CASE \E line : /\ event = EventFromParts(None, <<line>>)
                     /\ decoder = [type |-> None, lines |-> <<line>>]
  BY <1>2, <1>8, HeadAndTail
<1> QED BY <1>3, <1>4, <1>5, <1>6, <1>7, <1>8 DEF Underway, At

-----------------------------------------------------------------------------
(* What the server has said                                                *)

LEMMA ItemOfPlan ==
  ASSUME NEW plan, IsOutput(plan), NEW i \in DOMAIN plan
  PROVE  LET item == plan[i]
         IN  /\ item \in Item /\ item.type # None /\ item.id # None
             /\ item.type = "message" =>
                  item.content \in Seq(Text) /\ item.args = None /\ Texts(item) = item.content
             /\ item.type = "function_call" =>
                  /\ item.args \in Text /\ item.content = None
                  /\ Texts(item) = <<item.args>>
             /\ item.type \notin {"message", "function_call"} =>
                  item.content = None /\ item.args = None /\ Texts(item) = <<>>
             /\ Texts(item) \in Seq(Text)
             /\ Len(Texts(item)) \in Nat /\ DOMAIN Texts(item) = 1..Len(Texts(item))
<1> DEFINE item == plan[i]
<1>1. /\ item \in Item /\ item.type # None /\ item.id # None
      /\ (item.content # None) = (item.type = "message")
      /\ (item.args # None) = (item.type = "function_call")
  <2>1. plan \in Seq(Item)
    BY DEF IsOutput
  <2>2. i \in 1..Len(plan)
    BY <2>1, LenProperties
  <2>3. plan[i] \in Item
    BY <2>1, <2>2, ElementOfSeq
  <2> QED BY <2>3 DEF IsOutput
<1>2. item.content \in Seq(Text) \cup {None} /\ item.args \in Text \cup {None}
  BY <1>1 DEF Item
<1>3. /\ item.type = "message" => item.content \in Seq(Text) /\ item.args = None
      /\ item.type = "function_call" => item.args \in Text /\ item.content = None
      /\ item.type \notin {"message", "function_call"} => item.content = None /\ item.args = None
  BY <1>1, <1>2
<1>4. \/ item.content \in Seq(Text) /\ Texts(item) = item.content
      \/ item.args \in Text /\ item.content = None /\ Texts(item) = <<item.args>>
      \/ item.content = None /\ item.args = None /\ Texts(item) = <<>>
  BY <1>1, <1>2 DEF Texts
<1>5. Texts(item) \in Seq(Text)
  <2>1. ASSUME NEW a \in Text PROVE <<a>> \in Seq(Text)
    OBVIOUS
  <2>2. <<>> \in Seq(Text)
    OBVIOUS
  <2> QED BY <1>4, <2>1, <2>2
<1>6. Len(Texts(item)) \in Nat /\ DOMAIN Texts(item) = 1..Len(Texts(item))
  BY <1>5, LenProperties
<1> HIDE DEF item
<1>7. /\ item.type = "message" => Texts(item) = item.content
      /\ item.type = "function_call" => Texts(item) = <<item.args>>
      /\ item.type \notin {"message", "function_call"} => Texts(item) = <<>>
  BY <1>1, <1>2, <1>3 DEF Texts
<1> QED BY <1>1, <1>3, <1>5, <1>6, <1>7 DEF item

LEMMA TextsSent ==
  ASSUME NEW item, Texts(item) \in Seq(Text), NEW t, NEW n \in 0..Len(Texts(item)),
         Begun(item, t) = 1..n,
         \A k \in DOMAIN Texts(item) : t.sent[k] \in Nat /\ t.sent[k] <= Len(Texts(item)[k])
  PROVE  /\ SentTexts(Texts(item), t) = [k \in 1..n |-> SubSeq(Texts(item)[k], 1, t.sent[k])]
         /\ SentTexts(Texts(item), t) \in Seq(Text) /\ Len(SentTexts(Texts(item), t)) = n
<1> DEFINE texts == Texts(item)
<1>1. SentTexts(texts, t) = [k \in 1..n |-> SubSeq(texts[k], 1, t.sent[k])]
  BY DEF SentTexts, Begun
<1>2. ASSUME NEW k \in 1..n
      PROVE  SubSeq(texts[k], 1, t.sent[k]) \in Text
  <2>1. k \in 1..Len(texts) /\ DOMAIN texts = 1..Len(texts) /\ Len(texts) \in Nat
    BY LenProperties
  <2>2. texts[k] \in Seq(Nat)
    BY <2>1, ElementOfSeq DEF Text
  <2>3. t.sent[k] \in Nat /\ t.sent[k] <= Len(texts[k])
    BY <2>1
  <2>4. \A j \in 1..t.sent[k] : texts[k][j] \in Nat
    BY <2>2, <2>3, ElementOfSeq, LenProperties
  <2> QED BY <2>3, <2>4, SubSeqProperties DEF Text
<1>3. SentTexts(texts, t) \in [1..n -> Text]
  BY <1>1, <1>2
<1>4. n \in Nat
  BY LenProperties
<1>5. SentTexts(texts, t) \in Seq(Text)
  BY <1>3, <1>4, SeqDef
<1>6. Len(SentTexts(texts, t)) = n
  BY <1>3, <1>4, <1>5, LenProperties
<1> QED BY <1>1, <1>3, <1>5, <1>6

LEMMA ItemWith ==
  ASSUME NEW old, DOMAIN old = {"type", "id", "call", "name", "content", "args"},
         NEW content, NEW args
  PROVE  [old EXCEPT !.content = content, !.args = args] =
         [type |-> old.type, id |-> old.id, call |-> old.call, name |-> old.name,
          content |-> content, args |-> args]
<1> DEFINE mid == [old EXCEPT !.content = content]
<1>1. /\ DOMAIN mid = {"type", "id", "call", "name", "content", "args"}
      /\ mid.type = old.type /\ mid.id = old.id /\ mid.call = old.call /\ mid.name = old.name
      /\ mid.content = content
  OBVIOUS
<1>2. [old EXCEPT !.content = content, !.args = args] = [mid EXCEPT !.args = args]
  OBVIOUS
<1> HIDE DEF mid
<1>3. [mid EXCEPT !.args = args] =
        [type |-> mid.type, id |-> mid.id, call |-> mid.call, name |-> mid.name,
         content |-> mid.content, args |-> args]
  BY <1>1
<1> QED BY <1>1, <1>2, <1>3

LEMMA ItemToldIs ==
  ASSUME NEW item \in Item, NEW t
  PROVE  ItemTold(item, t) =
           IF t.done THEN item
           ELSE [type |-> item.type,
                 id |-> IF t.added THEN item.id ELSE None,
                 call |-> IF t.added THEN item.call ELSE None,
                 name |-> IF t.added THEN item.name ELSE None,
                 content |-> IF item.content = None THEN None ELSE SentTexts(item.content, t),
                 args |-> IF item.args = None THEN None ELSE SubSeq(item.args, 1, t.sent[1])]
<1> DEFINE content == IF item.content = None THEN None ELSE SentTexts(item.content, t)
           args == IF item.args = None THEN None ELSE SubSeq(item.args, 1, t.sent[1])
           known == IF t.added THEN item ELSE [NoItem EXCEPT !.type = item.type]
<1>1. DOMAIN item = {"type", "id", "call", "name", "content", "args"}
  BY DEF Item
<1>2. CASE t.done
  BY <1>2 DEF ItemTold
<1>3. CASE ~t.done
  <2>1. ItemTold(item, t) = [known EXCEPT !.content = content, !.args = args]
    BY <1>3 DEF ItemTold
  <2>2. /\ DOMAIN known = {"type", "id", "call", "name", "content", "args"}
        /\ known.type = item.type
        /\ known.id = IF t.added THEN item.id ELSE None
        /\ known.call = IF t.added THEN item.call ELSE None
        /\ known.name = IF t.added THEN item.name ELSE None
    BY <1>1 DEF NoItem
  <2> HIDE DEF known, content, args
  <2>3. [known EXCEPT !.content = content, !.args = args] =
          [type |-> known.type, id |-> known.id, call |-> known.call, name |-> known.name,
           content |-> content, args |-> args]
    BY <2>2, ItemWith
  <2> QED BY <1>3, <2>1, <2>2, <2>3 DEF content, args
<1> QED BY <1>2, <1>3

LEMMA ItemToldIsItem ==
  ASSUME NEW plan, IsOutput(plan), NEW i \in DOMAIN plan, NEW t, Sayable(plan[i], t)
  PROVE  /\ ItemTold(plan[i], t) \in Item
         /\ plan[i].type = "function_call" => SubSeq(plan[i].args, 1, t.sent[1]) \in Text
         /\ plan[i].type = "message" =>
              \E n \in 0..Len(plan[i].content) :
                /\ Begun(plan[i], t) = 1..n
                /\ SentTexts(plan[i].content, t) =
                     [k \in 1..n |-> SubSeq(plan[i].content[k], 1, t.sent[k])]
                /\ SentTexts(plan[i].content, t) \in Seq(Text)
                /\ Len(SentTexts(plan[i].content, t)) = n
<1> DEFINE item == plan[i]
<1>1. /\ item \in Item /\ item.type # None /\ item.id # None
      /\ item.type = "message" =>
           item.content \in Seq(Text) /\ item.args = None /\ Texts(item) = item.content
      /\ item.type = "function_call" =>
           item.args \in Text /\ item.content = None /\ Texts(item) = <<item.args>>
      /\ item.type \notin {"message", "function_call"} => item.content = None /\ item.args = None
  BY ItemOfPlan
<1>2. CASE item.type = "message"
  <2>1. PICK n \in 0..Len(item.content) : Begun(item, t) = 1..n
    BY <1>1, <1>2 DEF Sayable
  <2>2. Texts(item) \in Seq(Text) /\ n \in 0..Len(Texts(item))
    BY <1>1, <1>2, <2>1
  <2>3. \A k \in DOMAIN Texts(item) : t.sent[k] \in Nat /\ t.sent[k] <= Len(Texts(item)[k])
    BY <1>1, <1>2 DEF Sayable
  <2>4. /\ SentTexts(item.content, t) = [k \in 1..n |-> SubSeq(item.content[k], 1, t.sent[k])]
        /\ SentTexts(item.content, t) \in Seq(Text) /\ Len(SentTexts(item.content, t)) = n
    <3>1. Texts(item) = item.content
      BY <1>1, <1>2
    <3> HIDE DEF item
    <3>2. /\ SentTexts(Texts(item), t) =
               [k \in 1..n |-> SubSeq(Texts(item)[k], 1, t.sent[k])]
          /\ SentTexts(Texts(item), t) \in Seq(Text) /\ Len(SentTexts(Texts(item), t)) = n
      BY <2>1, <2>2, <2>3, TextsSent
    <3> QED BY <3>1, <3>2
  <2>5. ItemTold(item, t) \in Item
    <3> DEFINE content == SentTexts(item.content, t)
    <3>1. item.content # None /\ item.args = None
      BY <1>1, <1>2, NoneAssumption
    <3>2. CASE t.done
      BY <1>1, <3>2, ItemToldIs
    <3>3. CASE ~t.done
      <4>1. ItemTold(item, t) =
              [type |-> item.type,
               id |-> IF t.added THEN item.id ELSE None,
               call |-> IF t.added THEN item.call ELSE None,
               name |-> IF t.added THEN item.name ELSE None,
               content |-> content, args |-> None]
        BY <1>1, <3>1, <3>3, ItemToldIs
      <4>2. content \in Seq(Text)
        BY <2>4
      <4> HIDE DEF content
      <4> QED BY <1>1, <4>1, <4>2 DEF Item
    <3> QED BY <3>2, <3>3
  <2> QED BY <1>2, <2>1, <2>4, <2>5
<1>3. CASE item.type = "function_call"
  <2>1. /\ 1 \in DOMAIN Texts(item) /\ Texts(item)[1] = item.args /\ item.args \in Seq(Nat)
    BY <1>1, <1>3 DEF Text
  <2>2. t.sent[1] \in Nat /\ t.sent[1] <= Len(item.args)
    BY <2>1 DEF Sayable
  <2>3. \A j \in 1..t.sent[1] : item.args[j] \in Nat
    BY <2>1, <2>2, ElementOfSeq, LenProperties
  <2>4. SubSeq(item.args, 1, t.sent[1]) \in Text
    BY <2>2, <2>3, SubSeqProperties DEF Text
  <2>5. ItemTold(item, t) \in Item
    <3> DEFINE args == SubSeq(item.args, 1, t.sent[1])
    <3>1. item.args # None /\ item.content = None
      BY <1>1, <1>3, NoneAssumption
    <3>2. CASE t.done
      BY <1>1, <3>2, ItemToldIs
    <3>3. CASE ~t.done
      <4>1. ItemTold(item, t) =
              [type |-> item.type,
               id |-> IF t.added THEN item.id ELSE None,
               call |-> IF t.added THEN item.call ELSE None,
               name |-> IF t.added THEN item.name ELSE None,
               content |-> None, args |-> args]
        BY <1>1, <3>1, <3>3, ItemToldIs
      <4>2. args \in Text
        BY <2>4
      <4> HIDE DEF args
      <4> QED BY <1>1, <4>1, <4>2 DEF Item
    <3> QED BY <3>2, <3>3
  <2> QED BY <1>3, <2>4, <2>5
<1>4. CASE item.type \notin {"message", "function_call"}
  BY <1>1, <1>4, ItemToldIs DEF Item
<1> QED BY <1>2, <1>3, <1>4

LEMMA AccountIsResponse ==
  ASSUME NEW s, ServerOK(s)
  PROVE  /\ DOMAIN ItemsTold(s) \subseteq Int /\ IsFiniteSet(DOMAIN ItemsTold(s))
         /\ \A i \in DOMAIN ItemsTold(s) : ItemsTold(s)[i] \in Item
         /\ Account(s) \in ResponseRecord
         /\ Account(s).status = s.payload.status
<1>1. IsOutput(s.plan) /\ Len(s.plan) \in Nat /\ DOMAIN s.plan = 1..Len(s.plan)
  BY LenProperties DEF ServerOK, IsOutput
<1>2. DOMAIN ItemsTold(s) \subseteq 0..(Len(s.plan) - 1)
  BY DEF ItemsTold
<1>3. DOMAIN ItemsTold(s) \subseteq Int /\ IsFiniteSet(DOMAIN ItemsTold(s))
  <2>1. IsFiniteSet(0..(Len(s.plan) - 1))
    BY <1>1, FS_Interval
  <2> QED BY <1>1, <1>2, <2>1, FS_Subset
<1>4. ASSUME NEW i \in DOMAIN ItemsTold(s)
      PROVE  ItemsTold(s)[i] \in Item
  <2>1. i + 1 \in DOMAIN s.plan
    BY <1>1, <1>2
  <2>2. Sayable(s.plan[i + 1], s.told[i + 1])
    BY <2>1 DEF ServerOK
  <2>3. ItemTold(s.plan[i + 1], s.told[i + 1]) \in Item
    BY <1>1, <2>1, <2>2, ItemToldIsItem
  <2> QED BY <2>3 DEF ItemsTold
<1>5. /\ s.payload.model \in STRING \cup {None} /\ s.payload.status \in STRING \cup {None}
      /\ s.payload.reason \in STRING \cup {None}
  BY DEF ServerOK, ResponseHead
<1>6. Account(s) \in ResponseRecord
  BY <1>3, <1>4, <1>5, SnapshotIsResponse DEF Account
<1> QED BY <1>3, <1>4, <1>6 DEF Account, Response, WithOutput

(* A state with what the server has said, and no outcome, unless it fails. *)
LEMMA FollowsSettled ==
  ASSUME NEW st, NEW s, ServerOK(s), Follows(st, s),
         DOMAIN st = {"payload", "items", "final", "error"},
         s.payload.status \notin {"completed", "incomplete"}
  PROVE  /\ Settled(st, Account(s)) /\ ~IsTerminal(st)
         /\ \A kind \in STRING :
              Settled(Failure(st, kind), Account(s)) /\ Failure(st, kind).error # None
<1>1. /\ st.payload = s.payload /\ st.items = ItemsTold(s) /\ st.final = None /\ st.error = None
      /\ Snapshot(st) = Account(s)
  BY DEF Follows, Snapshot, Account
<1>2. Account(s) \in ResponseRecord /\ Account(s).status \notin {"completed", "incomplete"}
  BY AccountIsResponse
<1>3. Settled(st, Account(s)) /\ ~IsTerminal(st)
  BY <1>1, <1>2 DEF Settled, IsTerminal
<1>4. ASSUME NEW kind \in STRING
      PROVE  Settled(Failure(st, kind), Account(s)) /\ Failure(st, kind).error # None
  <2> DEFINE failed == [kind |-> kind, partial |-> Account(s)]
             after == [st EXCEPT !.error = failed]
  <2>1. failed \in Failed /\ failed # None
    BY <1>2, NoneAssumption DEF Failed
  <2>2. Failure(st, kind) = after
    BY <1>1 DEF Failure
  <2> HIDE DEF failed
  <2>3. /\ DOMAIN after = {"payload", "items", "final", "error"}
        /\ after.payload = st.payload /\ after.items = st.items /\ after.final = None
        /\ after.error = failed
    BY <1>1
  <2>4. Snapshot(after) = Account(s)
    BY <1>1, <2>3 DEF Snapshot
  <2> HIDE DEF after
  <2>5. failed.partial = Account(s)
    BY DEF failed
  <2> QED BY <1>2, <2>1, <2>2, <2>3, <2>4, <2>5 DEF Settled, IsTerminal
<1> QED BY <1>3, <1>4

-----------------------------------------------------------------------------
(* What an event finds, and what it changes                                *)

(* An event names an item by its place, or by an identity that was sent.   *)
Named(data, i, s) ==
  \/ data.index = i - 1 /\ data.id = None
  \/ data.index = None /\ data.id = s.plan[i].id /\ s.told[i].added

LEMMA ItemsToldAt ==
  ASSUME NEW s, ServerOK(s)
  PROVE  /\ Len(s.plan) \in Nat /\ DOMAIN s.plan = 1..Len(s.plan) /\ DOMAIN s.told = DOMAIN s.plan
         /\ DOMAIN ItemsTold(s) = {i \in 0..(Len(s.plan) - 1) : IsTold(s.told[i + 1])}
         /\ \A i \in DOMAIN ItemsTold(s) :
              ItemsTold(s)[i] = ItemTold(s.plan[i + 1], s.told[i + 1])
         /\ \A i \in DOMAIN s.plan :
              /\ i - 1 \in DOMAIN ItemsTold(s) <=> IsTold(s.told[i])
              /\ IsTold(s.told[i]) => ItemsTold(s)[i - 1] = ItemTold(s.plan[i], s.told[i])
<1>1. Len(s.plan) \in Nat /\ DOMAIN s.plan = 1..Len(s.plan) /\ DOMAIN s.told = DOMAIN s.plan
  BY LenProperties DEF ServerOK, IsOutput
<1>2. /\ DOMAIN ItemsTold(s) = {i \in 0..(Len(s.plan) - 1) : IsTold(s.told[i + 1])}
      /\ \A i \in DOMAIN ItemsTold(s) : ItemsTold(s)[i] = ItemTold(s.plan[i + 1], s.told[i + 1])
  BY DEF ItemsTold
<1>3. ASSUME NEW i \in DOMAIN s.plan
      PROVE  /\ i - 1 \in DOMAIN ItemsTold(s) <=> IsTold(s.told[i])
             /\ IsTold(s.told[i]) => ItemsTold(s)[i - 1] = ItemTold(s.plan[i], s.told[i])
  <2>1. i - 1 \in 0..(Len(s.plan) - 1) /\ (i - 1) + 1 = i
    BY <1>1
  <2>2. i - 1 \in DOMAIN ItemsTold(s) <=> IsTold(s.told[i])
    BY <1>2, <2>1
  <2> QED BY <1>2, <2>1, <2>2
<1> QED BY <1>1, <1>2, <1>3

LEMMA TargetFound ==
  ASSUME NEW s, ServerOK(s), NEW st, Follows(st, s),
         NEW i \in DOMAIN s.plan, NEW data, Named(data, i, s)
  PROVE  Target(st, data) = i - 1
<1> DEFINE named == {k \in DOMAIN st.items : data.id # None /\ st.items[k].id = data.id}
<1>1. st.items = ItemsTold(s) /\ i \in Int /\ i - 1 # None
  <2>1. i \in 1..Len(s.plan) /\ Len(s.plan) \in Nat
    BY ItemsToldAt
  <2>2. i \in Int /\ i - 1 \in Int
    BY <2>1
  <2> QED BY <2>2, NoneAssumption DEF Follows
<1>2. s.plan[i].id # None
  BY ItemOfPlan DEF ServerOK
<1>3. CASE data.index = i - 1 /\ data.id = None
  <2>1. named = {}
    BY <1>3
  <2> QED BY <1>1, <1>3, <2>1 DEF Target
<1>4. CASE data.index = None /\ data.id = s.plan[i].id /\ s.told[i].added
  <2>1. i - 1 \in named
    <3>1. IsTold(s.told[i])
      BY <1>4 DEF IsTold
    <3>2. i - 1 \in DOMAIN st.items /\ st.items[i - 1] = ItemTold(s.plan[i], s.told[i])
      BY <1>1, <3>1, ItemsToldAt
    <3>3. s.plan[i] \in Item
      BY ItemOfPlan DEF ServerOK
    <3>4. ItemTold(s.plan[i], s.told[i]).id = s.plan[i].id
      BY <1>4, <3>3, ItemToldIs
    <3> QED BY <1>2, <1>4, <3>2, <3>4
  <2>4. /\ DOMAIN ItemsTold(s) = {k \in 0..(Len(s.plan) - 1) : IsTold(s.told[k + 1])}
        /\ Len(s.plan) \in Nat /\ DOMAIN s.plan = 1..Len(s.plan)
    BY ItemsToldAt
  <2>5. \A k \in DOMAIN ItemsTold(s) :
          ItemsTold(s)[k] = ItemTold(s.plan[k + 1], s.told[k + 1])
    BY ItemsToldAt
  <2>2. ASSUME NEW k \in named
        PROVE  k = i - 1
    <3>1. /\ k \in Int /\ k + 1 \in DOMAIN s.plan
          /\ st.items[k] = ItemTold(s.plan[k + 1], s.told[k + 1])
      <4>1. k \in DOMAIN ItemsTold(s)
        BY <1>1
      <4>2. k \in 0..(Len(s.plan) - 1) /\ Len(s.plan) \in Nat /\ DOMAIN s.plan = 1..Len(s.plan)
        BY <2>4, <4>1
      <4> QED BY <1>1, <2>5, <4>1, <4>2
    <3>2. s.plan[k + 1] \in Item
      BY <3>1, ItemOfPlan DEF ServerOK
    <3>3. st.items[k].id = s.plan[k + 1].id \/ st.items[k].id = None
      BY <3>1, <3>2, ItemToldIs
    <3>4. s.plan[k + 1].id = s.plan[i].id
      BY <1>2, <1>4, <3>3
    <3>5. k + 1 = i
      BY <3>1, <3>4 DEF ServerOK, IsOutput
    <3> QED BY <1>1, <3>1, <3>5
  <2>3. (CHOOSE k \in named : TRUE) = i - 1 /\ named # {}
    BY <2>1, <2>2
  <2> QED BY <2>3 DEF Target
<1> QED BY <1>3, <1>4 DEF Named

LEMMA ItemsToldGrow ==
  ASSUME NEW s, ServerOK(s), NEW i \in DOMAIN s.plan, NEW t, IsTold(t),
         NEW s2, s2.plan = s.plan, s2.told = [s.told EXCEPT ![i] = t]
  PROVE  ItemsTold(s2) = Put(ItemsTold(s), i - 1, ItemTold(s.plan[i], t))
<1> DEFINE old == ItemsTold(s)
           n == Len(s.plan)
           new == ItemsTold(s2)
           put == Put(old, i - 1, ItemTold(s.plan[i], t))
<1>1. /\ n \in Nat /\ DOMAIN s.plan = 1..n /\ DOMAIN s.told = 1..n
      /\ DOMAIN old = {k \in 0..(n - 1) : IsTold(s.told[k + 1])}
      /\ \A k \in DOMAIN old : old[k] = ItemTold(s.plan[k + 1], s.told[k + 1])
  BY ItemsToldAt
<1>2. i - 1 \in 0..(n - 1) /\ (i - 1) + 1 = i /\ s2.told[i] = t
  BY <1>1
<1>3. \A k \in 0..(n - 1) : k # i - 1 => s2.told[k + 1] = s.told[k + 1] /\ k + 1 # i
  BY <1>1
<1>4. new = [k \in {j \in 0..(n - 1) : IsTold(s2.told[j + 1])} |->
               ItemTold(s.plan[k + 1], s2.told[k + 1])]
  BY DEF ItemsTold
<1>5. {j \in 0..(n - 1) : IsTold(s2.told[j + 1])} = DOMAIN old \cup {i - 1}
  BY <1>1, <1>2, <1>3
<1>6. put = [k \in DOMAIN old \cup {i - 1} |->
               IF k = i - 1 THEN ItemTold(s.plan[i], t) ELSE old[k]]
  BY DEF Put
<1>7. ASSUME NEW k \in DOMAIN old \cup {i - 1}
      PROVE  ItemTold(s.plan[k + 1], s2.told[k + 1]) =
               IF k = i - 1 THEN ItemTold(s.plan[i], t) ELSE old[k]
  <2>1. CASE k = i - 1
    BY <1>2, <2>1
  <2>2. CASE k # i - 1
    <3>1. k \in DOMAIN old /\ k \in 0..(n - 1)
      BY <1>1, <2>2
    <3> QED BY <1>1, <1>3, <2>2, <3>1
  <2> QED BY <2>1, <2>2
<1> DEFINE indices == DOMAIN old \cup {i - 1}
<1>8. new = [k \in indices |-> ItemTold(s.plan[k + 1], s2.told[k + 1])]
  BY <1>4, <1>5
<1> HIDE DEF old, n, new
<1>9. put = [k \in indices |-> ItemTold(s.plan[k + 1], s2.told[k + 1])]
  BY <1>6, <1>7
<1> QED BY <1>8, <1>9 DEF old, new

LEMMA StringsAreNotNone ==
  /\ \A string \in STRING : string # None
  /\ None \notin {"failed", "cancelled", "completed", "incomplete", "in_progress"}
BY NoneAssumption, StringAssumption

LEMMA ItemEventRecorded ==
  ASSUME NEW s, ServerOK(s), ~s.over, NEW st, Follows(st, s), NEW event,
         event.type \in ItemEvents \cup TextEvents \cup ArgumentEvents,
         event.data.response = None, event.data.index = None \/ event.data.index \in Nat
  PROVE  Record(st, event) =
           [state |-> Applied(st, event.type, event.data), type |-> event.type]
<1>1. Absorb(st, event.data.response) = st
  BY DEF Absorb
<1>2. event.type \notin {"error", "response.failed", "response.cancelled", "response.done"}
  BY DEF ItemEvents, TextEvents, ArgumentEvents
<1>3. st.payload.status \notin {"failed", "cancelled"}
  <2>1. st.payload.status \in {None, "in_progress"}
    BY DEF Follows, ServerOK, NoResponse
  <2>2. None # "failed" /\ None # "cancelled"
    BY StringsAreNotNone
  <2> QED BY <2>1, <2>2
<1>4. ~HasFailed(st, event) /\ Normalised(st, event.type) = event.type
  BY <1>2, <1>3 DEF HasFailed, Normalised
<1>5. ~(event.data.index # None /\ event.data.index < 0)
  OBVIOUS
<1> QED BY <1>1, <1>2, <1>4, <1>5 DEF Record

LEMMA MergedItem ==
  ASSUME NEW item \in Item
  PROVE  /\ Merge(NoItem, item) = item
         /\ \A t : Merge(ItemTold(item, t), item) = item
<1>1. /\ DOMAIN item = {"type", "id", "call", "name", "content", "args"}
      /\ item = [f \in DOMAIN item |-> item[f]]
  BY DEF Item
<1>2. Merge(NoItem, item) = item
  <2>1. Merge(NoItem, item) = [f \in DOMAIN item |-> IF item[f] = None THEN NoItem[f] ELSE item[f]]
    BY <1>1 DEF Merge, NoItem
  <2>2. \A f \in DOMAIN item : NoItem[f] = None
    BY <1>1 DEF NoItem
  <2>3. \A f \in DOMAIN item : (IF item[f] = None THEN NoItem[f] ELSE item[f]) = item[f]
    BY <2>2
  <2> QED BY <1>1, <2>1, <2>3
<1>3. ASSUME NEW t
      PROVE  Merge(ItemTold(item, t), item) = item
  <2> DEFINE old == ItemTold(item, t)
  <2>1. DOMAIN old = {"type", "id", "call", "name", "content", "args"}
    BY <1>1, ItemToldIs
  <2>2. /\ item.type = None => old.type = None
        /\ item.id = None => old.id = None
        /\ item.call = None => old.call = None
        /\ item.name = None => old.name = None
        /\ item.content = None => old.content = None
        /\ item.args = None => old.args = None
    BY ItemToldIs
  <2> HIDE DEF old
  <2>3. \A f \in DOMAIN item : item[f] = None => old[f] = None
    BY <1>1, <2>2
  <2>4. Merge(old, item) = [f \in DOMAIN item |-> IF item[f] = None THEN old[f] ELSE item[f]]
    BY <1>1, <2>1 DEF Merge
  <2>5. \A f \in DOMAIN item : (IF item[f] = None THEN old[f] ELSE item[f]) = item[f]
    BY <2>3
  <2>6. Merge(old, item) = item
    BY <1>1, <2>4, <2>5
  <2> QED BY <2>6 DEF old
<1> QED BY <1>2, <1>3

LEMMA WrittenText ==
  ASSUME NEW text \in Text, NEW n \in Nat, n < Len(text), NEW all \in BOOLEAN,
         NEW type, type \in Deltas <=> ~all
  PROVE  Written(type, SubSeq(text, 1, n), IF all THEN text ELSE <<text[n + 1]>>) =
           SubSeq(text, 1, IF all THEN Len(text) ELSE n + 1)
<1>1. text \in Seq(Nat) /\ Len(text) \in Nat
  BY LenProperties DEF Text
<1>2. SubSeq(text, 1, Len(text)) = text
  BY <1>1, SubSeqFull
<1>3. SubSeq(text, 1, n + 1) = SubSeq(text, 1, n) \o <<text[n + 1]>>
  <2>1. 1 \in 1..Len(text) /\ n + 1 \in 1..Len(text) /\ (n + 1) - 1 = n
    BY <1>1
  <2>2. SubSeq(text, 1, n + 1) = SubSeq(text, 1, (n + 1) - 1) \o <<text[n + 1]>>
    BY <1>1, <2>1, SubSeqRecursiveSecond
  <2> QED BY <2>1, <2>2
<1> QED BY <1>2, <1>3 DEF Written

LEMMA BegunGrows ==
  ASSUME NEW item, Texts(item) \in Seq(Text), NEW t, NEW n \in 0..Len(Texts(item)),
         Begun(item, t) = 1..n, NEW part \in DOMAIN Texts(item), NEW t2, t2.sent[part] > 0,
         \A k \in DOMAIN Texts(item) : k # part => t2.sent[k] = t.sent[k]
  PROVE  /\ Begun(item, t2) = 1..(IF n < part THEN part ELSE n)
         /\ (IF n < part THEN part ELSE n) \in 1..Len(Texts(item))
<1> DEFINE texts == Texts(item)
<1>1. Len(texts) \in Nat /\ DOMAIN texts = 1..Len(texts)
  BY LenProperties
<1>2. t2.sent[part] > 0 /\ \A k \in DOMAIN texts : k # part => t2.sent[k] = t.sent[k]
  OBVIOUS
<1>3. \A k \in DOMAIN texts : k \in Begun(item, t) <=> \E j \in DOMAIN texts : k <= j /\ t.sent[j] > 0
  BY DEF Begun
<1>4. \A k \in DOMAIN texts : k \in Begun(item, t2) <=> \E j \in DOMAIN texts : k <= j /\ t2.sent[j] > 0
  BY DEF Begun
<1>5. Begun(item, t2) \subseteq DOMAIN texts
  BY DEF Begun
<1> HIDE DEF texts
<1>6. \A k \in DOMAIN texts : k \in Begun(item, t2) <=> k \in Begun(item, t) \/ k <= part
  <2>1. ASSUME NEW k \in DOMAIN texts, k \in Begun(item, t2)
        PROVE  k \in Begun(item, t) \/ k <= part
    <3>1. PICK j \in DOMAIN texts : k <= j /\ t2.sent[j] > 0
      BY <1>4, <2>1
    <3> QED BY <1>2, <1>3, <3>1
  <2>2. ASSUME NEW k \in DOMAIN texts, k \in Begun(item, t)
        PROVE  k \in Begun(item, t2)
    <3>1. PICK j \in DOMAIN texts : k <= j /\ t.sent[j] > 0
      BY <1>3, <2>2
    <3>2. t2.sent[j] > 0
      BY <1>2, <3>1
    <3> QED BY <1>4, <3>1, <3>2
  <2>3. ASSUME NEW k \in DOMAIN texts, k <= part
        PROVE  k \in Begun(item, t2)
    BY <1>2, <1>4, <2>3 DEF texts
  <2> QED BY <2>1, <2>2, <2>3
<1>7. part \in 1..Len(texts) /\ n \in 0..Len(texts)
  BY <1>1 DEF texts
<1>8. \A k : k \in Begun(item, t2) <=> k \in 1..(IF n < part THEN part ELSE n)
  BY <1>1, <1>5, <1>6, <1>7
<1>9. Begun(item, t2) = 1..(IF n < part THEN part ELSE n)
  BY <1>8, Zenon
<1>10. (IF n < part THEN part ELSE n) \in 1..Len(texts)
  BY <1>1, <1>7
<1> QED BY <1>9, <1>10 DEF texts

(* The item a text or a part of the arguments is added to, if it is found, *)
(* and otherwise a new one.                                                *)
FoundItem(items, i, type) ==
  IF i \in DOMAIN items THEN items[i] ELSE [NoItem EXCEPT !.type = type]

LEMMA FoundItemIs ==
  ASSUME NEW s, ServerOK(s), NEW i \in DOMAIN s.plan, ~s.told[i].done,
         s.plan[i].type \in {"message", "function_call"}
  PROVE  LET item == s.plan[i]
             t == s.told[i]
             found == FoundItem(ItemsTold(s), i - 1, item.type)
         IN  /\ DOMAIN found = {"type", "id", "call", "name", "content", "args"}
             /\ found.type = item.type
             /\ found.id = IF t.added THEN item.id ELSE None
             /\ found.call = IF t.added THEN item.call ELSE None
             /\ found.name = IF t.added THEN item.name ELSE None
             /\ item.type = "message" =>
                  /\ found.args = None
                  /\ (IF found.content = None THEN <<>> ELSE found.content) =
                       SentTexts(item.content, t)
             /\ item.type = "function_call" =>
                  /\ found.content = None
                  /\ (IF found.args = None THEN <<>> ELSE found.args) =
                       SubSeq(item.args, 1, t.sent[1])
<1> DEFINE item == s.plan[i]
           t == s.told[i]
           found == FoundItem(ItemsTold(s), i - 1, item.type)
<1>1. /\ item \in Item
      /\ item.type = "message" =>
           item.content \in Seq(Text) /\ item.args = None /\ Texts(item) = item.content
      /\ item.type = "function_call" =>
           item.args \in Text /\ item.content = None /\ Texts(item) = <<item.args>>
  BY ItemOfPlan DEF ServerOK
<1>2. IsOutput(s.plan) /\ Sayable(item, t)
  BY DEF ServerOK
<1>3. /\ item.type = "function_call" => SubSeq(item.args, 1, t.sent[1]) \in Text
      /\ item.type = "message" =>
           \E n \in 0..Len(item.content) :
             /\ Begun(item, t) = 1..n
             /\ SentTexts(item.content, t) =
                  [k \in 1..n |-> SubSeq(item.content[k], 1, t.sent[k])]
             /\ SentTexts(item.content, t) \in Seq(Text)
             /\ Len(SentTexts(item.content, t)) = n
  BY <1>2, ItemToldIsItem
<1>4. CASE IsTold(t)
  <2>1. found = ItemTold(item, t)
    BY <1>4, ItemsToldAt DEF FoundItem
  <2>2. found = [type |-> item.type,
                 id |-> IF t.added THEN item.id ELSE None,
                 call |-> IF t.added THEN item.call ELSE None,
                 name |-> IF t.added THEN item.name ELSE None,
                 content |-> IF item.content = None THEN None ELSE SentTexts(item.content, t),
                 args |-> IF item.args = None THEN None ELSE SubSeq(item.args, 1, t.sent[1])]
    BY <1>1, <2>1, ItemToldIs
  <2>3. item.type = "message" => item.content # None /\ SentTexts(item.content, t) # None
    BY <1>1, <1>3, NoneAssumption
  <2>4. item.type = "function_call" => item.args # None /\ SubSeq(item.args, 1, t.sent[1]) # None
    BY <1>1, <1>3, NoneAssumption
  <2> HIDE DEF found
  <2>5. /\ DOMAIN found = {"type", "id", "call", "name", "content", "args"}
        /\ found.type = item.type
        /\ found.id = IF t.added THEN item.id ELSE None
        /\ found.call = IF t.added THEN item.call ELSE None
        /\ found.name = IF t.added THEN item.name ELSE None
        /\ found.content = IF item.content = None THEN None ELSE SentTexts(item.content, t)
        /\ found.args = IF item.args = None THEN None ELSE SubSeq(item.args, 1, t.sent[1])
    BY <2>2
  <2> HIDE DEF item, t
  <2> QED BY <1>1, <2>3, <2>4, <2>5 DEF item, t, found
<1>5. CASE ~IsTold(t)
  <2>1. found = [NoItem EXCEPT !.type = item.type]
    BY <1>5, ItemsToldAt DEF FoundItem
  <2>2. ~t.added /\ \A k \in DOMAIN Texts(item) : t.sent[k] = 0
    <3>1. t.sent \in [DOMAIN Texts(item) -> Nat]
      BY <1>2 DEF Sayable
    <3> QED BY <1>5, <3>1 DEF IsTold
  <2>3. /\ DOMAIN found = {"type", "id", "call", "name", "content", "args"}
        /\ found.type = item.type /\ found.id = None /\ found.call = None /\ found.name = None
        /\ found.content = None /\ found.args = None
    BY <2>1 DEF NoItem
  <2>4. item.type = "message" => SentTexts(item.content, t) = <<>>
    <3>1. Begun(item, t) = {}
      BY <2>2 DEF Begun
    <3>2. ASSUME NEW n \in 0..Len(item.content), Begun(item, t) = 1..n, item.type = "message"
          PROVE  n = 0
      <4>1. Len(item.content) \in Nat /\ n \in Nat
        BY <1>1, <3>2, LenProperties
      <4>2. 1 \notin 1..n
        BY <3>1, <3>2
      <4> QED BY <4>1, <4>2
    <3>3. item.type = "message" =>
            SentTexts(item.content, t) \in Seq(Text) /\ Len(SentTexts(item.content, t)) = 0
      BY <1>3, <3>2
    <3> QED BY <3>3, EmptySeq
  <2>5. item.type = "function_call" => SubSeq(item.args, 1, t.sent[1]) = <<>>
    <3>1. item.type = "function_call" => t.sent[1] = 0
      BY <1>1, <2>2
    <3> QED BY <3>1, SubSeqEmpty
  <2> HIDE DEF found, item, t
  <2> QED BY <2>2, <2>3, <2>4, <2>5 DEF found, item, t
<1> QED BY <1>4, <1>5

LEMMA OneChanged ==
  ASSUME NEW S, NEW f, NEW old, NEW new, NEW x \in S, DOMAIN f = S,
         \A y \in S : f[y] = old[y], \A y \in S : y # x => new[y] = old[y]
  PROVE  [f EXCEPT ![x] = new[x]] = [y \in S |-> new[y]]
OBVIOUS

(* One more unit of a text, or all of it, is sent; and the event says so.  *)
MoreSent(s, i, part, all, t) ==
  LET text == Texts(s.plan[i])[part]
      n    == s.told[i].sent[part]
  IN  /\ n < Len(text) /\ ~s.told[i].done
      /\ t.added = s.told[i].added /\ t.done = FALSE
      /\ t.sent = [s.told[i].sent EXCEPT ![part] = IF all THEN Len(text) ELSE n + 1]

Carries(data, s, i, part, all) ==
  LET text == Texts(s.plan[i])[part]
  IN  /\ data.part = IF s.plan[i].type = "message" THEN part - 1 ELSE None
      /\ data.value = IF all THEN text ELSE <<text[s.told[i].sent[part] + 1]>>

LEMMA TextWritten ==
  ASSUME NEW s, ServerOK(s), NEW st, st.items = ItemsTold(s),
         NEW i \in DOMAIN s.plan, s.plan[i].type = "message",
         NEW part \in DOMAIN Texts(s.plan[i]), NEW all \in BOOLEAN,
         NEW t, MoreSent(s, i, part, all, t), NEW data, Carries(data, s, i, part, all),
         NEW type, type \in Deltas <=> ~all
  PROVE  WithText(st, i - 1, type, data) =
           [st EXCEPT !.items = Put(@, i - 1, ItemTold(s.plan[i], t))]
<1> DEFINE item  == s.plan[i]
           old   == s.told[i]
           texts == item.content
           text  == texts[part]
           n     == old.sent[part]
           m     == IF all THEN Len(text) ELSE n + 1
           found == FoundItem(st.items, i - 1, "message")
           parts == IF found.content = None THEN <<>> ELSE found.content
           size  == IF Len(parts) < part THEN part ELSE Len(parts)
           grown == [k \in 1..size |-> IF k <= Len(parts) THEN parts[k] ELSE <<>>]
           sub   == [k \in DOMAIN texts |-> SubSeq(texts[k], 1, old.sent[k])]
           sub2  == [k \in DOMAIN texts |-> SubSeq(texts[k], 1, t.sent[k])]
<1> HIDE DEF sub, sub2
<1>1. /\ item \in Item /\ texts \in Seq(Text) /\ item.args = None /\ Texts(item) = texts
      /\ item.type = "message"
  BY ItemOfPlan DEF ServerOK
<1>2. IsOutput(s.plan) /\ Sayable(item, old) /\ ~old.done
  BY DEF ServerOK, MoreSent
<1>3. t.added = old.added /\ t.done = FALSE /\ t.sent = [old.sent EXCEPT ![part] = m] /\ n < Len(text)
  BY <1>1 DEF MoreSent
<1>4. data.value = (IF all THEN text ELSE <<text[n + 1]>>) /\ data.part = part - 1
  BY <1>1 DEF Carries
<1>5. /\ DOMAIN found = {"type", "id", "call", "name", "content", "args"}
      /\ found.type = item.type
      /\ found.id = IF old.added THEN item.id ELSE None
      /\ found.call = IF old.added THEN item.call ELSE None
      /\ found.name = IF old.added THEN item.name ELSE None
      /\ found.args = None
      /\ parts = SentTexts(texts, old)
  BY <1>1, <1>2, FoundItemIs
<1>6. part \in DOMAIN texts
  BY <1>1
<1>7. (IF data.part = None THEN 0 ELSE data.part) + 1 = part
  <2>1. part \in Int
    BY <1>1, <1>6, LenProperties
  <2>2. part - 1 \in Int /\ (part - 1) + 1 = part
    BY <2>1
  <2> QED BY <1>4, <2>2, NoneAssumption
<1>8. data.value # NotText =>
        WithText(st, i - 1, type, data) =
          [st EXCEPT !.items =
             Put(@, i - 1, [found EXCEPT !.content =
                              [grown EXCEPT ![part] = Written(type, @, data.value)]])]
  BY <1>7 DEF WithText, FoundItem
<1>9. size = (IF Len(parts) < part THEN part ELSE Len(parts))
      /\ grown = [k \in 1..size |-> IF k <= Len(parts) THEN parts[k] ELSE <<>>]
  OBVIOUS
<1> HIDE DEF item, old, texts, found, parts, size, grown
<1>10. /\ Len(texts) \in Nat /\ DOMAIN texts = 1..Len(texts)
       /\ \A k \in DOMAIN texts : texts[k] \in Text
  BY <1>1, LenProperties, ElementOfSeq
<1>11. \A k \in DOMAIN texts : texts[k] \in Seq(Nat) /\ Len(texts[k]) \in Nat
  BY <1>10, LenProperties DEF Text
<1>12. /\ old \in [added : BOOLEAN, done : BOOLEAN, sent : [DOMAIN texts -> Nat]]
       /\ \A k \in DOMAIN texts : old.sent[k] <= Len(texts[k])
  BY <1>1, <1>2 DEF Sayable
<1>13. PICK begun \in 0..Len(texts) : Begun(item, old) = 1..begun
  BY <1>1, <1>2 DEF Sayable
<1>14. /\ n \in Nat /\ text \in Text /\ text \in Seq(Nat) /\ Len(text) \in Nat
  BY <1>6, <1>10, <1>11, <1>12
<1>15. m \in Nat /\ 0 < m /\ n <= m /\ m <= Len(text)
  BY <1>3, <1>14
<1>16. data.value \in Text /\ data.value # NotText
  <2>1. n + 1 \in 1..Len(text)
    BY <1>3, <1>14
  <2>2. text[n + 1] \in Nat
    BY <1>14, <2>1, ElementOfSeq
  <2>3. <<text[n + 1]>> \in Text
    BY <2>2 DEF Text
  <2>4. data.value \in Text
    BY <1>4, <1>14, <2>3
  <2> QED BY <2>4, NoneAssumption
<1>17. Written(type, SubSeq(text, 1, n), data.value) = SubSeq(text, 1, m)
  <2> HIDE DEF text, n
  <2>1. Written(type, SubSeq(text, 1, n), IF all THEN text ELSE <<text[n + 1]>>) =
          SubSeq(text, 1, IF all THEN Len(text) ELSE n + 1)
    BY <1>3, <1>14, WrittenText
  <2> QED BY <1>4, <2>1
<1>18. /\ t.sent[part] = m
       /\ \A k \in DOMAIN texts : k # part => t.sent[k] = old.sent[k]
  <2> HIDE DEF m
  <2> QED BY <1>3, <1>6, <1>12
<1> HIDE DEF text, n, m
<1>19. /\ parts = [k \in 1..begun |-> SubSeq(texts[k], 1, old.sent[k])] /\ Len(parts) = begun
  <2>1. Texts(item) \in Seq(Text) /\ begun \in 0..Len(Texts(item))
    BY <1>1
  <2>2. \A k \in DOMAIN Texts(item) :
          old.sent[k] \in Nat /\ old.sent[k] <= Len(Texts(item)[k])
    BY <1>1, <1>12
  <2> QED BY <1>1, <1>5, <1>13, <2>1, <2>2, TextsSent
<1>20. Begun(item, t) = 1..size /\ size \in 1..Len(texts)
  <2>1. size = IF begun < part THEN part ELSE begun
    BY <1>9, <1>19
  <2>2. Texts(item) \in Seq(Text) /\ begun \in 0..Len(Texts(item)) /\ part \in DOMAIN Texts(item)
    BY <1>1, <1>6
  <2>3. /\ t.sent[part] > 0
        /\ \A k \in DOMAIN Texts(item) : k # part => t.sent[k] = old.sent[k]
    BY <1>1, <1>15, <1>18
  <2>4. /\ Begun(item, t) = 1..(IF begun < part THEN part ELSE begun)
        /\ (IF begun < part THEN part ELSE begun) \in 1..Len(Texts(item))
    BY <1>13, <2>2, <2>3, BegunGrows
  <2> QED BY <1>1, <2>1, <2>4
<1>21. SentTexts(texts, t) = [k \in 1..size |-> SubSeq(texts[k], 1, t.sent[k])]
  <2>1. Texts(item) \in Seq(Text) /\ size \in 0..Len(Texts(item)) /\ Begun(item, t) = 1..size
    BY <1>1, <1>10, <1>20
  <2>2. \A k \in DOMAIN Texts(item) :
          t.sent[k] \in Nat /\ t.sent[k] <= Len(Texts(item)[k])
    <3>1. t.sent[part] \in Nat /\ t.sent[part] <= Len(texts[part])
      BY <1>15, <1>18 DEF text
    <3> QED BY <1>1, <1>12, <1>18, <3>1
  <2> QED BY <1>1, <2>1, <2>2, TextsSent
<1>22. \A k \in 1..Len(texts) : k > begun => old.sent[k] = 0
  <2>1. ASSUME NEW k \in 1..Len(texts), k > begun
        PROVE  old.sent[k] = 0
    <3>1. k \notin Begun(item, old) /\ k \in DOMAIN texts /\ k <= k
      BY <1>10, <1>13, <2>1
    <3>2. ~(old.sent[k] > 0)
      BY <1>1, <3>1 DEF Begun
    <3>3. old.sent[k] \in Nat
      BY <1>12, <3>1
    <3> QED BY <3>2, <3>3
  <2> QED BY <2>1
<1>23. DOMAIN grown = 1..size /\ \A k \in 1..size : grown[k] = sub[k]
  <2>1. ASSUME NEW k \in 1..size
        PROVE  grown[k] = sub[k]
    <3>1. k \in DOMAIN texts /\ k \in Int /\ begun \in Int
      BY <1>10, <1>20
    <3>2. CASE k <= begun
      <4>1. grown[k] = parts[k]
        BY <1>9, <1>19, <3>2
      <4>2. k \in 1..begun
        BY <3>1, <3>2
      <4> QED BY <1>19, <3>1, <4>1, <4>2 DEF sub
    <3>3. CASE k > begun
      <4>1. grown[k] = <<>>
        BY <1>9, <1>19, <3>1, <3>3
      <4>2. old.sent[k] = 0
        BY <1>10, <1>22, <3>1, <3>3
      <4>3. SubSeq(texts[k], 1, 0) = <<>>
        BY SubSeqEmpty
      <4> QED BY <3>1, <4>1, <4>2, <4>3 DEF sub
    <3> QED BY <3>1, <3>2, <3>3
  <2> QED BY <1>9, <2>1
<1>24. [grown EXCEPT ![part] = Written(type, @, data.value)] = SentTexts(texts, t)
  <2>1. part \in 1..size
    <3>1. part \in Int /\ Len(parts) \in Int
      BY <1>6, <1>10, <1>19
    <3> QED BY <1>6, <1>9, <1>10, <3>1
  <2>2. Written(type, grown[part], data.value) = sub2[part]
    <3>1. grown[part] = SubSeq(text, 1, n)
      BY <1>6, <1>23, <2>1 DEF sub, text, n
    <3>2. sub2[part] = SubSeq(text, 1, m)
      BY <1>6, <1>18 DEF sub2, text
    <3> QED BY <1>17, <3>1, <3>2
  <2>3. \A k \in 1..size : k \in DOMAIN texts
    BY <1>10, <1>20
  <2>4. \A k \in 1..size : k # part => sub2[k] = sub[k]
    BY <1>18, <2>3 DEF sub, sub2
  <2>5. [grown EXCEPT ![part] = sub2[part]] = [k \in 1..size |-> sub2[k]]
    BY <1>23, <2>1, <2>4, OneChanged
  <2>6. SentTexts(texts, t) = [k \in 1..size |-> sub2[k]]
    BY <1>21, <2>3 DEF sub2
  <2> QED BY <2>2, <2>5, <2>6
<1>25. ASSUME NEW content, content = SentTexts(texts, t)
       PROVE  [found EXCEPT !.content = content] = ItemTold(item, t)
  <2>1. item.content # None
    BY <1>1, NoneAssumption DEF texts
  <2>2. ItemTold(item, t) =
          [type |-> item.type,
           id |-> IF old.added THEN item.id ELSE None,
           call |-> IF old.added THEN item.call ELSE None,
           name |-> IF old.added THEN item.name ELSE None,
           content |-> content, args |-> None]
    BY <1>1, <1>3, <1>25, <2>1, ItemToldIs DEF texts
  <2>3. [found EXCEPT !.content = content] =
          [type |-> found.type, id |-> found.id, call |-> found.call, name |-> found.name,
           content |-> content, args |-> found.args]
    BY <1>5
  <2> QED BY <1>5, <2>2, <2>3
<1> QED BY <1>8, <1>16, <1>24, <1>25 DEF item

LEMMA ArgumentsWritten ==
  ASSUME NEW s, ServerOK(s), NEW st, st.items = ItemsTold(s),
         NEW i \in DOMAIN s.plan, s.plan[i].type = "function_call",
         NEW part \in DOMAIN Texts(s.plan[i]), NEW all \in BOOLEAN,
         NEW t, MoreSent(s, i, part, all, t), NEW data, Carries(data, s, i, part, all),
         Named(data, i, s), NEW type, type \in Deltas <=> ~all
  PROVE  WithArguments(st, i - 1, type, data) =
           [st EXCEPT !.items = Put(@, i - 1, ItemTold(s.plan[i], t))]
<1> DEFINE item  == s.plan[i]
           old   == s.told[i]
           text  == item.args
           n     == old.sent[1]
           m     == IF all THEN Len(text) ELSE n + 1
           found == FoundItem(st.items, i - 1, "function_call")
           known == [found EXCEPT !.id = IF @ = None THEN data.id ELSE @]
           args  == IF known.args = None THEN <<>> ELSE known.args
<1>1. /\ item \in Item /\ text \in Text /\ item.content = None /\ Texts(item) = <<text>>
      /\ item.type = "function_call" /\ item.id # None
  BY ItemOfPlan DEF ServerOK
<1>2. IsOutput(s.plan) /\ Sayable(item, old) /\ ~old.done
  BY DEF ServerOK, MoreSent
<1>3. part = 1 /\ Texts(item)[part] = text
  BY <1>1
<1>4. t.added = old.added /\ t.done = FALSE /\ t.sent = [old.sent EXCEPT ![1] = m] /\ n < Len(text)
  BY <1>3 DEF MoreSent
<1>5. data.value = IF all THEN text ELSE <<text[n + 1]>>
  BY <1>3 DEF Carries
<1>6. /\ DOMAIN found = {"type", "id", "call", "name", "content", "args"}
      /\ found.type = item.type
      /\ found.id = IF old.added THEN item.id ELSE None
      /\ found.call = IF old.added THEN item.call ELSE None
      /\ found.name = IF old.added THEN item.name ELSE None
      /\ found.content = None
      /\ (IF found.args = None THEN <<>> ELSE found.args) = SubSeq(text, 1, n)
  BY <1>1, <1>2, FoundItemIs
<1>7. data.id = None \/ (data.id = item.id /\ old.added)
  BY DEF Named
<1>8. data.value # NotText =>
        WithArguments(st, i - 1, type, data) =
          [st EXCEPT !.items =
             Put(@, i - 1, [known EXCEPT !.args = Written(type, args, data.value)])]
  BY DEF WithArguments, FoundItem
<1>9. /\ DOMAIN known = {"type", "id", "call", "name", "content", "args"}
      /\ known.type = item.type
      /\ known.id = IF old.added THEN item.id ELSE None
      /\ known.call = IF old.added THEN item.call ELSE None
      /\ known.name = IF old.added THEN item.name ELSE None
      /\ known.content = None /\ known.args = found.args
  <2> HIDE DEF found, item, old
  <2> QED BY <1>1, <1>6, <1>7
<1>10. args = SubSeq(text, 1, n)
  <2> HIDE DEF known, found, text, n
  <2> QED BY <1>6, <1>9
<1> HIDE DEF item, old, text, n, m, found, known, args
<1>11. /\ n \in Nat /\ text \in Seq(Nat) /\ Len(text) \in Nat
       /\ old.sent \in [{1} -> Nat]
  <2>1. DOMAIN Texts(item) = {1}
    BY <1>1
  <2>2. old.sent \in [{1} -> Nat]
    BY <1>2, <2>1 DEF Sayable
  <2> QED BY <1>1, <2>2, LenProperties DEF n, Text
<1>12. data.value \in Text /\ data.value # NotText
  <2>1. n + 1 \in 1..Len(text)
    BY <1>4, <1>11
  <2>2. text[n + 1] \in Nat
    BY <1>11, <2>1, ElementOfSeq
  <2>3. <<text[n + 1]>> \in Text
    BY <2>2 DEF Text
  <2>4. data.value \in Text
    BY <1>1, <1>5, <2>3
  <2> QED BY <2>4, NoneAssumption
<1>13. Written(type, args, data.value) = SubSeq(text, 1, m)
  <2>1. Written(type, SubSeq(text, 1, n), IF all THEN text ELSE <<text[n + 1]>>) =
          SubSeq(text, 1, IF all THEN Len(text) ELSE n + 1)
    BY <1>1, <1>4, <1>11, WrittenText
  <2> QED BY <1>5, <1>10, <2>1 DEF m
<1>14. t.sent[1] = m
  BY <1>4, <1>11
<1>15. ASSUME NEW new, new = SubSeq(text, 1, m)
       PROVE  [known EXCEPT !.args = new] = ItemTold(item, t)
  <2>1. item.args # None
    BY <1>1, NoneAssumption DEF text
  <2>2. ItemTold(item, t) =
          [type |-> item.type,
           id |-> IF old.added THEN item.id ELSE None,
           call |-> IF old.added THEN item.call ELSE None,
           name |-> IF old.added THEN item.name ELSE None,
           content |-> None, args |-> new]
    BY <1>1, <1>4, <1>14, <1>15, <2>1, ItemToldIs DEF text
  <2>3. [known EXCEPT !.args = new] =
          [type |-> known.type, id |-> known.id, call |-> known.call, name |-> known.name,
           content |-> known.content, args |-> new]
    BY <1>9
  <2> QED BY <1>9, <2>2, <2>3
<1> QED BY <1>8, <1>12, <1>13, <1>15 DEF item

(* What is no text changes nothing that is there.                          *)
LEMMA PutBack ==
  ASSUME NEW s, ServerOK(s), NEW i \in DOMAIN s.plan, IsTold(s.told[i]),
         NEW item, item = ItemTold(s.plan[i], s.told[i])
  PROVE  Put(ItemsTold(s), i - 1, item) = ItemsTold(s)
<1> DEFINE old == ItemsTold(s)
<1>1. i - 1 \in DOMAIN old /\ old[i - 1] = item
  BY ItemsToldAt
<1>2. old = [k \in DOMAIN old |-> old[k]]
  BY DEF ItemsTold
<1> HIDE DEF old
<1>3. Put(old, i - 1, item) = [k \in DOMAIN old |-> IF k = i - 1 THEN item ELSE old[k]]
  BY <1>1 DEF Put
<1>4. \A k \in DOMAIN old : (IF k = i - 1 THEN item ELSE old[k]) = old[k]
  BY <1>1
<1>5. Put(old, i - 1, item) = [k \in DOMAIN old |-> old[k]]
  BY <1>3, <1>4
<1> QED BY <1>2, <1>5 DEF old

LEMMA TextRefused ==
  ASSUME NEW s, ServerOK(s), NEW st, st.items = ItemsTold(s),
         NEW i \in DOMAIN s.plan, s.plan[i].type = "message",
         NEW part \in DOMAIN Texts(s.plan[i]), s.told[i].sent[part] > 0,
         NEW data, data.part = part - 1, data.value = NotText, NEW type
  PROVE  \E after : /\ WithText(st, i - 1, type, data) = Failure(after, "protocol")
                    /\ after = [st EXCEPT !.items = ItemsTold(s)]
<1> DEFINE item  == s.plan[i]
           t     == s.told[i]
           found == ItemTold(item, t)
           parts == found.content
           n     == (IF data.part = None THEN 0 ELSE data.part) + 1
           grown == [k \in 1..(IF Len(parts) < n THEN n ELSE Len(parts)) |->
                       IF k <= Len(parts) THEN parts[k] ELSE <<>>]
<1>1. /\ item \in Item /\ item.content \in Seq(Text) /\ Texts(item) = item.content
      /\ item.args = None
  BY ItemOfPlan DEF ServerOK
<1>2. IsOutput(s.plan) /\ Sayable(item, t)
  BY DEF ServerOK
<1>3. IsTold(t)
  <2>1. DOMAIN t.sent = DOMAIN Texts(item)
    BY <1>2 DEF Sayable
  <2> QED BY <2>1 DEF IsTold
<1>4. parts \in Seq(Text) /\ part \in 1..Len(parts)
  <2>1. PICK begun \in 0..Len(item.content) :
          /\ Begun(item, t) = 1..begun
          /\ SentTexts(item.content, t) =
               [k \in 1..begun |-> SubSeq(item.content[k], 1, t.sent[k])]
          /\ SentTexts(item.content, t) \in Seq(Text)
          /\ Len(SentTexts(item.content, t)) = begun
    BY <1>2, ItemToldIsItem
  <2>2. part \in DOMAIN item.content /\ DOMAIN item.content = 1..Len(item.content)
        /\ Len(item.content) \in Nat
    BY <1>1, LenProperties
  <2>3. part \in Begun(item, t)
    BY <1>1, <2>2 DEF Begun
  <2>4. CASE t.done
    BY <1>1, <2>2, <2>4, ItemToldIs
  <2>5. CASE ~t.done
    <3>1. parts = SentTexts(item.content, t)
      BY <1>1, <2>5, ItemToldIs, NoneAssumption
    <3> HIDE DEF parts
    <3> QED BY <2>1, <2>3, <3>1
  <2> QED BY <2>4, <2>5
<1>5. n = part
  <2>1. part \in Int
    BY <1>4, LenProperties
  <2>2. part - 1 \in Int /\ (part - 1) + 1 = part
    BY <2>1
  <2> QED BY <2>2, NoneAssumption
<1>6. grown = parts
  <2> HIDE DEF parts, n
  <2>1. Len(parts) \in Nat /\ part \in Nat /\ ~(Len(parts) < n)
    BY <1>4, <1>5, LenProperties
  <2>2. grown = [k \in 1..Len(parts) |-> parts[k]]
    BY <2>1
  <2> QED BY <1>4, <2>2, LenProperties
<1>7. [found EXCEPT !.content = grown] = found
  <2>1. found \in Item
    BY <1>2, ItemToldIsItem
  <2> HIDE DEF found
  <2> QED BY <1>6, <2>1 DEF Item
<1>8. i - 1 \in DOMAIN ItemsTold(s) /\ ItemsTold(s)[i - 1] = found
  BY <1>3, ItemsToldAt
<1>9. parts # None
  BY <1>4, NoneAssumption
<1>10. WithText(st, i - 1, type, data) =
         Failure([st EXCEPT !.items = Put(@, i - 1, [found EXCEPT !.content = grown])], "protocol")
  BY <1>8, <1>9 DEF WithText
<1>11. Put(st.items, i - 1, found) = ItemsTold(s)
  BY <1>3, PutBack
<1> HIDE DEF found, grown
<1> QED BY <1>7, <1>10, <1>11

LEMMA ArgumentsRefused ==
  ASSUME NEW s, ServerOK(s), NEW st, st.items = ItemsTold(s),
         NEW i \in DOMAIN s.plan, IsTold(s.told[i]),
         NEW data, data.id = None, data.value = NotText, NEW type
  PROVE  \E after : /\ WithArguments(st, i - 1, type, data) = Failure(after, "protocol")
                    /\ after = [st EXCEPT !.items = ItemsTold(s)]
<1> DEFINE found == ItemTold(s.plan[i], s.told[i])
           known == [found EXCEPT !.id = IF @ = None THEN data.id ELSE @]
<1>1. i - 1 \in DOMAIN ItemsTold(s) /\ ItemsTold(s)[i - 1] = found
  BY ItemsToldAt
<1>2. known = found
  <2>1. IsOutput(s.plan) /\ Sayable(s.plan[i], s.told[i])
    BY DEF ServerOK
  <2>2. found \in Item
    BY <2>1, ItemToldIsItem
  <2> HIDE DEF found
  <2> QED BY <2>2 DEF Item
<1>3. WithArguments(st, i - 1, type, data) =
        Failure([st EXCEPT !.items = Put(@, i - 1, known)], "protocol")
  BY <1>1 DEF WithArguments
<1>4. Put(st.items, i - 1, found) = ItemsTold(s)
  BY PutBack
<1> HIDE DEF found, known
<1> QED BY <1>2, <1>3, <1>4

-----------------------------------------------------------------------------
(* What an event tells                                                     *)

(* s2 has said more than s of the i-th item, and nothing else.             *)
SaysMore(s, s2, i, t) ==
  /\ DOMAIN s2 = DOMAIN s
  /\ s2.plan = s.plan /\ s2.terse = s.terse /\ s2.payload = s.payload /\ s2.over = s.over
  /\ i \in DOMAIN s.plan /\ s2.told = [s.told EXCEPT ![i] = t]
  /\ Sayable(s.plan[i], t) /\ IsTold(t) /\ (t.added \/ s.terse)

LEMMA SaysMoreOK ==
  ASSUME NEW s, ServerOK(s), ~s.over, NEW s2, NEW i, NEW t, SaysMore(s, s2, i, t)
  PROVE  ServerOK(s2)
<1>1. /\ DOMAIN s2 = {"plan", "terse", "payload", "told", "over", "inOrder", "callsInOrder"}
      /\ IsOutput(s2.plan) /\ s2.terse \in BOOLEAN /\ s2.over = s.over /\ s2.over \in BOOLEAN
      /\ DOMAIN s2.told = DOMAIN s2.plan
      /\ s2.payload = s.payload /\ s2.payload \in ResponseHead
  BY DEF ServerOK, SaysMore
<1>2. \A k \in DOMAIN s.plan : s2.told[k] = IF k = i THEN t ELSE s.told[k]
  BY DEF ServerOK, SaysMore
<1>3. \A k \in DOMAIN s2.plan : Sayable(s2.plan[k], s2.told[k])
  BY <1>2 DEF ServerOK, SaysMore
<1>4. ~s2.terse => \A k \in DOMAIN s2.plan : IsTold(s2.told[k]) => s2.told[k].added
  BY <1>2 DEF ServerOK, SaysMore
<1>5. \/ s2.payload = NoResponse
      \/ s2.payload = [model |-> Model, status |-> "in_progress", reason |-> None]
  BY <1>1 DEF ServerOK
<1> QED BY <1>1, <1>3, <1>4, <1>5 DEF ServerOK

LEMMA ItemEventTells ==
  ASSUME NEW s, ServerOK(s), ~s.over, NEW st, Follows(st, s),
         DOMAIN st = {"payload", "items", "final", "error"},
         NEW s2, NEW i, NEW t, SaysMore(s, s2, i, t), NEW event,
         event.type \in ItemEvents \cup TextEvents \cup ArgumentEvents,
         event.data.response = None, event.data.index = None \/ event.data.index \in Nat,
         Applied(st, event.type, event.data) =
           [st EXCEPT !.items = Put(@, i - 1, ItemTold(s.plan[i], t))]
  PROVE  Tells(event, st, s2)
<1> DEFINE after == [st EXCEPT !.items = Put(@, i - 1, ItemTold(s.plan[i], t))]
<1>1. Record(st, event) = [state |-> after, type |-> event.type]
  BY ItemEventRecorded
<1>2. ServerOK(s2)
  BY SaysMoreOK
<1>3. Put(st.items, i - 1, ItemTold(s.plan[i], t)) = ItemsTold(s2)
  <2>1. /\ i \in DOMAIN s.plan /\ IsTold(t)
        /\ s2.plan = s.plan /\ s2.told = [s.told EXCEPT ![i] = t]
    BY DEF SaysMore
  <2>2. ItemsTold(s2) = Put(ItemsTold(s), i - 1, ItemTold(s.plan[i], t))
    BY <2>1, ItemsToldGrow
  <2> QED BY <2>2 DEF Follows
<1>4. /\ DOMAIN after = {"payload", "items", "final", "error"}
      /\ after.payload = st.payload /\ after.items = ItemsTold(s2)
      /\ after.final = None /\ after.error = None
  BY <1>3 DEF Follows
<1> HIDE DEF after
<1>5. Follows(after, s2)
  BY <1>4 DEF Follows, SaysMore
<1>6. s2.payload.status \notin {"completed", "incomplete"}
  <2>1. s.payload.status \in {None, "in_progress"}
    BY DEF ServerOK, NoResponse
  <2> QED BY <2>1, StringsAreNotNone DEF SaysMore
<1>7. Settled(after, Account(s2)) /\ ~IsTerminal(after)
  BY <1>2, <1>4, <1>5, <1>6, FollowsSettled
<1>8. event.type \notin Terminal
  BY DEF ItemEvents, TextEvents, ArgumentEvents, Terminal
<1>9. Record(st, event).state = after /\ Record(st, event).type = event.type
  BY <1>1
<1>10. (event.type \in Terminal) = IsTerminal(after)
  BY <1>4, <1>8 DEF IsTerminal
<1> QED BY <1>5, <1>7, <1>9, <1>10 DEF Tells

LEMMA AppliedIs ==
  ASSUME NEW st, NEW type, NEW data
  PROVE  /\ type \in ItemEvents /\ data.item # None =>
              Applied(st, type, data) =
                [st EXCEPT !.items =
                   Put(@, Target(st, data), Merge(ItemAt(@, Target(st, data)), data.item))]
         /\ type \in TextEvents =>
              Applied(st, type, data) = WithText(st, Target(st, data), type, data)
         /\ type \in ArgumentEvents =>
              Applied(st, type, data) = WithArguments(st, Target(st, data), type, data)
         /\ type \notin ItemEvents \cup TextEvents \cup ArgumentEvents \cup Terminal =>
              Applied(st, type, data) = st
<1>1. /\ ItemEvents \cap TextEvents = {} /\ ItemEvents \cap ArgumentEvents = {}
      /\ ItemEvents \cap Terminal = {} /\ TextEvents \cap ArgumentEvents = {}
      /\ TextEvents \cap Terminal = {} /\ ArgumentEvents \cap Terminal = {}
  BY DEF ItemEvents, TextEvents, ArgumentEvents, Terminal
<1>2. CASE type \in ItemEvents /\ data.item # None
  BY <1>1, <1>2 DEF Applied
<1>3. CASE type \in TextEvents
  BY <1>1, <1>3 DEF Applied
<1>4. CASE type \in ArgumentEvents
  BY <1>1, <1>4 DEF Applied
<1>5. CASE type \notin ItemEvents \cup TextEvents \cup ArgumentEvents \cup Terminal
  BY <1>5 DEF Applied
<1>6. CASE type \in Terminal
  BY <1>1, <1>6
<1>7. CASE type \in ItemEvents
  BY <1>1, <1>2, <1>7
<1> QED BY <1>3, <1>4, <1>5, <1>6, <1>7

LEMMA AddedTells ==
  ASSUME NEW s, ServerOK(s), ~s.over, NEW st, Follows(st, s),
         DOMAIN st = {"payload", "items", "final", "error"},
         NEW s2, NEW i, NEW t, SaysMore(s, s2, i, t), ~IsTold(s.told[i]), NEW event,
         event.type = "response.output_item.added", event.data.response = None,
         event.data.index = i - 1, event.data.id = None,
         event.data.item = ItemTold(s.plan[i], t)
  PROVE  Tells(event, st, s2)
<1> DEFINE item == ItemTold(s.plan[i], t)
<1>1. i \in DOMAIN s.plan /\ IsOutput(s.plan) /\ Sayable(s.plan[i], t)
  BY DEF SaysMore, ServerOK
<1>2. item \in Item /\ item # None
  BY <1>1, ItemToldIsItem, NoneAssumption
<1>3. Named(event.data, i, s)
  BY DEF Named
<1>4. Target(st, event.data) = i - 1
  BY <1>1, <1>3, TargetFound
<1>5. ItemAt(st.items, i - 1) = NoItem
  BY <1>1, ItemsToldAt DEF ItemAt, Follows
<1>6. Merge(NoItem, item) = item
  BY <1>2, MergedItem
<1>7. event.type \in ItemEvents
  BY DEF ItemEvents
<1> HIDE DEF item
<1>8. event.data.item = item
  BY DEF item
<1>9. Applied(st, event.type, event.data) = [st EXCEPT !.items = Put(@, i - 1, item)]
  BY <1>2, <1>4, <1>5, <1>6, <1>7, <1>8, AppliedIs
<1>10. event.data.index \in Nat
  <2>1. i \in 1..Len(s.plan) /\ Len(s.plan) \in Nat
    BY <1>1, ItemsToldAt
  <2> QED BY <2>1
<1> QED BY <1>7, <1>9, <1>10, ItemEventTells DEF item

LEMMA DoneTells ==
  ASSUME NEW s, ServerOK(s), ~s.over, NEW st, Follows(st, s),
         DOMAIN st = {"payload", "items", "final", "error"},
         NEW s2, NEW i, NEW t, SaysMore(s, s2, i, t), t.done, NEW event,
         event.type = "response.output_item.done", event.data.response = None,
         Named(event.data, i, s), event.data.item = s.plan[i]
  PROVE  Tells(event, st, s2)
<1> DEFINE item == s.plan[i]
<1>1. i \in DOMAIN s.plan /\ item \in Item /\ item # None
  BY ItemOfPlan, NoneAssumption DEF SaysMore, ServerOK
<1>2. Target(st, event.data) = i - 1
  BY <1>1, TargetFound
<1>3. Merge(ItemAt(st.items, i - 1), item) = item
  <2>1. CASE IsTold(s.told[i])
    <3>1. ItemAt(st.items, i - 1) = ItemTold(item, s.told[i])
      BY <1>1, <2>1, ItemsToldAt DEF ItemAt, Follows
    <3> QED BY <1>1, <3>1, MergedItem
  <2>2. CASE ~IsTold(s.told[i])
    <3>1. ItemAt(st.items, i - 1) = NoItem
      BY <1>1, <2>2, ItemsToldAt DEF ItemAt, Follows
    <3> QED BY <1>1, <3>1, MergedItem
  <2> QED BY <2>1, <2>2
<1>4. event.type \in ItemEvents
  BY DEF ItemEvents
<1>5. ItemTold(item, t) = item
  BY <1>1, ItemToldIs
<1>6. Applied(st, event.type, event.data) = [st EXCEPT !.items = Put(@, i - 1, item)]
  BY <1>1, <1>2, <1>3, <1>4, AppliedIs
<1>7. event.data.index = None \/ event.data.index \in Nat
  <2>1. i \in 1..Len(s.plan) /\ Len(s.plan) \in Nat
    BY <1>1, ItemsToldAt
  <2> QED BY <2>1 DEF Named
<1> QED BY <1>4, <1>5, <1>6, <1>7, ItemEventTells

LEMMA SpokenTells ==
  ASSUME NEW s, ServerOK(s), ~s.over, NEW st, Follows(st, s),
         DOMAIN st = {"payload", "items", "final", "error"},
         NEW s2, NEW i, NEW t, SaysMore(s, s2, i, t),
         NEW part \in DOMAIN Texts(s.plan[i]), NEW all \in BOOLEAN,
         MoreSent(s, i, part, all, t), NEW event, event.type = TextEvent(s.plan[i], all),
         event.data.response = None, Named(event.data, i, s), Carries(event.data, s, i, part, all)
  PROVE  Tells(event, st, s2)
<1> DEFINE item == s.plan[i]
<1>1. i \in DOMAIN s.plan /\ st.items = ItemsTold(s)
  BY DEF SaysMore, Follows
<1>2. item.type \in {"message", "function_call"}
  <2>1. Texts(item) # <<>>
    OBVIOUS
  <2> QED BY <1>1, <2>1, ItemOfPlan DEF ServerOK
<1>3. Target(st, event.data) = i - 1
  BY <1>1, TargetFound
<1>4. event.data.index = None \/ event.data.index \in Nat
  <2>1. i \in 1..Len(s.plan) /\ Len(s.plan) \in Nat
    BY <1>1, ItemsToldAt
  <2> QED BY <2>1 DEF Named
<1>5. event.type \in Deltas <=> ~all
  BY <1>2 DEF TextEvent, Deltas
<1>6. CASE item.type = "message"
  <2>1. event.type \in TextEvents
    BY <1>6 DEF TextEvent, TextEvents
  <2>2. WithText(st, i - 1, event.type, event.data) =
          [st EXCEPT !.items = Put(@, i - 1, ItemTold(item, t))]
    BY <1>1, <1>5, <1>6, TextWritten
  <2>3. Applied(st, event.type, event.data) =
          [st EXCEPT !.items = Put(@, i - 1, ItemTold(item, t))]
    BY <1>3, <2>1, <2>2, AppliedIs
  <2> QED BY <1>4, <2>1, <2>3, ItemEventTells
<1>7. CASE item.type = "function_call"
  <2>1. event.type \in ArgumentEvents
    BY <1>7 DEF TextEvent, ArgumentEvents
  <2>2. WithArguments(st, i - 1, event.type, event.data) =
          [st EXCEPT !.items = Put(@, i - 1, ItemTold(item, t))]
    BY <1>1, <1>5, <1>7, ArgumentsWritten
  <2>3. Applied(st, event.type, event.data) =
          [st EXCEPT !.items = Put(@, i - 1, ItemTold(item, t))]
    BY <1>3, <2>1, <2>2, AppliedIs
  <2> QED BY <1>4, <2>1, <2>3, ItemEventTells
<1> QED BY <1>2, <1>6, <1>7

(* The "response" of an event may repeat the output, and says at least the *)
(* model and the status.                                                   *)
LEMMA AllTold ==
  ASSUME NEW s, ServerOK(s), \A i \in DOMAIN s.plan : s.told[i].done
  PROVE  ItemsTold(s) = [i \in 0..(Len(s.plan) - 1) |-> s.plan[i + 1]]
<1>1. /\ Len(s.plan) \in Nat /\ DOMAIN s.plan = 1..Len(s.plan)
      /\ \A i \in 0..(Len(s.plan) - 1) : i + 1 \in DOMAIN s.plan
  BY ItemsToldAt
<1>2. \A i \in 0..(Len(s.plan) - 1) :
        /\ IsTold(s.told[i + 1])
        /\ ItemTold(s.plan[i + 1], s.told[i + 1]) = s.plan[i + 1]
  BY <1>1 DEF IsTold, ItemTold
<1>3. {i \in 0..(Len(s.plan) - 1) : IsTold(s.told[i + 1])} = 0..(Len(s.plan) - 1)
  BY <1>2
<1> QED BY <1>2, <1>3 DEF ItemsTold

LEMMA AbsorbFollows ==
  ASSUME NEW s, ServerOK(s), ~s.over, NEW st, Follows(st, s),
         DOMAIN st = {"payload", "items", "final", "error"},
         NEW now \in ResponseHead, now.model # None, now.status # None,
         NEW s2, ServerOK(s2), s2.plan = s.plan, s2.payload = now, NEW output,
         \/ output \in {None, <<>>} /\ ItemsTold(s2) = ItemsTold(s)
         \/ output = s.plan /\ \A i \in DOMAIN s.plan : s2.told[i].done
  PROVE  LET after == Absorb(st, WithOutput(now, output))
         IN  /\ Follows(after, s2)
             /\ DOMAIN after = {"payload", "items", "final", "error"}
<1> DEFINE response == WithOutput(now, output)
           listed == IF response.output = None THEN <<>> ELSE response.output
           old == ItemsTold(s)
           payload == [f \in DOMAIN st.payload |->
                         IF response[f] = None THEN st.payload[f] ELSE response[f]]
           items == [i \in DOMAIN old \cup 0..(Len(listed) - 1) |->
                       IF i < Len(listed) THEN Merge(ItemAt(old, i), listed[i + 1]) ELSE old[i]]
           after == [st EXCEPT !.payload = payload, !.items = items]
<1>1. response # None
  <2>1. CASE response.output = None
    <3>1. WithOutput(now, None) = response
      BY <2>1 DEF WithOutput
    <3>2. response \in ResponseRecord
      BY <3>1 DEF WithOutput, ResponseRecord, ResponseHead
    <3> QED BY <3>2, NoneAssumption
  <2>2. CASE response.output # None
    <3>1. response.output \in Seq(Item)
      <4>1. output = <<>> \/ output = s.plan
        BY <2>2 DEF WithOutput
      <4>2. <<>> \in Seq(Item) /\ s.plan \in Seq(Item)
        BY DEF ServerOK, IsOutput
      <4> QED BY <4>1, <4>2 DEF WithOutput
    <3>2. response \in ResponseRecord
      BY <3>1 DEF WithOutput, ResponseRecord, ResponseHead
    <3> QED BY <3>2, NoneAssumption
  <2> QED BY <2>1, <2>2
<1>2. Absorb(st, response) = after
  BY <1>1 DEF Absorb, Follows
<1>3. payload = now
  <2>1. st.payload = NoResponse
        \/ st.payload = [model |-> Model, status |-> "in_progress", reason |-> None]
    BY DEF Follows, ServerOK
  <2>2. /\ DOMAIN st.payload = {"model", "status", "reason"} /\ st.payload.reason = None
    BY <2>1 DEF NoResponse
  <2>3. /\ response.model = now.model /\ response.status = now.status
        /\ response.reason = now.reason
    BY DEF WithOutput
  <2>4. now = [model |-> now.model, status |-> now.status, reason |-> now.reason]
    BY DEF ResponseHead
  <2> HIDE DEF response
  <2>5. payload = [f \in {"model", "status", "reason"} |-> now[f]]
    <3>1. \A f \in {"model", "status", "reason"} :
            (IF response[f] = None THEN st.payload[f] ELSE response[f]) = now[f]
      BY <2>2, <2>3
    <3> QED BY <2>2, <3>1
  <2> HIDE DEF payload
  <2> QED BY <2>4, <2>5
<1>4. items = ItemsTold(s2)
  <2>1. /\ DOMAIN old \subseteq 0..(Len(s.plan) - 1) /\ old = [i \in DOMAIN old |-> old[i]]
        /\ Len(s.plan) \in Nat /\ DOMAIN s.plan = 1..Len(s.plan)
        /\ \A i \in DOMAIN old : old[i] = ItemTold(s.plan[i + 1], s.told[i + 1])
    <3>1. old = [i \in DOMAIN old |-> old[i]]
      BY DEF ItemsTold
    <3> HIDE DEF old
    <3> QED BY <3>1, ItemsToldAt DEF old
  <2>2. CASE output \in {None, <<>>} /\ ItemsTold(s2) = ItemsTold(s)
    <3>1. listed = <<>> /\ Len(listed) = 0
      BY <2>2 DEF WithOutput
    <3> HIDE DEF listed, old
    <3>2. DOMAIN old \cup 0..(Len(listed) - 1) = DOMAIN old
      BY <3>1
    <3>3. \A i \in DOMAIN old : ~(i < Len(listed))
      BY <2>1, <3>1
    <3>4. items = [i \in DOMAIN old |-> old[i]]
      BY <3>2, <3>3
    <3> QED BY <2>1, <2>2, <3>4 DEF old
  <2>3. CASE output = s.plan /\ \A i \in DOMAIN s.plan : s2.told[i].done
    <3>1. listed = s.plan
      <4>1. s.plan # None
        BY NoneAssumption DEF ServerOK, IsOutput
      <4> QED BY <2>3, <4>1 DEF WithOutput
    <3>2. ASSUME NEW i \in 0..(Len(s.plan) - 1)
          PROVE  Merge(ItemAt(old, i), s.plan[i + 1]) = s.plan[i + 1]
      <4>1. i + 1 \in DOMAIN s.plan
        BY <2>1
      <4>2. s.plan[i + 1] \in Item
        BY <4>1, ItemOfPlan DEF ServerOK
      <4>3. ItemAt(old, i) = NoItem \/ ItemAt(old, i) = ItemTold(s.plan[i + 1], s.told[i + 1])
        BY <2>1 DEF ItemAt
      <4> QED BY <4>2, <4>3, MergedItem
    <3>3. ItemsTold(s2) = [i \in 0..(Len(s.plan) - 1) |-> s.plan[i + 1]]
      BY <2>3, AllTold
    <3> HIDE DEF listed, old
    <3>4. DOMAIN old \cup 0..(Len(listed) - 1) = 0..(Len(s.plan) - 1)
      BY <2>1, <3>1
    <3>5. \A i \in 0..(Len(s.plan) - 1) : i < Len(listed)
      BY <2>1, <3>1
    <3>6. items = [i \in 0..(Len(s.plan) - 1) |-> s.plan[i + 1]]
      BY <3>1, <3>2, <3>4, <3>5
    <3> QED BY <3>3, <3>6
  <2> QED BY <2>2, <2>3
<1> HIDE DEF payload, items
<1>5. /\ DOMAIN after = {"payload", "items", "final", "error"}
      /\ after.payload = payload /\ after.items = items
      /\ after.final = st.final /\ after.error = st.error
  OBVIOUS
<1> HIDE DEF after
<1>6. Follows(after, s2)
  BY <1>3, <1>4, <1>5 DEF Follows
<1> QED BY <1>2, <1>5, <1>6

LEMMA CreatedTells ==
  ASSUME NEW st, NEW s2, ServerOK(s2), s2.payload.status = "in_progress", NEW event,
         event.type = "response.created", Follows(Absorb(st, event.data.response), s2),
         DOMAIN Absorb(st, event.data.response) = {"payload", "items", "final", "error"}
  PROVE  Tells(event, st, s2)
<1> DEFINE after == Absorb(st, event.data.response)
<1> HIDE DEF after
<1>1. Follows(after, s2) /\ DOMAIN after = {"payload", "items", "final", "error"}
  BY DEF after
<1>2. Settled(after, Account(s2)) /\ ~IsTerminal(after)
  BY <1>1, FollowsSettled
<1>3. event.type \notin ItemEvents \cup TextEvents \cup ArgumentEvents \cup Terminal
  BY DEF ItemEvents, TextEvents, ArgumentEvents, Terminal
<1>4. ~HasFailed(after, event) /\ Normalised(after, event.type) = event.type
  BY <1>1 DEF HasFailed, Normalised, Follows
<1>5. Applied(after, event.type, event.data) = after
  BY <1>3, AppliedIs
<1>6. Record(st, event).state = after /\ Record(st, event).type = event.type
  BY <1>3, <1>4, <1>5 DEF Record, after
<1>7. (event.type \in Terminal) = IsTerminal(after)
  BY <1>1, <1>3 DEF IsTerminal, Follows
<1> QED BY <1>1, <1>2, <1>6, <1>7 DEF Tells

LEMMA EndedSettled ==
  ASSUME NEW st, NEW s, ServerOK(s), Follows(st, s),
         DOMAIN st = {"payload", "items", "final", "error"},
         NEW status \in {"completed", "incomplete"}, s.payload.status = status,
         NEW ended, ended = [st EXCEPT !.payload.status = status],
         NEW after, after = [ended EXCEPT !.final = Snapshot(ended)]
  PROVE  Settled(after, Account(s)) /\ IsTerminal(after) /\ after.error = None
<1>1. st.payload = s.payload /\ st.items = ItemsTold(s) /\ st.final = None /\ st.error = None
  BY DEF Follows
<1>2. [s.payload EXCEPT !.status = status] = s.payload
  BY DEF ServerOK, ResponseHead
<1>3. /\ DOMAIN ended = {"payload", "items", "final", "error"}
      /\ ended.payload = s.payload /\ ended.items = ItemsTold(s) /\ ended.error = None
  BY <1>1, <1>2
<1>4. Snapshot(ended) = Account(s)
  BY <1>3 DEF Snapshot, Account
<1>5. /\ DOMAIN after = {"payload", "items", "final", "error"}
      /\ after.payload = s.payload /\ after.items = ItemsTold(s) /\ after.error = None
      /\ after.final = Account(s)
  BY <1>3, <1>4
<1>6. Snapshot(after) = Account(s)
  BY <1>5 DEF Snapshot, Account
<1>7. Account(s) \in ResponseRecord /\ Account(s) # None /\ Account(s).status = status
  BY AccountIsResponse, NoneAssumption
<1> QED BY <1>5, <1>6, <1>7 DEF Settled, IsTerminal

LEMMA EndTells ==
  ASSUME NEW st, NEW s2, ServerOK(s2), s2.over, NEW event, event.data.index = None,
         Follows(Absorb(st, event.data.response), s2),
         DOMAIN Absorb(st, event.data.response) = {"payload", "items", "final", "error"},
         \/ event.type \in {"response.completed", "response.done"}
              /\ s2.payload.status = "completed"
         \/ event.type \in {"response.incomplete", "response.done"}
              /\ s2.payload.status = "incomplete"
         \/ event.type \in {"response.failed", "response.done", "error"}
              /\ s2.payload.status \notin {"completed", "incomplete"}
  PROVE  Tells(event, st, s2)
<1> DEFINE now == Absorb(st, event.data.response)
<1> HIDE DEF now
<1>1. Follows(now, s2) /\ DOMAIN now = {"payload", "items", "final", "error"}
      /\ now.payload.status = s2.payload.status
  BY DEF now, Follows
<1>2. ASSUME NEW type \in Terminal, event.type \in {type, "response.done"},
             s2.payload.status = IF type = "response.completed" THEN "completed" ELSE "incomplete"
      PROVE  Tells(event, st, s2)
  <2> DEFINE status == IF type = "response.completed" THEN "completed" ELSE "incomplete"
             ended == [now EXCEPT !.payload.status = status]
             after == [ended EXCEPT !.final = Snapshot(ended)]
  <2>1. Settled(after, Account(s2)) /\ IsTerminal(after) /\ after.error = None
    <3> HIDE DEF status
    <3>1. status \in {"completed", "incomplete"} /\ s2.payload.status = status
      BY <1>2 DEF status
    <3> HIDE DEF ended, after
    <3>2. ended = [now EXCEPT !.payload.status = status]
          /\ after = [ended EXCEPT !.final = Snapshot(ended)]
      BY DEF ended, after
    <3> QED BY <1>1, <3>1, <3>2, EndedSettled
  <2>2. ~HasFailed(now, event)
    BY <1>1, <1>2 DEF HasFailed, Terminal
  <2>3. Normalised(now, event.type) = type
    BY <1>1, <1>2 DEF Normalised, Terminal
  <2>4. Applied(now, type, event.data) = after
    <3>1. type \notin ItemEvents \cup TextEvents \cup ArgumentEvents
      BY <1>2 DEF ItemEvents, TextEvents, ArgumentEvents, Terminal
    <3> QED BY <1>2, <3>1 DEF Applied
  <2> HIDE DEF after
  <2>5. Record(st, event).state = after /\ Record(st, event).type = type
    BY <1>1, <1>2, <2>2, <2>3, <2>4 DEF Record, now
  <2>6. (type \in Terminal) = IsTerminal(after)
    BY <1>2, <2>1 DEF IsTerminal
  <2> QED BY <2>1, <2>5, <2>6 DEF Tells
<1>3. ASSUME event.type \in {"response.failed", "response.done", "error"},
             s2.payload.status \notin {"completed", "incomplete"}
      PROVE  Tells(event, st, s2)
  <2>1. PICK kind \in {"failed", "protocol"} : Record(st, event).state = Failure(now, kind)
    <3>1. CASE HasFailed(now, event)
      BY <3>1 DEF Record, now
    <3>2. CASE ~HasFailed(now, event)
      <4>1. event.type = "response.done" /\ now.payload.status \notin {"completed", "incomplete"}
        BY <1>1, <1>3, <3>2 DEF HasFailed
      <4> QED BY <3>2, <4>1 DEF Record, now
    <3> QED BY <3>1, <3>2
  <2>2. kind \in STRING
    BY StringAssumption
  <2>3. Settled(Failure(now, kind), Account(s2)) /\ Failure(now, kind).error # None
    BY <1>1, <1>3, <2>2, FollowsSettled
  <2> QED BY <2>1, <2>3 DEF Tells
<1>4. CASE event.type \in {"response.completed", "response.done"} /\ s2.payload.status = "completed"
  <2>1. "response.completed" \in Terminal /\ event.type \in {"response.completed", "response.done"}
    BY <1>4 DEF Terminal
  <2> QED BY <1>2, <1>4, <2>1
<1>5. CASE event.type \in {"response.incomplete", "response.done"} /\ s2.payload.status = "incomplete"
  <2>1. "response.incomplete" \in Terminal /\ event.type \in {"response.incomplete", "response.done"}
    BY <1>5 DEF Terminal
  <2> QED BY <1>2, <1>5, <2>1
<1> QED BY <1>3, <1>4, <1>5

LEMMA MarkTells ==
  ASSUME NEW st, NEW s2, ServerOK(s2), s2.over, Follows(st, s2),
         DOMAIN st = {"payload", "items", "final", "error"},
         s2.payload.status \notin {"completed", "incomplete", "failed", "cancelled"},
         NEW event, event.data.response = None, event.type = "done"
  PROVE  Tells(event, st, s2)
<1>1. Settled(st, Account(s2)) /\ ~IsTerminal(st)
  BY FollowsSettled
<1>2. event.type \notin ItemEvents \cup TextEvents \cup ArgumentEvents \cup Terminal
  BY DEF ItemEvents, TextEvents, ArgumentEvents, Terminal
<1>3. ~HasFailed(st, event) /\ Normalised(st, event.type) = event.type
  BY DEF HasFailed, Normalised, Follows
<1>4. Applied(st, event.type, event.data) = st
  BY <1>2, AppliedIs
<1>5. Absorb(st, event.data.response) = st
  BY DEF Absorb
<1>6. Record(st, event).state = st /\ Record(st, event).type = event.type
  BY <1>2, <1>3, <1>4, <1>5 DEF Record
<1>7. (event.type \in Terminal) = IsTerminal(st)
  BY <1>2 DEF IsTerminal, Follows
<1> QED BY <1>1, <1>6, <1>7 DEF Tells

LEMMA RefusedTells ==
  ASSUME NEW st, NEW s2, ServerOK(s2), s2.over, Follows(st, s2),
         DOMAIN st = {"payload", "items", "final", "error"},
         s2.payload.status \notin {"completed", "incomplete", "failed", "cancelled"},
         NEW event, event.data.response = None, NEW after, after = [st EXCEPT !.items = ItemsTold(s2)],
         event.type \in ItemEvents \cup TextEvents \cup ArgumentEvents,
         \/ event.data.index # None /\ event.data.index < 0
         \/ Applied(st, event.type, event.data) = Failure(after, "protocol")
  PROVE  Tells(event, st, s2)
<1>1. DOMAIN after = {"payload", "items", "final", "error"} /\ Follows(after, s2)
  BY DEF Follows
<1>2. "protocol" \in STRING
  BY StringAssumption
<1>3. /\ Settled(Failure(st, "protocol"), Account(s2)) /\ Failure(st, "protocol").error # None
      /\ Settled(Failure(after, "protocol"), Account(s2)) /\ Failure(after, "protocol").error # None
  BY <1>1, <1>2, FollowsSettled
<1>4. ~HasFailed(st, event) /\ Normalised(st, event.type) = event.type
      /\ event.type # "response.done"
  BY DEF HasFailed, Normalised, Follows, ItemEvents, TextEvents, ArgumentEvents
<1>5. Absorb(st, event.data.response) = st
  BY DEF Absorb
<1>6. Record(st, event).state \in {Failure(st, "protocol"), Failure(after, "protocol")}
  BY <1>4, <1>5 DEF Record
<1> QED BY <1>3, <1>6 DEF Tells

-----------------------------------------------------------------------------
(* The steps of the server                                                 *)

LEMMA SomethingAhead ==
  ASSUME NEW event, Underway(event)
  PROVE  wire # <<>>
BY HeadAndTail DEF Underway, At

LEMMA BeforeSpeaking ==
  ASSUME ProtocolInv, CanSay
  PROVE  /\ ServerOK(server) /\ ~server.over
         /\ Follows(state, server) /\ DOMAIN state = {"payload", "items", "final", "error"}
         /\ At(None, <<>>, <<>>)
<1>1. InFlight /\ wire = <<>> /\ ~server.over
  BY DEF ProtocolInv, CanSay
<1>2. ~\E event \in Event : Underway(event)
  BY <1>1, SomethingAhead
<1>3. At(None, <<>>, <<>>) /\ Follows(state, server)
  BY <1>1, <1>2 DEF InFlight
<1> QED BY <1>1, <1>3 DEF ProtocolInv, Settled

LEMMA ServerStepKeeps ==
  ASSUME ProtocolInv, stream.pc = "reading", ServerOK(server'),
         UNCHANGED <<stream, decoder, state, heard, chat>>,
         NEW event \in Event, Underway(event)', Tells(event, state, server')
  PROVE  ProtocolInv'
<1>1. StreamOK' /\ Settled(state, heard)' /\ OpenUntilOutcome'
  BY DEF ProtocolInv, StreamOK, OpenUntilOutcome
<1>2. InFlight'
  BY DEF InFlight
<1> QED BY <1>1, <1>2 DEF ProtocolInv

LEMMA WhatSays ==
  ASSUME NEW s, Says(s),
         DOMAIN s = {"plan", "terse", "payload", "told", "over", "inOrder", "callsInOrder"}
  PROVE  /\ DOMAIN server' = DOMAIN s
         /\ server'.plan = s.plan /\ server'.terse = s.terse /\ server'.payload = s.payload
         /\ server'.told = s.told /\ server'.over = s.over
<1> DEFINE inOrder == s.inOrder /\ IsPrefix(OutputText(Account(server).output), OutputText(Account(s).output))
           callsInOrder == s.callsInOrder /\ IsPrefix(IdentifiedCalls(server), IdentifiedCalls(s))
<1>1. server' = [s EXCEPT !.inOrder = inOrder, !.callsInOrder = callsInOrder]
  BY DEF Says
<1> HIDE DEF inOrder, callsInOrder
<1> QED BY <1>1

(* The same but for the type.                                              *)
SameData(data, other) ==
  /\ data.index = other.index /\ data.id = other.id /\ data.part = other.part
  /\ data.value = other.value /\ data.item = other.item /\ data.response = other.response

LEMMA WhatSends ==
  ASSUME NEW type \in STRING, NEW data \in Data, Send(type, data),
         At(None, <<>>, <<>>), decoder' = decoder,
         \A event \in Event : event.type = type /\ SameData(event.data, data) =>
           Tells(event, state, server')
  PROVE  \E event \in Event : Underway(event)' /\ Tells(event, state, server')
<1> DEFINE plain == [type |-> type, data |-> data]
           named == [data EXCEPT !.type = type]
           full == [type |-> type, data |-> named]
<1>1. plain \in Event /\ plain.type = type /\ SameData(plain.data, data)
  BY DEF Event, SameData
<1>2. named \in Data /\ named.type = type /\ SameData(named, data)
  BY DEF Data, SameData
<1>3. full \in Event /\ full.type = type /\ full.data = named
  BY <1>2 DEF Event
<1>4. Tells(plain, state, server') /\ Tells(full, state, server')
  BY <1>1, <1>2, <1>3
<1>5. decoder' = [type |-> None, lines |-> <<>>]
  BY DEF At
<1> HIDE DEF plain, named, full
<1>6. CASE wire' = <<EventLine(type), DataLine(data, "whole"), Blank>>
  <2>1. plain.data = data
    BY DEF plain
  <2>2. Underway(plain)'
    BY <1>1, <1>5, <1>6, <2>1 DEF Underway, At
  <2> QED BY <1>1, <1>4, <2>2
<1>7. CASE wire' = <<EventLine("ping"), Blank, DataLine(named, "whole"), Blank>>
  <2>1. Underway(full)'
    BY <1>2, <1>3, <1>5, <1>7 DEF Underway, At
  <2> QED BY <1>3, <1>4, <2>1
<1>8. CASE wire' = <<EventLine(type), DataLine(named, "first"), Comment,
                     DataLine(named, "second"), Blank>>
  <2>1. Underway(full)'
    BY <1>3, <1>5, <1>8 DEF Underway, At
  <2> QED BY <1>3, <1>4, <2>1
<1> QED BY <1>6, <1>7, <1>8 DEF Send, Framed, named

LEMMA NoDataIsData ==
  /\ NoData \in Data
  /\ NoData.index = None /\ NoData.id = None /\ NoData.part = None /\ NoData.value = None
  /\ NoData.item = None /\ NoData.response = None
BY DEF NoData, Data

LEMMA NamingIs ==
  ASSUME ServerOK(server), NEW i \in DOMAIN server.plan, NEW data \in Naming(i)
  PROVE  data \in Data /\ Named(data, i, server) /\ data.response = None
<1>1. i \in Int /\ i - 1 \in Int
  <2>1. i \in 1..Len(server.plan) /\ Len(server.plan) \in Nat
    BY ItemsToldAt
  <2> QED BY <2>1
<1>2. server.plan[i].id \in STRING \cup {None}
  <2>1. server.plan[i] \in Item
    BY ItemOfPlan DEF ServerOK
  <2> QED BY <2>1 DEF Item
<1>3. CASE data = [NoData EXCEPT !.index = i - 1]
  <2>1. /\ data.index = i - 1 /\ data.id = None /\ data.response = None
    BY <1>3 DEF NoData
  <2>2. data \in Data
    BY <1>1, <1>3, NoDataIsData DEF Data
  <2> QED BY <2>1, <2>2 DEF Named
<1>4. CASE server.told[i].added /\ data = [NoData EXCEPT !.id = server.plan[i].id]
  <2>1. /\ data.index = None /\ data.id = server.plan[i].id /\ data.response = None
    BY <1>4 DEF NoData
  <2>2. data \in Data
    BY <1>2, <1>4, NoDataIsData DEF Data
  <2> QED BY <1>4, <2>1, <2>2 DEF Named
<1> QED BY <1>3, <1>4 DEF Naming

LEMMA CreatedKeeps ==
  ASSUME ProtocolInv, Created, UNCHANGED <<stream, decoder, state, heard, chat>>
  PROVE  ProtocolInv'
<1> DEFINE now == [model |-> Model, status |-> "in_progress", reason |-> None]
           response == WithOutput(now, <<>>)
           data == [NoData EXCEPT !.response = response]
           said == [server EXCEPT !.payload = now]
<1>1. CanSay /\ server.payload.status = None /\ Says(said) /\ Send("response.created", data)
  BY DEF Created
<1>2. /\ ServerOK(server) /\ ~server.over /\ At(None, <<>>, <<>>)
      /\ Follows(state, server) /\ DOMAIN state = {"payload", "items", "final", "error"}
  BY <1>1, BeforeSpeaking
<1>3. now \in ResponseHead /\ now.model # None /\ now.status # None /\ now.status = "in_progress"
  BY PlanAssumption, StringAssumption, StringsAreNotNone DEF ResponseHead
<1>4. response \in ResponseRecord
  <2>1. <<>> \in Seq(Item)
    OBVIOUS
  <2> HIDE DEF now
  <2> QED BY <1>3, <2>1 DEF ResponseHead, WithOutput, ResponseRecord
<1>5. data \in Data /\ data.response = response
  <2> HIDE DEF response
  <2> QED BY <1>4, NoDataIsData DEF Data
<1>6. /\ DOMAIN server' = {"plan", "terse", "payload", "told", "over", "inOrder", "callsInOrder"}
      /\ server'.plan = server.plan /\ server'.terse = server.terse /\ server'.payload = now
      /\ server'.told = server.told /\ server'.over = server.over
  <2> HIDE DEF now
  <2>1. /\ DOMAIN said = {"plan", "terse", "payload", "told", "over", "inOrder", "callsInOrder"}
        /\ said.plan = server.plan /\ said.terse = server.terse /\ said.payload = now
        /\ said.told = server.told /\ said.over = server.over
    BY <1>2 DEF ServerOK
  <2> HIDE DEF said
  <2> QED BY <1>1, <2>1, WhatSays
<1>7. ServerOK(server')
  <2>1. server'.payload = [model |-> Model, status |-> "in_progress", reason |-> None]
    BY <1>6
  <2> HIDE DEF now
  <2> QED BY <1>2, <1>3, <1>6, <2>1 DEF ServerOK
<1>8. ItemsTold(server') = ItemsTold(server)
  BY <1>6 DEF ItemsTold
<1>9. Follows(Absorb(state, response), server')
      /\ DOMAIN Absorb(state, response) = {"payload", "items", "final", "error"}
  <2> HIDE DEF now
  <2> QED BY <1>2, <1>3, <1>6, <1>7, <1>8, AbsorbFollows
<1> HIDE DEF now, response, data, said
<1>10. ASSUME NEW event \in Event, event.type = "response.created", SameData(event.data, data)
       PROVE  Tells(event, state, server')
  <2>1. event.data.response = response /\ server'.payload.status = "in_progress"
    BY <1>3, <1>5, <1>6, <1>10 DEF SameData
  <2> QED BY <1>7, <1>9, <1>10, <2>1, CreatedTells
<1>11. "response.created" \in STRING /\ decoder' = decoder
  BY StringAssumption
<1>12. PICK event \in Event : Underway(event)' /\ Tells(event, state, server')
  BY <1>1, <1>2, <1>5, <1>10, <1>11, WhatSends
<1> QED BY <1>1, <1>7, <1>12, ServerStepKeeps DEF CanSay

LEMMA AddedKeeps ==
  ASSUME ProtocolInv, NEW i \in DOMAIN server.plan, Added(i),
         UNCHANGED <<stream, decoder, state, heard, chat>>
  PROVE  ProtocolInv'
<1> DEFINE old  == server.told[i]
           t    == [old EXCEPT !.added = TRUE]
           item == ItemTold(server.plan[i], t)
           data == [NoData EXCEPT !.index = i - 1, !.item = item]
           said == [server EXCEPT !.told[i] = t]
<1>1. /\ CanSay /\ ~server.terse /\ ~old.added /\ Says(said)
      /\ Send("response.output_item.added", data)
  BY DEF Added
<1>2. /\ ServerOK(server) /\ ~server.over /\ At(None, <<>>, <<>>)
      /\ Follows(state, server) /\ DOMAIN state = {"payload", "items", "final", "error"}
  BY <1>1, BeforeSpeaking
<1>3. Sayable(server.plan[i], old) /\ ~IsTold(old) /\ IsOutput(server.plan)
  BY <1>1, <1>2 DEF ServerOK
<1>4. /\ t \in [added : BOOLEAN, done : BOOLEAN, sent : [DOMAIN Texts(server.plan[i]) -> Nat]]
      /\ t.added = TRUE /\ t.done = old.done /\ t.sent = old.sent
  BY <1>3 DEF Sayable
<1>5. i - 1 \in Int
  <2>1. i \in 1..Len(server.plan) /\ Len(server.plan) \in Nat
    BY <1>2, ItemsToldAt
  <2> QED BY <2>1
<1> HIDE DEF t
<1>6. Sayable(server.plan[i], t) /\ IsTold(t)
  BY <1>3, <1>4 DEF Sayable, Begun, IsTold
<1>7. item \in Item
  BY <1>3, <1>6, ItemToldIsItem
<1>8. /\ said.told = [server.told EXCEPT ![i] = t]
      /\ DOMAIN said = DOMAIN server /\ said.plan = server.plan /\ said.terse = server.terse
      /\ said.payload = server.payload /\ said.over = server.over
  BY <1>2 DEF ServerOK
<1> HIDE DEF said, item
<1>9. SaysMore(server, server', i, t)
  <2>1. DOMAIN said = {"plan", "terse", "payload", "told", "over", "inOrder", "callsInOrder"}
    BY <1>2, <1>8 DEF ServerOK
  <2> QED BY <1>1, <1>4, <1>6, <1>8, <2>1, WhatSays DEF SaysMore
<1>10. data \in Data /\ data.index = i - 1 /\ data.item = item /\ data.id = None
       /\ data.response = None
  <2>1. DOMAIN NoData = {"type", "index", "id", "part", "value", "item", "response"}
    BY DEF NoData
  <2> QED BY <1>5, <1>7, <2>1, NoDataIsData DEF Data
<1> HIDE DEF data
<1>11. ServerOK(server')
  BY <1>2, <1>9, SaysMoreOK
<1>12. ASSUME NEW event \in Event, event.type = "response.output_item.added",
              SameData(event.data, data)
       PROVE  Tells(event, state, server')
  <2>1. /\ event.data.response = None /\ event.data.index = i - 1 /\ event.data.id = None
        /\ event.data.item = ItemTold(server.plan[i], t)
    BY <1>10, <1>12 DEF SameData, item
  <2>2. ~IsTold(server.told[i])
    BY <1>3
  <2> QED BY <1>2, <1>9, <1>12, <2>1, <2>2, AddedTells
<1>13. "response.output_item.added" \in STRING /\ decoder' = decoder
  BY StringAssumption DEF ItemEvents
<1>14. PICK event \in Event : Underway(event)' /\ Tells(event, state, server')
  BY <1>1, <1>2, <1>10, <1>12, <1>13, WhatSends
<1> QED BY <1>1, <1>11, <1>14, ServerStepKeeps DEF CanSay

LEMMA DoneKeeps ==
  ASSUME ProtocolInv, NEW i \in DOMAIN server.plan, Done(i),
         UNCHANGED <<stream, decoder, state, heard, chat>>
  PROVE  ProtocolInv'
<1> DEFINE old  == server.told[i]
           t    == [old EXCEPT !.done = TRUE]
           said == [server EXCEPT !.told[i].done = TRUE]
<1>1. CanSay /\ (old.added \/ server.terse) /\ Says(said)
  BY DEF Done
<1>2. /\ ServerOK(server) /\ ~server.over /\ At(None, <<>>, <<>>)
      /\ Follows(state, server) /\ DOMAIN state = {"payload", "items", "final", "error"}
  BY <1>1, BeforeSpeaking
<1>3. Sayable(server.plan[i], old) /\ IsOutput(server.plan)
  BY <1>2 DEF ServerOK
<1>4. PICK data \in Naming(i) :
        Send("response.output_item.done", [data EXCEPT !.item = server.plan[i]])
  BY DEF Done
<1>5. data \in Data /\ Named(data, i, server) /\ data.response = None
  BY <1>2, NamingIs
<1>6. server.plan[i] \in Item
  BY <1>3, ItemOfPlan
<1> DEFINE sent == [data EXCEPT !.item = server.plan[i]]
<1>7. /\ sent \in Data /\ sent.item = server.plan[i]
      /\ sent.index = data.index /\ sent.id = data.id /\ sent.response = None
  BY <1>5, <1>6 DEF Data
<1>8. /\ t \in [added : BOOLEAN, done : BOOLEAN, sent : [DOMAIN Texts(server.plan[i]) -> Nat]]
      /\ t.added = old.added /\ t.done = TRUE /\ t.sent = old.sent
  BY <1>3 DEF Sayable
<1>9. /\ said.told = [server.told EXCEPT ![i] = t]
      /\ DOMAIN said = DOMAIN server /\ said.plan = server.plan /\ said.terse = server.terse
      /\ said.payload = server.payload /\ said.over = server.over
  BY <1>2 DEF ServerOK
<1> HIDE DEF t, said, sent
<1>10. Sayable(server.plan[i], t) /\ IsTold(t)
  BY <1>3, <1>8 DEF Sayable, Begun, IsTold
<1>11. SaysMore(server, server', i, t)
  <2>1. DOMAIN said = {"plan", "terse", "payload", "told", "over", "inOrder", "callsInOrder"}
    BY <1>2, <1>9 DEF ServerOK
  <2> QED BY <1>1, <1>8, <1>9, <1>10, <2>1, WhatSays DEF SaysMore
<1>12. ServerOK(server')
  BY <1>2, <1>11, SaysMoreOK
<1>13. ASSUME NEW event \in Event, event.type = "response.output_item.done",
              SameData(event.data, sent)
       PROVE  Tells(event, state, server')
  <2>1. /\ event.data.response = None /\ event.data.item = server.plan[i]
        /\ Named(event.data, i, server)
    BY <1>5, <1>7, <1>13 DEF SameData, Named
  <2> QED BY <1>2, <1>8, <1>11, <1>13, <2>1, DoneTells
<1>14. "response.output_item.done" \in STRING /\ decoder' = decoder
  BY StringAssumption DEF ItemEvents
<1>15. PICK event \in Event : Underway(event)' /\ Tells(event, state, server')
  BY <1>2, <1>4, <1>7, <1>13, <1>14, WhatSends DEF sent
<1> QED BY <1>1, <1>12, <1>15, ServerStepKeeps DEF CanSay

LEMMA MoreIsSayable ==
  ASSUME NEW s, ServerOK(s), NEW i \in DOMAIN s.plan, NEW part \in DOMAIN Texts(s.plan[i]),
         NEW all \in BOOLEAN, NEW t, MoreSent(s, i, part, all, t),
         DOMAIN t = DOMAIN s.told[i], t = [f \in DOMAIN t |-> t[f]]
  PROVE  Sayable(s.plan[i], t) /\ IsTold(t)
<1> DEFINE item  == s.plan[i]
           old   == s.told[i]
           texts == Texts(item)
           m     == IF all THEN Len(texts[part]) ELSE old.sent[part] + 1
<1>1. /\ texts \in Seq(Text) /\ Len(texts) \in Nat /\ DOMAIN texts = 1..Len(texts)
      /\ Sayable(item, old)
  BY ItemOfPlan DEF ServerOK
<1>2. /\ old \in [added : BOOLEAN, done : BOOLEAN, sent : [DOMAIN texts -> Nat]]
      /\ \A k \in DOMAIN texts : old.sent[k] <= Len(texts[k])
  BY <1>1 DEF Sayable
<1>3. PICK n \in 0..Len(texts) : Begun(item, old) = 1..n
  BY <1>1 DEF Sayable
<1>4. /\ old.sent[part] < Len(texts[part])
      /\ t.added = old.added /\ t.done = FALSE /\ t.sent = [old.sent EXCEPT ![part] = m]
  BY DEF MoreSent
<1>5. texts[part] \in Text /\ Len(texts[part]) \in Nat
  <2>1. texts[part] \in Text
    BY <1>1, ElementOfSeq
  <2> QED BY <2>1, LenProperties DEF Text
<1>6. m \in Nat /\ 0 < m /\ m <= Len(texts[part])
  BY <1>2, <1>4, <1>5
<1> HIDE DEF item, old, texts, m
<1>7. /\ t.sent \in [DOMAIN texts -> Nat] /\ t.sent[part] = m
      /\ \A k \in DOMAIN texts : k # part => t.sent[k] = old.sent[k]
  BY <1>2, <1>4, <1>6 DEF texts, item
<1>8. t \in [added : BOOLEAN, done : BOOLEAN, sent : [DOMAIN texts -> Nat]]
  <2>1. DOMAIN t = {"added", "done", "sent"}
    BY <1>2 DEF old
  <2> QED BY <1>2, <1>4, <1>7, <2>1
<1>9. \A k \in DOMAIN texts : t.sent[k] <= Len(texts[k])
  BY <1>2, <1>6, <1>7
<1>10. part \in DOMAIN texts
  BY DEF texts, item
<1>11. /\ Begun(item, t) = 1..(IF n < part THEN part ELSE n)
       /\ (IF n < part THEN part ELSE n) \in 1..Len(texts)
  <2>1. t.sent[part] > 0 /\ \A k \in DOMAIN Texts(item) : k # part => t.sent[k] = old.sent[k]
    BY <1>6, <1>7 DEF texts
  <2>2. Texts(item) \in Seq(Text) /\ n \in 0..Len(Texts(item)) /\ part \in DOMAIN Texts(item)
    BY <1>1, <1>10 DEF texts
  <2>3. /\ Begun(item, t) = 1..(IF n < part THEN part ELSE n)
        /\ (IF n < part THEN part ELSE n) \in 1..Len(Texts(item))
    BY <1>3, <2>1, <2>2, BegunGrows
  <2> QED BY <2>3 DEF texts
<1>12. \E k \in 0..Len(texts) : Begun(item, t) = 1..k
  BY <1>11
<1>13. Sayable(item, t)
  BY <1>8, <1>9, <1>12 DEF Sayable, texts
<1>14. IsTold(t)
  <2>1. part \in DOMAIN t.sent /\ t.sent[part] > 0
    BY <1>6, <1>7, <1>10
  <2> QED BY <2>1 DEF IsTold
<1> QED BY <1>13, <1>14 DEF item

LEMMA SpeakKeeps ==
  ASSUME ProtocolInv, NEW i \in DOMAIN server.plan, NEW part \in DOMAIN Texts(server.plan[i]),
         Speak(i, part), UNCHANGED <<stream, decoder, state, heard, chat>>
  PROVE  ProtocolInv'
<1> DEFINE item == server.plan[i]
           old  == server.told[i]
           text == Texts(item)[part]
           n    == old.sent[part]
<1>1. CanSay /\ ~old.done /\ n < Len(text) /\ (old.added \/ server.terse)
  BY DEF Speak
<1>2. /\ ServerOK(server) /\ ~server.over /\ At(None, <<>>, <<>>)
      /\ Follows(state, server) /\ DOMAIN state = {"payload", "items", "final", "error"}
  BY <1>1, BeforeSpeaking
<1>3. Sayable(item, old) /\ IsOutput(server.plan)
  BY <1>2 DEF ServerOK
<1>4. PICK all \in BOOLEAN, naming \in Naming(i) :
        /\ Says([server EXCEPT !.told[i].sent[part] = IF all THEN Len(text) ELSE n + 1])
        /\ Send(TextEvent(item, all),
                [naming EXCEPT !.part = IF item.type = "message" THEN part - 1 ELSE None,
                               !.value = IF all THEN text ELSE <<text[n + 1]>>])
  BY DEF Speak
<1> DEFINE m == IF all THEN Len(text) ELSE n + 1
           t == [old EXCEPT !.sent = [@ EXCEPT ![part] = m]]
           said == [server EXCEPT !.told[i].sent[part] = m]
           place == IF item.type = "message" THEN part - 1 ELSE None
           value == IF all THEN text ELSE <<text[n + 1]>>
           data == [naming EXCEPT !.part = place, !.value = value]
<1>5. Says(said) /\ Send(TextEvent(item, all), data)
  BY <1>4
<1>6. naming \in Data /\ Named(naming, i, server) /\ naming.response = None
  BY <1>2, NamingIs
<1>7. /\ Texts(item) \in Seq(Text) /\ DOMAIN Texts(item) = 1..Len(Texts(item))
      /\ Len(Texts(item)) \in Nat /\ item.type \in {"message", "function_call"}
  BY <1>3, ItemOfPlan
<1>8. place \in Int \cup {None} /\ value \in Text
  <2>1. part \in Int
    BY <1>7
  <2>2. text \in Text
    BY <1>7, ElementOfSeq
  <2>3. old.sent \in [DOMAIN Texts(item) -> Nat]
    BY <1>3 DEF Sayable
  <2>4. text \in Seq(Nat) /\ Len(text) \in Nat
    BY <2>2, LenProperties DEF Text
  <2>5. n + 1 \in 1..Len(text)
    BY <1>1, <2>3, <2>4
  <2>6. <<text[n + 1]>> \in Text
    BY <2>4, <2>5, ElementOfSeq DEF Text
  <2> QED BY <2>1, <2>2, <2>6
<1>9. /\ data \in Data /\ data.part = place /\ data.value = value
      /\ data.index = naming.index /\ data.id = naming.id /\ data.response = None
  <2> HIDE DEF place, value
  <2> QED BY <1>6, <1>8 DEF Data
<1>10. /\ t.added = old.added /\ t.done = FALSE /\ t.sent = [old.sent EXCEPT ![part] = m]
       /\ DOMAIN t = DOMAIN old /\ t = [f \in DOMAIN t |-> t[f]]
  <2> HIDE DEF m
  <2> QED BY <1>1, <1>3 DEF Sayable
<1>11. /\ said.told = [server.told EXCEPT ![i] = t]
       /\ DOMAIN said = DOMAIN server /\ said.plan = server.plan /\ said.terse = server.terse
       /\ said.payload = server.payload /\ said.over = server.over
  <2> HIDE DEF m
  <2> QED BY <1>2, <1>3 DEF ServerOK, Sayable
<1>12. MoreSent(server, i, part, all, t)
  <2> HIDE DEF t
  <2> QED BY <1>1, <1>10 DEF MoreSent
<1> HIDE DEF t, said, data
<1>13. Sayable(item, t) /\ IsTold(t)
  BY <1>2, <1>10, <1>12, MoreIsSayable
<1>14. SaysMore(server, server', i, t)
  <2>1. DOMAIN said = {"plan", "terse", "payload", "told", "over", "inOrder", "callsInOrder"}
    BY <1>2, <1>11 DEF ServerOK
  <2> QED BY <1>1, <1>5, <1>10, <1>11, <1>13, <2>1, WhatSays DEF SaysMore
<1>15. ServerOK(server')
  BY <1>2, <1>14, SaysMoreOK
<1>16. ASSUME NEW event \in Event, event.type = TextEvent(item, all), SameData(event.data, data)
       PROVE  Tells(event, state, server')
  <2>1. /\ event.data.response = None /\ Named(event.data, i, server)
        /\ Carries(event.data, server, i, part, all)
    BY <1>6, <1>9, <1>16 DEF SameData, Named, Carries
  <2> QED BY <1>2, <1>12, <1>14, <1>16, <2>1, SpokenTells
<1>17. TextEvent(item, all) \in STRING /\ decoder' = decoder
  BY <1>7, StringAssumption DEF TextEvent, TextEvents, ArgumentEvents
<1>18. PICK event \in Event : Underway(event)' /\ Tells(event, state, server')
  BY <1>2, <1>5, <1>9, <1>16, <1>17, WhatSends
<1> QED BY <1>1, <1>15, <1>18, ServerStepKeeps DEF CanSay

(* The last event: server' is over, and says the same of its items, or     *)
(* that all of them are done.                                              *)
LEMMA EndKeeps ==
  ASSUME ProtocolInv, CanSay, UNCHANGED <<stream, decoder, state, heard, chat>>,
         NEW now \in ResponseHead, now.model # None, now.status # None,
         NEW output, NEW said, Says(said), said.over = TRUE, said.payload = now,
         DOMAIN said = {"plan", "terse", "payload", "told", "over", "inOrder", "callsInOrder"},
         said.plan = server.plan, said.terse = server.terse,
         DOMAIN said.told = DOMAIN server.told,
         \A i \in DOMAIN server.plan : Sayable(server.plan[i], said.told[i]),
         \/ output = None /\ said.told = server.told
         \/ output = None /\ \A i \in DOMAIN server.plan :
                                server.told[i].done /\ said.told[i].done
         \/ output = server.plan /\ \A i \in DOMAIN server.plan : said.told[i].done,
         NEW type \in STRING, Send(type, [NoData EXCEPT !.response = WithOutput(now, output)]),
         \/ type \in {"response.completed", "response.done"} /\ now.status = "completed"
         \/ type \in {"response.incomplete", "response.done"} /\ now.status = "incomplete"
         \/ type \in {"response.failed", "response.done", "error"}
              /\ now.status \notin {"completed", "incomplete"}
  PROVE  ProtocolInv'
<1> DEFINE response == WithOutput(now, output)
           data == [NoData EXCEPT !.response = response]
<1>1. /\ ServerOK(server) /\ ~server.over /\ At(None, <<>>, <<>>)
      /\ Follows(state, server) /\ DOMAIN state = {"payload", "items", "final", "error"}
  BY BeforeSpeaking
<1>2. response \in ResponseRecord
  <2>1. output \in Seq(Item) \cup {None}
    BY <1>1 DEF ServerOK, IsOutput
  <2> QED BY <2>1 DEF ResponseHead, WithOutput, ResponseRecord
<1>3. data \in Data /\ data.response = response /\ data.index = None
  <2> HIDE DEF response
  <2> QED BY <1>2, NoDataIsData DEF Data, NoData
<1>4. /\ DOMAIN server' = {"plan", "terse", "payload", "told", "over", "inOrder", "callsInOrder"}
      /\ server'.plan = server.plan /\ server'.terse = server.terse /\ server'.payload = now
      /\ server'.told = said.told /\ server'.over = TRUE
  BY WhatSays
<1>5. ServerOK(server')
  BY <1>1, <1>4 DEF ServerOK
<1>6. \/ output \in {None, <<>>} /\ ItemsTold(server') = ItemsTold(server)
      \/ output = server.plan /\ \A i \in DOMAIN server.plan : server'.told[i].done
  <2>1. CASE output = None /\ said.told = server.told
    BY <1>4, <2>1 DEF ItemsTold
  <2>2. CASE /\ output = None
             /\ \A i \in DOMAIN server.plan : server.told[i].done /\ said.told[i].done
    <3>1. ItemsTold(server) = [i \in 0..(Len(server.plan) - 1) |-> server.plan[i + 1]]
      BY <1>1, <2>2, AllTold
    <3>2. ItemsTold(server') = [i \in 0..(Len(server'.plan) - 1) |-> server'.plan[i + 1]]
      BY <1>4, <1>5, <2>2, AllTold
    <3> QED BY <1>4, <2>2, <3>1, <3>2
  <2>3. CASE output = server.plan /\ \A i \in DOMAIN server.plan : said.told[i].done
    BY <1>4, <2>3
  <2> QED BY <2>1, <2>2, <2>3
<1>7. Follows(Absorb(state, response), server')
      /\ DOMAIN Absorb(state, response) = {"payload", "items", "final", "error"}
  BY <1>1, <1>4, <1>5, <1>6, AbsorbFollows
<1> HIDE DEF response, data
<1>8. ASSUME NEW event \in Event, event.type = type, SameData(event.data, data)
      PROVE  Tells(event, state, server')
  <2>1. event.data.response = response /\ event.data.index = None
    BY <1>3, <1>8 DEF SameData
  <2>2. server'.payload.status = now.status
    BY <1>4
  <2> QED BY <1>4, <1>5, <1>7, <1>8, <2>1, <2>2, EndTells
<1>9. Send(type, data) /\ decoder' = decoder
  BY DEF data, response
<1>10. PICK event \in Event : Underway(event)' /\ Tells(event, state, server')
  BY <1>1, <1>3, <1>8, <1>9, WhatSends
<1> QED BY <1>5, <1>10, ServerStepKeeps DEF CanSay

LEMMA FinishedKeeps ==
  ASSUME ProtocolInv, Finished, UNCHANGED <<stream, decoder, state, heard, chat>>
  PROVE  ProtocolInv'
<1> DEFINE now == [model |-> Model, status |-> "completed", reason |-> None]
           said == [server EXCEPT !.payload = now, !.over = TRUE,
                      !.told = [i \in DOMAIN @ |-> [@[i] EXCEPT !.done = TRUE]]]
<1>1. CanSay
  BY DEF Finished
<1>2. PICK type \in {"response.completed", "response.done"}, whole \in BOOLEAN :
        /\ whole \/ \A i \in DOMAIN server.plan : server.told[i].done
        /\ Says(said)
        /\ Send(type, [NoData EXCEPT !.response =
                         WithOutput(now, IF whole THEN server.plan ELSE None)])
  BY DEF Finished
<1>3. ServerOK(server)
  BY <1>1, BeforeSpeaking
<1>4. now \in ResponseHead /\ now.model # None /\ now.status # None /\ now.status = "completed"
  BY PlanAssumption, StringAssumption, StringsAreNotNone DEF ResponseHead
<1> DEFINE told == [i \in DOMAIN server.told |-> [server.told[i] EXCEPT !.done = TRUE]]
<1>5. /\ DOMAIN said = {"plan", "terse", "payload", "told", "over", "inOrder", "callsInOrder"}
      /\ said.plan = server.plan /\ said.terse = server.terse /\ said.payload = now
      /\ said.over = TRUE /\ said.told = told
  <2> HIDE DEF now
  <2> QED BY <1>3 DEF ServerOK
<1>6. \A i \in DOMAIN server.plan : Sayable(server.plan[i], told[i]) /\ told[i].done
  <2>1. ASSUME NEW i \in DOMAIN server.plan
        PROVE  Sayable(server.plan[i], told[i]) /\ told[i].done
    <3> DEFINE item == server.plan[i]
               old == server.told[i]
               t == [old EXCEPT !.done = TRUE]
    <3>1. Sayable(item, old) /\ told[i] = t
      BY <1>3 DEF ServerOK
    <3>2. /\ t \in [added : BOOLEAN, done : BOOLEAN, sent : [DOMAIN Texts(item) -> Nat]]
          /\ t.done = TRUE /\ t.sent = old.sent
      BY <3>1 DEF Sayable
    <3> HIDE DEF t, told
    <3>3. Sayable(item, t)
      BY <3>1, <3>2 DEF Sayable, Begun
    <3> QED BY <3>1, <3>2, <3>3
  <2> QED BY <2>1
<1>7. DOMAIN told = DOMAIN server.told
  OBVIOUS
<1> HIDE DEF now, said, told
<1>8. type \in STRING
  BY StringAssumption DEF Terminal
<1> DEFINE output == IF whole THEN server.plan ELSE None
<1>9. \/ output = None /\ \A i \in DOMAIN server.plan :
                             server.told[i].done /\ said.told[i].done
      \/ output = server.plan /\ \A i \in DOMAIN server.plan : said.told[i].done
  BY <1>2, <1>5, <1>6
<1>10. Send(type, [NoData EXCEPT !.response = WithOutput(now, output)]) /\ Says(said)
  BY <1>2
<1> HIDE DEF output
<1>11. \A i \in DOMAIN server.plan : Sayable(server.plan[i], said.told[i])
  BY <1>5, <1>6
<1>12. DOMAIN said.told = DOMAIN server.told
  BY <1>5, <1>7
<1> QED BY <1>1, <1>4, <1>5, <1>8, <1>9, <1>10, <1>11, <1>12, EndKeeps

LEMMA UnfinishedKeeps ==
  ASSUME ProtocolInv, Unfinished, UNCHANGED <<stream, decoder, state, heard, chat>>
  PROVE  ProtocolInv'
<1>1. CanSay
  BY DEF Unfinished
<1>2. ServerOK(server)
  BY <1>1, BeforeSpeaking
<1>3. ASSUME NEW type \in STRING, NEW status \in STRING, NEW reason \in STRING \cup {None},
             Says([server EXCEPT !.payload = [model |-> Model, status |-> status, reason |-> reason],
                                 !.over = TRUE]),
             Send(type, [NoData EXCEPT !.response =
                 WithOutput([model |-> Model, status |-> status, reason |-> reason], None)]),
             \/ type \in {"response.incomplete", "response.done"} /\ status = "incomplete"
             \/ type \in {"response.failed", "response.done"}
                  /\ status \notin {"completed", "incomplete"}
      PROVE  ProtocolInv'
  <2> DEFINE now == [model |-> Model, status |-> status, reason |-> reason]
             said == [server EXCEPT !.payload = now, !.over = TRUE]
  <2>1. now \in ResponseHead /\ now.model # None /\ now.status # None /\ now.status = status
    BY PlanAssumption, StringsAreNotNone DEF ResponseHead
  <2>2. /\ DOMAIN said = {"plan", "terse", "payload", "told", "over", "inOrder", "callsInOrder"}
        /\ said.plan = server.plan /\ said.terse = server.terse /\ said.payload = now
        /\ said.over = TRUE /\ said.told = server.told
    <3> HIDE DEF now
    <3> QED BY <1>2 DEF ServerOK
  <2>3. \A i \in DOMAIN server.plan : Sayable(server.plan[i], said.told[i])
    BY <1>2, <2>2 DEF ServerOK
  <2>4. Says(said) /\ Send(type, [NoData EXCEPT !.response = WithOutput(now, None)])
    BY <1>3
  <2> HIDE DEF now, said
  <2> QED BY <1>1, <1>3, <2>1, <2>2, <2>3, <2>4, EndKeeps
<1>4. PICK end \in {<<"response.incomplete", "incomplete", "max_output_tokens">>,
                    <<"response.done", "incomplete", "content_filter">>,
                    <<"response.incomplete", "incomplete", "other">>,
                    <<"response.failed", "failed", None>>,
                    <<"response.done", "cancelled", None>>} :
        /\ Says([server EXCEPT !.payload = [model |-> Model, status |-> end[2], reason |-> end[3]],
                               !.over = TRUE])
        /\ Send(end[1], [NoData EXCEPT !.response =
               WithOutput([model |-> Model, status |-> end[2], reason |-> end[3]], None)])
  BY DEF Unfinished
<1>5. end[1] \in STRING /\ end[2] \in STRING /\ end[3] \in STRING \cup {None}
  <2> DEFINE types == {"response.incomplete", "response.done", "response.failed"}
             statuses == {"incomplete", "failed", "cancelled"}
             reasons == {"max_output_tokens", "content_filter", "other", None}
  <2>1. types \subseteq STRING /\ statuses \subseteq STRING /\ reasons \subseteq STRING \cup {None}
    BY StringAssumption DEF Terminal
  <2>2. end[1] \in types /\ end[2] \in statuses /\ end[3] \in reasons
    OBVIOUS
  <2> HIDE DEF types, statuses, reasons
  <2> QED BY <2>1, <2>2
<1>6. \/ end[1] \in {"response.incomplete", "response.done"} /\ end[2] = "incomplete"
      \/ end[1] \in {"response.failed", "response.done"}
           /\ end[2] \notin {"completed", "incomplete"}
  OBVIOUS
<1> QED BY <1>3, <1>4, <1>5, <1>6

(* No more is said of the items, and nothing will be.                      *)
LEMMA NoMoreIsSaid ==
  ASSUME NEW s, ServerOK(s), NEW s2, s2 = [s EXCEPT !.over = TRUE]
  PROVE  /\ ServerOK(s2) /\ s2.over /\ s2.plan = s.plan /\ s2.told = s.told
         /\ s2.payload = s.payload /\ ItemsTold(s2) = ItemsTold(s) /\ Account(s2) = Account(s)
         /\ \A st : Follows(st, s) => Follows(st, s2)
         /\ ~s.over => s.payload.status \notin {"completed", "incomplete", "failed", "cancelled"}
<1>1. /\ DOMAIN s2 = {"plan", "terse", "payload", "told", "over", "inOrder", "callsInOrder"}
      /\ s2.over = TRUE /\ s2.plan = s.plan /\ s2.told = s.told /\ s2.payload = s.payload
      /\ s2.terse = s.terse
  BY DEF ServerOK
<1>2. ServerOK(s2)
  BY <1>1 DEF ServerOK
<1>3. ItemsTold(s2) = ItemsTold(s)
  BY <1>1 DEF ItemsTold
<1>4. Account(s2) = Account(s) /\ \A st : Follows(st, s) => Follows(st, s2)
  BY <1>1, <1>3 DEF Account, Follows
<1>5. ASSUME ~s.over
      PROVE  s.payload.status \notin {"completed", "incomplete", "failed", "cancelled"}
  <2>1. s.payload.status \in {None, "in_progress"}
    BY <1>5 DEF ServerOK, NoResponse
  <2> QED BY <2>1, StringsAreNotNone
<1> QED BY <1>1, <1>2, <1>3, <1>4, <1>5

LEMMA NonsenseKeeps ==
  ASSUME ProtocolInv, Nonsense, UNCHANGED <<stream, decoder, state, heard, chat>>
  PROVE  ProtocolInv'
<1>1. CanSay
  BY DEF Nonsense
<1>2. /\ ServerOK(server) /\ ~server.over /\ At(None, <<>>, <<>>)
      /\ Follows(state, server) /\ DOMAIN state = {"payload", "items", "final", "error"}
  BY <1>1, BeforeSpeaking
<1>3. /\ ServerOK(server') /\ server'.over /\ server'.plan = server.plan
      /\ server'.told = server.told /\ server'.payload = server.payload
      /\ ItemsTold(server') = ItemsTold(server) /\ Follows(state, server')
      /\ server.payload.status \notin {"completed", "incomplete", "failed", "cancelled"}
  BY <1>2, NoMoreIsSaid DEF Nonsense
<1>4. ASSUME NEW event \in Event, Underway(event)', Tells(event, state, server')
      PROVE  ProtocolInv'
  BY <1>1, <1>3, <1>4, ServerStepKeeps DEF CanSay
<1>5. ASSUME NEW type \in STRING, NEW data \in Data, data.response = None,
             wire' = <<EventLine(type), DataLine(data, "whole"), Blank>>,
             \A event \in Event : event.type = type /\ event.data = data =>
               Tells(event, state, server')
      PROVE  ProtocolInv'
  <2> DEFINE event == [type |-> type, data |-> data]
  <2>1. event \in Event /\ event.type = type /\ event.data = data
    BY DEF Event
  <2> HIDE DEF event
  <2>2. Underway(event)'
    BY <1>2, <1>5, <2>1 DEF Underway, At
  <2> QED BY <1>4, <1>5, <2>1, <2>2
<1>6. Absorb(state, None) = state
  BY DEF Absorb
<1>7. CASE wire' = <<EventLine("error"), DataLine(NoData, "whole"), Blank>>
  <2>1. ASSUME NEW event \in Event, event.type = "error", event.data = NoData
        PROVE  Tells(event, state, server')
    <3>1. Absorb(state, event.data.response) = state /\ event.data.index = None
      BY <1>6, <2>1, NoDataIsData
    <3> QED BY <1>2, <1>3, <2>1, <3>1, EndTells
  <2>2. "error" \in STRING
    BY StringAssumption
  <2>3. NoData \in Data /\ NoData.response = None
    BY NoDataIsData
  <2> QED BY <1>5, <1>7, <2>1, <2>2, <2>3
<1>8. CASE wire' = <<EventLine("response.done"), DataLine(NoData, "whole"), Blank>>
  <2>1. ASSUME NEW event \in Event, event.type = "response.done", event.data = NoData
        PROVE  Tells(event, state, server')
    <3>1. Absorb(state, event.data.response) = state /\ event.data.index = None
      BY <1>6, <2>1, NoDataIsData
    <3> QED BY <1>2, <1>3, <2>1, <3>1, EndTells
  <2>2. "response.done" \in STRING
    BY StringAssumption
  <2>3. NoData \in Data /\ NoData.response = None
    BY NoDataIsData
  <2> QED BY <1>5, <1>8, <2>1, <2>2, <2>3
<1>9. CASE wire' = <<DoneMark, Blank>>
  <2> DEFINE event == EventFromParts(None, <<DoneMark>>)
  <2>1. event = [type |-> "done", data |-> NoData]
    BY DEF EventFromParts
  <2> HIDE DEF event
  <2>2. event \in Event /\ event.data.response = None /\ event.type = "done"
    BY <2>1, NoDataIsData, StringAssumption DEF Event
  <2>3. Tells(event, state, server')
    BY <1>2, <1>3, <2>2, MarkTells
  <2>4. Underway(event)'
    BY <1>2, <1>9 DEF Underway, At, event
  <2> QED BY <1>4, <2>2, <2>3, <2>4
<1>10. CASE wire' = <<DataLine(NoData, "second"), Blank>>
  <2> DEFINE event == EventFromParts(None, <<DataLine(NoData, "second")>>)
  <2>1. event = ProtocolError
    BY NoDataIsData, LinesAreParsed, DoneMarkIsNoData DEF EventFromParts
  <2> HIDE DEF event
  <2>2. event \in Event
    BY <2>1, NoDataIsData, StringAssumption DEF Event, ProtocolError
  <2>3. Tells(event, state, server')
    BY <2>1 DEF Tells
  <2>4. Underway(event)'
    BY <1>2, <1>10 DEF Underway, At, event
  <2> QED BY <1>4, <2>2, <2>3, <2>4
<1>11. CASE wire' = <<EventLine("response.output_item.done"),
                      DataLine([NoData EXCEPT !.index = -1], "whole"), Blank>>
  <2> DEFINE data == [NoData EXCEPT !.index = -1]
             after == [state EXCEPT !.items = ItemsTold(server')]
  <2>1. data \in Data /\ data.response = None /\ data.index = -1
    BY NoDataIsData DEF Data, NoData
  <2> HIDE DEF data, after
  <2>2. after = [state EXCEPT !.items = ItemsTold(server')]
    BY DEF after
  <2>3. data.index # None /\ data.index < 0
    BY <2>1, NoneAssumption
  <2>4. "response.output_item.done" \in ItemEvents
    BY DEF ItemEvents
  <2>5. ASSUME NEW event \in Event, event.type = "response.output_item.done", event.data = data
        PROVE  Tells(event, state, server')
    BY <1>2, <1>3, <2>1, <2>2, <2>3, <2>4, <2>5, RefusedTells
  <2>6. wire' = <<EventLine("response.output_item.done"), DataLine(data, "whole"), Blank>>
    BY <1>11 DEF data
  <2> QED BY <1>5, <2>1, <2>4, <2>5, <2>6, StringAssumption
<1>12. CASE \E i \in DOMAIN server.plan : \E part \in DOMAIN Texts(server.plan[i]) :
             /\ server.told[i].sent[part] > 0
             /\ wire' = <<EventLine(TextEvent(server.plan[i], FALSE)),
                          DataLine([NoData EXCEPT !.index = i - 1, !.part = part - 1,
                                                  !.value = NotText], "whole"), Blank>>
  <2>0. PICK i \in DOMAIN server.plan : \E part \in DOMAIN Texts(server.plan[i]) :
             /\ server.told[i].sent[part] > 0
             /\ wire' = <<EventLine(TextEvent(server.plan[i], FALSE)),
                          DataLine([NoData EXCEPT !.index = i - 1, !.part = part - 1,
                                                  !.value = NotText], "whole"), Blank>>
    BY <1>12
  <2>1. PICK part \in DOMAIN Texts(server.plan[i]) :
             /\ server.told[i].sent[part] > 0
             /\ wire' = <<EventLine(TextEvent(server.plan[i], FALSE)),
                          DataLine([NoData EXCEPT !.index = i - 1, !.part = part - 1,
                                                  !.value = NotText], "whole"), Blank>>
    BY <2>0
  <2> DEFINE data == [NoData EXCEPT !.index = i - 1, !.part = part - 1, !.value = NotText]
             type == TextEvent(server.plan[i], FALSE)
  <2>2. i \in Nat /\ part \in Nat /\ server.plan[i].type \in {"message", "function_call"}
    <3>1. IsOutput(server.plan) /\ DOMAIN server.plan = 1..Len(server.plan)
          /\ Len(server.plan) \in Nat
      BY <1>2, ItemsToldAt DEF ServerOK
    <3>2. /\ DOMAIN Texts(server.plan[i]) = 1..Len(Texts(server.plan[i]))
          /\ Len(Texts(server.plan[i])) \in Nat
          /\ server.plan[i].type \notin {"message", "function_call"} =>
               Texts(server.plan[i]) = <<>>
      BY <3>1, ItemOfPlan
    <3>3. DOMAIN Texts(server.plan[i]) # {}
      OBVIOUS
    <3>4. Texts(server.plan[i]) # <<>>
      BY <3>3
    <3> QED BY <3>1, <3>2, <3>4
  <2>3. /\ data \in Data /\ data.response = None /\ data.index = i - 1 /\ data.id = None
        /\ data.part = part - 1 /\ data.value = NotText
    <3>1. PICK index \in Int, place \in Int : index = i - 1 /\ place = part - 1
      BY <2>2
    <3>2. data = [NoData EXCEPT !.index = index, !.part = place, !.value = NotText]
      BY <3>1
    <3> HIDE DEF data
    <3>3. /\ data \in Data /\ data.response = NoData.response /\ data.id = NoData.id
          /\ data.index = index /\ data.part = place /\ data.value = NotText
      BY <3>2, NoDataIsData DEF Data
    <3> QED BY <3>1, <3>3, NoDataIsData
  <2> HIDE DEF data
  <2>4. Target(state, data) = i - 1
    BY <1>2, <2>3, TargetFound DEF Named
  <2>5. \/ server.plan[i].type = "message" /\ type \in TextEvents
        \/ server.plan[i].type = "function_call" /\ type \in ArgumentEvents
    BY <2>2 DEF TextEvent, TextEvents, ArgumentEvents
  <2> HIDE DEF type
  <2>6. IsTold(server.told[i])
    BY <1>2, <2>1 DEF ServerOK, Sayable, IsTold
  <2>7. state.items = ItemsTold(server)
    BY <1>2 DEF Follows
  <2>8. PICK after : /\ Applied(state, type, data) = Failure(after, "protocol")
                     /\ after = [state EXCEPT !.items = ItemsTold(server')]
    <3>1. CASE server.plan[i].type = "message" /\ type \in TextEvents
      BY <1>2, <1>3, <2>1, <2>3, <2>4, <2>7, <3>1, TextRefused, AppliedIs
    <3>2. CASE server.plan[i].type = "function_call" /\ type \in ArgumentEvents
      BY <1>2, <1>3, <2>3, <2>4, <2>6, <2>7, <3>2, ArgumentsRefused, AppliedIs
    <3> QED BY <2>5, <3>1, <3>2
  <2>9. ASSUME NEW event \in Event, event.type = type, event.data = data
        PROVE  Tells(event, state, server')
    BY <1>2, <1>3, <2>3, <2>5, <2>8, <2>9, RefusedTells
  <2>10. type \in STRING /\ wire' = <<EventLine(type), DataLine(data, "whole"), Blank>>
    BY <2>1, <2>5, StringAssumption DEF data, type
  <2> QED BY <1>5, <2>3, <2>9, <2>10
<1> QED BY <1>7, <1>8, <1>9, <1>10, <1>11, <1>12 DEF Nonsense

(* The end of an event under way is missing.                               *)
LEMMA HangUpKeeps ==
  ASSUME ProtocolInv, HangUp
  PROVE  ProtocolInv'
<1>1. /\ ServerOK(server) /\ stream.pc = "reading" /\ InFlight
      /\ UNCHANGED <<stream, decoder, state, heard, chat>>
      /\ wire' = <<>> /\ (wire # <<>> \/ ~server.over)
  BY DEF ProtocolInv, HangUp
<1>2. /\ ServerOK(server') /\ server'.over /\ Account(server') = Account(server)
      /\ \A st : Follows(st, server) => Follows(st, server')
  BY <1>1, NoMoreIsSaid DEF HangUp
<1>3. StreamOK' /\ Settled(state, heard)' /\ OpenUntilOutcome'
  BY <1>1 DEF ProtocolInv, StreamOK, OpenUntilOutcome
<1> SUFFICES InFlight'
  BY <1>2, <1>3 DEF ProtocolInv
<1>4. CASE At(None, <<>>, <<>>)
  <2>1. At(None, <<>>, <<>>)'
    BY <1>1, <1>4 DEF At
  <2> QED BY <1>2, <2>1 DEF InFlight
<1>5. ASSUME NEW event, Tells(event, state, server)
      PROVE  Tells(event, state, server')
  BY <1>2, <1>5 DEF Tells
<1>6. CASE /\ wire = <<>> /\ server.over
           /\ Flush(decoder).event # None =>
                Flush(decoder).event \in Event /\ Tells(Flush(decoder).event, state, server)
  BY <1>1, <1>6
<1>7. CASE \E event \in Event : Underway(event) /\ Tells(event, state, server)
  <2>1. PICK event \in Event : Underway(event) /\ Tells(event, state, server)
    BY <1>7
  <2>2. Flush(decoder).event \in {None, ProtocolError, event}
    BY <2>1, LinesAreMissing
  <2>3. ProtocolError \in Event /\ Tells(ProtocolError, state, server')
    BY NoDataIsData, StringAssumption DEF Event, ProtocolError, Tells
  <2>4. Flush(decoder).event # None =>
          Flush(decoder).event \in Event /\ Tells(Flush(decoder).event, state, server')
    BY <1>5, <2>1, <2>2, <2>3
  <2>5. Flush(decoder') = Flush(decoder) /\ state' = state /\ stream'.pc = "reading"
    BY <1>1
  <2>6. (Flush(decoder).event # None =>
           Flush(decoder).event \in Event /\ Tells(Flush(decoder).event, state, server))'
    BY <2>4, <2>5
  <2> QED BY <1>1, <1>2, <2>5, <2>6 DEF InFlight
<1> QED BY <1>1, <1>4, <1>6, <1>7 DEF InFlight

LEMMA ServerKeeps ==
  ASSUME ProtocolInv, ServerStep
  PROVE  ProtocolInv'
<1>1. UNCHANGED <<stream, decoder, state, heard, chat>>
  BY DEF ServerStep
<1>2. CASE Created
  BY <1>1, <1>2, CreatedKeeps
<1>3. CASE Finished
  BY <1>1, <1>3, FinishedKeeps
<1>4. CASE Unfinished
  BY <1>1, <1>4, UnfinishedKeeps
<1>5. CASE Nonsense
  BY <1>1, <1>5, NonsenseKeeps
<1>6. ASSUME NEW i \in DOMAIN server.plan, Added(i)
      PROVE  ProtocolInv'
  BY <1>1, <1>6, AddedKeeps
<1>7. ASSUME NEW i \in DOMAIN server.plan, Done(i)
      PROVE  ProtocolInv'
  BY <1>1, <1>7, DoneKeeps
<1>8. ASSUME NEW i \in DOMAIN server.plan, NEW part \in DOMAIN Texts(server.plan[i]),
             Speak(i, part)
      PROVE  ProtocolInv'
  BY <1>1, <1>8, SpeakKeeps
<1> QED BY <1>2, <1>3, <1>4, <1>5, <1>6, <1>7, <1>8 DEF ServerStep

-----------------------------------------------------------------------------
(* The steps of the stream and of its consumer                             *)

(* A failure ends a response that has no outcome, and keeps what it shows. *)
LEMMA FailureSettled ==
  ASSUME NEW st, NEW h, Settled(st, h), ~IsTerminal(st), NEW kind \in STRING
  PROVE  Settled(Failure(st, kind), h)
<1> DEFINE failed == [kind |-> kind, partial |-> h]
           after == [st EXCEPT !.error = failed]
<1>1. /\ DOMAIN st = {"payload", "items", "final", "error"} /\ h \in ResponseRecord
      /\ Snapshot(st) = h /\ st.final = None /\ h.status \notin {"completed", "incomplete"}
  BY DEF Settled, IsTerminal
<1>2. failed \in Failed
  BY <1>1 DEF Failed
<1>3. Failure(st, kind) = after
  BY <1>1 DEF Failure
<1> HIDE DEF failed
<1>4. /\ DOMAIN after = {"payload", "items", "final", "error"}
      /\ after.payload = st.payload /\ after.items = st.items /\ after.final = None
      /\ after.error = failed
  BY <1>1
<1>5. Snapshot(after) = h
  BY <1>1, <1>4 DEF Snapshot
<1>6. failed.partial = h
  BY DEF failed
<1> HIDE DEF after
<1>7. Settled(after, h)
  BY <1>1, <1>2, <1>4, <1>5, <1>6 DEF Settled, IsTerminal
<1> QED BY <1>3, <1>7

LEMMA OverIs ==
  ASSUME StreamOK
  PROVE  Over \in [pc : {"over"}, open : {FALSE}, left : BOOLEAN]
BY DEF StreamOK, Over

(* Once the stream is over and closed, that it is settled is all there is. *)
LEMMA ClosedKeeps ==
  ASSUME ServerOK(server'), stream' \in [pc : {"over"}, open : {FALSE}, left : BOOLEAN],
         Settled(state', heard')
  PROVE  ProtocolInv'
BY DEF ProtocolInv, StreamOK, OpenUntilOutcome

LEMMA FailureKeeps ==
  ASSUME ProtocolInv, stream.pc = "reading", NEW kind \in STRING, Raised(Failure(state, kind)),
         UNCHANGED <<server, heard>>
  PROVE  ProtocolInv'
<1>1. /\ StreamOK /\ ServerOK(server') /\ Settled(state, heard) /\ ~IsTerminal(state)
      /\ heard' = heard
  BY DEF ProtocolInv, OpenUntilOutcome
<1>2. state' = Failure(state, kind) /\ stream' = Over
  BY DEF Raised
<1>3. Settled(state', heard')
  BY <1>1, <1>2, FailureSettled
<1> QED BY <1>1, <1>2, <1>3, OverIs, ClosedKeeps

(* The event that has been decoded tells what the server has said.         *)
LEMMA HandleKeeps ==
  ASSUME ProtocolInv, stream.pc = "reading", NEW event, Tells(event, state, server),
         Handle(event), UNCHANGED server, At(None, <<>>, <<>>)'
  PROVE  ProtocolInv'
<1> DEFINE recorded == Record(state, event)
<1>1. StreamOK /\ ServerOK(server')
  BY DEF ProtocolInv
<1>2. CASE event = ProtocolError
  <2>1. "protocol" \in STRING
    BY StringAssumption
  <2> QED BY <1>2, <2>1, FailureKeeps DEF Handle
<1>3. CASE event # ProtocolError
  <2>1. /\ Settled(recorded.state, Account(server))
        /\ recorded.state.error = None =>
             (recorded.type \in Terminal) = IsTerminal(recorded.state)
        /\ ~server.over => Follows(recorded.state, server)
    BY <1>3 DEF Tells
  <2>2. /\ heard' = Account(server)
        /\ IF recorded.state.error # None THEN Raised(recorded.state)
           ELSE /\ state' = recorded.state
                /\ Yield(recorded.type, Snapshot(recorded.state))
    BY <1>3 DEF Handle
  <2> HIDE DEF recorded
  <2>3. state' = recorded.state
    BY <2>2 DEF Raised
  <2>4. Settled(state', heard')
    BY <2>1, <2>2, <2>3
  <2>5. CASE stream' = Over
    BY <1>1, <2>4, <2>5, OverIs, ClosedKeeps
  <2>6. CASE stream' # Over
    <3>1. /\ stream' = [stream EXCEPT !.pc = "yielded", !.open = recorded.type \notin Terminal]
          /\ recorded.state.error = None
      BY <2>2, <2>6 DEF Raised, Yield
    <3>2. /\ stream'.pc = "yielded" /\ stream'.open = (recorded.type \notin Terminal)
          /\ StreamOK'
      BY <1>1, <3>1 DEF StreamOK
    <3>3. OpenUntilOutcome'
      BY <2>1, <2>3, <3>1, <3>2 DEF OpenUntilOutcome
    <3>4. InFlight'
      BY <2>1, <2>3 DEF InFlight
    <3> QED BY <1>1, <2>4, <3>2, <3>3, <3>4 DEF ProtocolInv
  <2> QED BY <2>5, <2>6
<1> QED BY <1>2, <1>3

LEMMA ReadLineKeeps ==
  ASSUME ProtocolInv, ReadLine
  PROVE  ProtocolInv'
<1> DEFINE fed == FeedLine(decoder, Head(wire))
<1>1. /\ stream.pc = "reading" /\ wire # <<>> /\ UNCHANGED server
      /\ decoder' = fed.decoder /\ wire' = Tail(wire)
      /\ IF fed.event = None THEN UNCHANGED <<stream, state, heard, chat>>
         ELSE Handle(fed.event)
  BY DEF ReadLine
<1>2. PICK event \in Event : Underway(event) /\ Tells(event, state, server)
  BY <1>1 DEF ProtocolInv, InFlight, At
<1>3. \/ fed.event = None /\ Underway(event)'
      \/ fed.event = event /\ At(None, <<>>, <<>>)'
  BY <1>1, <1>2, LineIsRead
<1> HIDE DEF fed
<1>4. CASE fed.event = None
  <2>1. UNCHANGED <<server, stream, state, heard, chat>>
    BY <1>1, <1>4
  <2>2. event # None
    BY NoneAssumption DEF Event
  <2>3. Underway(event)' /\ Tells(event, state, server)'
    BY <1>2, <1>3, <1>4, <2>1, <2>2
  <2>4. InFlight'
    BY <1>1, <2>1, <2>3 DEF InFlight
  <2> QED BY <2>1, <2>4 DEF ProtocolInv, StreamOK, OpenUntilOutcome
<1>5. CASE fed.event # None
  BY <1>1, <1>2, <1>3, <1>5, HandleKeeps
<1> QED BY <1>4, <1>5

LEMMA EndOfLinesKeeps ==
  ASSUME ProtocolInv, EndOfLines
  PROVE  ProtocolInv'
<1> DEFINE last == Flush(decoder)
<1>1. /\ stream.pc = "reading" /\ wire = <<>> /\ server.over /\ UNCHANGED <<server, wire>>
      /\ decoder' = last.decoder
      /\ IF last.event = None THEN Raised(Failure(state, "truncated")) /\ UNCHANGED heard
         ELSE Handle(last.event)
  BY DEF EndOfLines
<1>2. last.decoder = [type |-> None, lines |-> <<>>]
  BY DEF Flush, NoDecoder
<1>3. last.event # None => Tells(last.event, state, server)
  <2>1. ~\E event \in Event : Underway(event)
    BY <1>1, SomethingAhead
  <2>2. At(None, <<>>, <<>>) => last.event = None
    BY DEF At, Flush
  <2> QED BY <1>1, <2>1, <2>2 DEF ProtocolInv, InFlight
<1> HIDE DEF last
<1>4. CASE last.event = None
  <2>1. "truncated" \in STRING
    BY StringAssumption
  <2> QED BY <1>1, <1>4, <2>1, FailureKeeps
<1>5. CASE last.event # None
  <2>1. At(None, <<>>, <<>>)'
    BY <1>1, <1>2 DEF At
  <2> QED BY <1>1, <1>3, <1>5, <2>1, HandleKeeps
<1> QED BY <1>4, <1>5

LEMMA BrokenKeeps ==
  ASSUME ProtocolInv, Broken
  PROVE  ProtocolInv'
<1>1. "transport" \in STRING
  BY StringAssumption
<1> QED BY <1>1, FailureKeeps DEF Broken

LEMMA EnterKeeps ==
  ASSUME ProtocolInv, Enter
  PROVE  ProtocolInv'
<1>1. /\ stream.pc = "new" /\ stream' = [stream EXCEPT !.pc = "entered", !.open = TRUE]
      /\ UNCHANGED <<server, wire, decoder, state, heard, chat>>
  BY DEF Enter
<1>2. StreamOK' /\ stream'.pc = "entered" /\ stream'.open = TRUE
  BY <1>1 DEF ProtocolInv, StreamOK
<1>3. OpenUntilOutcome'
  BY <1>1, <1>2 DEF ProtocolInv, OpenUntilOutcome
<1>4. At(None, <<>>, <<>>) /\ (~server.over => Follows(state, server))
  BY <1>1 DEF ProtocolInv, InFlight
<1>5. At(None, <<>>, <<>>)'
  BY <1>1, <1>4 DEF At
<1>6. InFlight'
  BY <1>1, <1>4, <1>5 DEF InFlight
<1> QED BY <1>1, <1>2, <1>3, <1>6 DEF ProtocolInv

LEMMA AskKeeps ==
  ASSUME ProtocolInv, Ask
  PROVE  ProtocolInv'
<1>1. /\ stream.pc \in {"entered", "yielded"}
      /\ stream' = [stream EXCEPT !.pc = IF IsTerminal(state) THEN "over" ELSE "reading"]
      /\ UNCHANGED <<server, wire, decoder, state, heard, chat>>
  BY DEF Ask
<1>2. /\ StreamOK' /\ stream'.open = stream.open
      /\ stream'.pc = IF IsTerminal(state) THEN "over" ELSE "reading"
  BY <1>1 DEF ProtocolInv, StreamOK
<1>3. OpenUntilOutcome'
  BY <1>1, <1>2 DEF ProtocolInv, OpenUntilOutcome
<1>4. At(None, <<>>, <<>>) /\ (~server.over => Follows(state, server))
  BY <1>1 DEF ProtocolInv, InFlight
<1>5. At(None, <<>>, <<>>)'
  BY <1>1, <1>4 DEF At
<1>6. InFlight'
  BY <1>1, <1>4, <1>5 DEF InFlight
<1> QED BY <1>1, <1>2, <1>3, <1>6 DEF ProtocolInv

LEMMA CloseKeeps ==
  ASSUME ProtocolInv, Close
  PROVE  ProtocolInv'
<1>1. Over \in [pc : {"over"}, open : {FALSE}, left : BOOLEAN]
  BY OverIs DEF ProtocolInv
<1>2. stream' \in [pc : {"over"}, open : {FALSE}, left : BOOLEAN]
  BY <1>1 DEF Close
<1>3. ServerOK(server') /\ Settled(state', heard')
  BY DEF ProtocolInv, Close
<1> QED BY <1>2, <1>3, ClosedKeeps

-----------------------------------------------------------------------------
(* The theorems                                                            *)

LEMMA NothingIsEmpty ==
  ASSUME NEW f, f = [x \in {} |-> f[x]]
  PROVE  f = <<>>
<1>1. f \in [1..0 -> {}]
  OBVIOUS
<1>2. f \in Seq({}) /\ Len(f) = 0
  <2>1. f \in Seq({})
    BY <1>1, IsASeq
  <2> QED BY <2>1, EmptySeq
<1> QED BY <1>2, EmptySeq

(* Before the stream is opened nothing was said, and nothing is assembled. *)
LEMMA InitIsProtocolInv ==
  ASSUME Init
  PROVE  ProtocolInv
<1>1. PICK plan \in Plan, terse \in BOOLEAN :
        server = [plan |-> plan, terse |-> terse, payload |-> NoResponse,
                  told |-> [i \in DOMAIN plan |-> Untold(plan[i])],
                  over |-> FALSE, inOrder |-> TRUE, callsInOrder |-> TRUE]
  BY DEF Init
<1>2. IsOutput(plan)
  BY PlanAssumption
<1>3. ASSUME NEW i \in DOMAIN plan
      PROVE  Sayable(plan[i], Untold(plan[i])) /\ ~IsTold(Untold(plan[i]))
  <2> DEFINE item == plan[i]
             t == Untold(item)
  <2>1. Texts(item) \in Seq(Text) /\ Len(Texts(item)) \in Nat
    BY <1>2, ItemOfPlan
  <2>2. /\ t.added = FALSE /\ t.done = FALSE /\ t.sent = [k \in DOMAIN Texts(item) |-> 0]
        /\ t \in [added : BOOLEAN, done : BOOLEAN, sent : [DOMAIN Texts(item) -> Nat]]
    BY DEF Untold
  <2> HIDE DEF t, item
  <2>3. \A k \in DOMAIN Texts(item) : t.sent[k] = 0 /\ Len(Texts(item)[k]) \in Nat
    <3>1. ASSUME NEW k \in DOMAIN Texts(item)
          PROVE  t.sent[k] = 0 /\ Len(Texts(item)[k]) \in Nat
      <4>1. Texts(item)[k] \in Text
        BY <2>1, ElementOfSeq, LenProperties
      <4> QED BY <2>2, <4>1, LenProperties DEF Text
    <3> QED BY <3>1
  <2>4. Begun(item, t) = {}
    BY <2>3 DEF Begun
  <2>5. Begun(item, t) = 1..0 /\ 0 \in 0..Len(Texts(item))
    BY <2>1, <2>4
  <2>6. Sayable(item, t)
    BY <2>2, <2>3, <2>5 DEF Sayable
  <2>7. ~IsTold(t)
    BY <2>2, <2>3 DEF IsTold
  <2> QED BY <2>6, <2>7 DEF t, item
<1>4. /\ server.plan = plan /\ server.terse \in BOOLEAN /\ server.payload = NoResponse
      /\ server.over = FALSE /\ DOMAIN server.told = DOMAIN server.plan
      /\ \A i \in DOMAIN plan : server.told[i] = Untold(plan[i])
      /\ DOMAIN server = {"plan", "terse", "payload", "told", "over", "inOrder", "callsInOrder"}
  BY <1>1
<1>5. NoResponse \in ResponseHead
  BY DEF NoResponse, ResponseHead
<1>6. ServerOK(server)
  BY <1>2, <1>3, <1>4, <1>5 DEF ServerOK
<1>7. ItemsTold(server) = <<>>
  <2>1. DOMAIN ItemsTold(server) = {}
    <3>1. ASSUME NEW i \in DOMAIN ItemsTold(server)
          PROVE  FALSE
      <4>0. /\ DOMAIN ItemsTold(server) =
                 {k \in 0..(Len(server.plan) - 1) : IsTold(server.told[k + 1])}
            /\ Len(server.plan) \in Nat /\ DOMAIN server.plan = 1..Len(server.plan)
        BY <1>6, ItemsToldAt
      <4>1. i \in 0..(Len(server.plan) - 1) /\ IsTold(server.told[i + 1])
        BY <4>0
      <4>2. i + 1 \in DOMAIN plan
        BY <1>4, <4>0, <4>1
      <4> QED BY <1>3, <1>4, <4>1, <4>2
    <3> QED BY <3>1
  <2>2. ItemsTold(server) = [i \in DOMAIN ItemsTold(server) |-> ItemsTold(server)[i]]
    BY DEF ItemsTold
  <2> QED BY <2>1, <2>2, NothingIsEmpty
<1>8. /\ wire = <<>> /\ decoder = NoDecoder /\ state = NoState
      /\ stream = [pc |-> "new", open |-> FALSE, left |-> FALSE]
      /\ heard = Response(NoResponse, <<>>)
  BY DEF Init
<1>9. Follows(state, server) /\ DOMAIN state = {"payload", "items", "final", "error"}
  BY <1>4, <1>7, <1>8 DEF Follows, NoState
<1>10. heard = Account(server)
  BY <1>4, <1>7, <1>8 DEF Account
<1>11. server.payload.status \notin {"completed", "incomplete"}
  BY <1>4, StringsAreNotNone DEF NoResponse
<1>12. Settled(state, heard) /\ ~IsTerminal(state)
  BY <1>6, <1>9, <1>10, <1>11, FollowsSettled
<1>13. StreamOK /\ OpenUntilOutcome
  BY <1>8, <1>9, <1>12 DEF StreamOK, OpenUntilOutcome, Follows
<1>14. InFlight
  BY <1>8, <1>9 DEF InFlight, At, NoDecoder
<1> QED BY <1>6, <1>12, <1>13, <1>14 DEF ProtocolInv

LEMMA NextKeepsProtocolInv ==
  ASSUME ProtocolInv, [Next]_vars
  PROVE  ProtocolInv'
<1>1. CASE ServerStep
  BY <1>1, ServerKeeps
<1>2. CASE HangUp
  BY <1>2, HangUpKeeps
<1>3. CASE Enter
  BY <1>3, EnterKeeps
<1>4. CASE Ask
  BY <1>4, AskKeeps
<1>5. CASE ReadLine
  BY <1>5, ReadLineKeeps
<1>6. CASE EndOfLines
  BY <1>6, EndOfLinesKeeps
<1>7. CASE Broken
  BY <1>7, BrokenKeeps
<1>8. CASE Close
  BY <1>8, CloseKeeps
<1>9. CASE UNCHANGED <<server, wire, stream, decoder, state, heard>>
  <2>1. InFlight' = InFlight
    BY <1>9 DEF InFlight, Underway, At
  <2> QED BY <1>9, <2>1 DEF ProtocolInv, StreamOK, OpenUntilOutcome
<1>10. CASE TakeChunk
  BY <1>9, <1>10 DEF TakeChunk
<1>11. CASE UNCHANGED vars
  BY <1>9, <1>11 DEF vars
<1> QED BY <1>1, <1>2, <1>3, <1>4, <1>5, <1>6, <1>7, <1>8, <1>10, <1>11 DEF Next

(* The strengthening: in every reachable state the lines on their way are  *)
(* those of one event, and that event brings the response assembled so far *)
(* to what the server has said by then.                                    *)
THEOREM ProtocolInvariant == Spec => []ProtocolInv
BY InitIsProtocolInv, NextKeepsProtocolInv, PTL DEF Spec

(* Whatever the plan, the order and the framing of its events: the response*)
(* assembled by ResponseState is, event by event, what the server has told,*)
(* in the snapshot, in the partial response of an error and in the final   *)
(* response.                                                               *)
THEOREM AssembledAsTold == Spec => []AssembledMatchesServer
<1>1. ProtocolInv => AssembledMatchesServer
  <2> SUFFICES ASSUME ProtocolInv PROVE AssembledMatchesServer
    OBVIOUS
  <2>1. Settled(state, heard)
    BY DEF ProtocolInv
  <2>2. state.final # None => state.final = heard
    BY <2>1 DEF Settled, IsTerminal
  <2> QED BY <2>1, <2>2 DEF Settled, AssembledMatchesServer
<1> QED BY <1>1, ProtocolInvariant, PTL

(* A stream has a final response or an error and never both; its connection*)
(* is closed when it is over and when its last event is yielded; and the   *)
(* final response is returned if and only if the server finished it.       *)
THEOREM EndsWithOneOutcome == Spec => []EndsClosedWithOneOutcome
<1>1. ProtocolInv => EndsClosedWithOneOutcome
  <2> SUFFICES ASSUME ProtocolInv PROVE EndsClosedWithOneOutcome
    OBVIOUS
  <2>1. Settled(state, heard) /\ OpenUntilOutcome
    BY DEF ProtocolInv
  <2>2. (ResultError(state) = None) = IsTerminal(state)
    <3>1. CASE IsTerminal(state)
      BY <2>1, <3>1 DEF ResultError, Settled, IsTerminal
    <3>2. CASE ~IsTerminal(state)
      <4>1. state.error # None => state.error.kind \in STRING
        BY <2>1 DEF Settled, Failed
      <4>2. state.error # None => ResultError(state) # None
        BY <4>1, StringsAreNotNone DEF ResultError
      <4>3. state.error = None => ResultError(state) = "not_complete"
        BY <3>2 DEF ResultError, IsTerminal
      <4>4. "not_complete" # None
        BY StringAssumption, StringsAreNotNone
      <4> QED BY <3>2, <4>2, <4>3, <4>4 DEF IsTerminal
    <3> QED BY <3>1, <3>2
  <2>3. IsTerminal(state) = (heard.status \in {"completed", "incomplete"})
        /\ (state.final = None \/ state.error = None)
    BY <2>1 DEF Settled, IsTerminal
  <2>4. stream.open => stream.pc # "over" /\ ~IsTerminal(state)
    BY <2>1 DEF OpenUntilOutcome
  <2> QED BY <2>2, <2>3, <2>4 DEF EndsClosedWithOneOutcome
<1> QED BY <1>1, ProtocolInvariant, PTL
=============================================================================
