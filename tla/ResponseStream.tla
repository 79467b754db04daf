--------------------------- MODULE ResponseStream ---------------------------
(***************************************************************************)
(* A stream of server-sent events from the server to its consumer:         *)
(* ResponseStream (_stream.py), which AsyncResponseStream repeats with     *)
(* awaits, over the decoder and the assembly, and ChatCompletionStream     *)
(* (_chat.py) over the projection.  The server writes the events of a      *)
(* planned output in any order the protocol allows; the connection may     *)
(* break, end early or carry nonsense; the consumer may leave.             *)
(***************************************************************************)
EXTENDS ChatCompatibility

CONSTANTS
  Plan,    \* the outputs the server may produce: sequences of whole items
  Model    \* the model that is asked for

(* The items of an output have different identities; messages have texts,  *)
(* function calls have arguments, and no other item has either.            *)
IsOutput(plan) ==
  /\ plan \in Seq(Item)
  /\ \A i \in DOMAIN plan :
       /\ plan[i].type # None /\ plan[i].id # None
       /\ (plan[i].content # None) = (plan[i].type = "message")
       /\ (plan[i].args # None) = (plan[i].type = "function_call")
  /\ \A i, j \in DOMAIN plan : plan[i].id = plan[j].id => i = j

ASSUME PlanAssumption == Model \in STRING /\ \A plan \in Plan : IsOutput(plan)

(* No more than that these are strings, which the provers do not know.     *)
ASSUME StringAssumption ==
  /\ ItemEvents \cup TextEvents \cup ArgumentEvents \cup Terminal \subseteq STRING
  /\ {"response.created", "response.done", "response.failed"} \subseteq STRING
  /\ {"error", "done", "protocol error", "not_complete"} \subseteq STRING
  /\ {"in_progress", "completed", "incomplete", "failed", "cancelled"} \subseteq STRING
  /\ {"max_output_tokens", "content_filter", "other"} \subseteq STRING
  /\ {"protocol", "failed", "truncated", "transport"} \subseteq STRING

VARIABLES
  server,    \* what the server has said: see Init
  wire,      \* the lines not yet read
  stream,    \* pc, whether the connection is open, and whether the consumer left
  decoder,
  state,     \* ResponseState
  heard,     \* history: the server's account of the events decoded so far
  chat       \* what a Chat consumer has: see NoChat

vars == <<server, wire, stream, decoder, state, heard, chat>>

NoChat ==
  [on |-> FALSE, projection |-> NoProjection, chunks |-> <<>>, error |-> None,
   message |-> Message("assistant", <<>>, <<>>, None), finish |-> None]

(* Of each item: whether its identity was sent, how many units of each of  *)
(* its texts, and whether it was sent whole.                               *)
Texts(item) ==
  IF item.content # None THEN item.content ELSE IF item.args # None THEN <<item.args>> ELSE <<>>

Untold(item) ==
  [added |-> FALSE, done |-> FALSE, sent |-> [k \in DOMAIN Texts(item) |-> 0]]

Init ==
  /\ \E plan \in Plan, terse \in BOOLEAN :
       server = [plan |-> plan, terse |-> terse, payload |-> NoResponse,
                 told |-> [i \in DOMAIN plan |-> Untold(plan[i])],
                 over |-> FALSE, inOrder |-> TRUE, callsInOrder |-> TRUE]
  /\ wire = <<>> /\ decoder = NoDecoder /\ state = NoState
  /\ stream = [pc |-> "new", open |-> FALSE, left |-> FALSE]
  /\ heard = Response(NoResponse, <<>>)
  /\ \E on \in BOOLEAN : chat = [NoChat EXCEPT !.on = on]

-----------------------------------------------------------------------------
(* The server                                                              *)

(* Of texts that were begun, and of the ones before them, what was sent.   *)
SentTexts(texts, t) ==
  [k \in {k \in DOMAIN texts : \E j \in DOMAIN texts : k <= j /\ t.sent[j] > 0} |->
     SubSeq(texts[k], 1, t.sent[k])]

(* The server's account of an item so far.  Without its identity a text    *)
(* makes a message, and arguments make a function call.                    *)
ItemTold(item, t) ==
  LET known == IF t.added THEN item ELSE [NoItem EXCEPT !.type = item.type]
  IN  IF t.done THEN item
      ELSE [known EXCEPT
              !.content = IF item.content = None THEN None ELSE SentTexts(item.content, t),
              !.args = IF item.args = None THEN None ELSE SubSeq(item.args, 1, t.sent[1])]

IsTold(t) == t.added \/ t.done \/ \E k \in DOMAIN t.sent : t.sent[k] > 0

(* By the indices of events, which start at 0 and those of sequences at 1. *)
ItemsTold(s) ==
  [i \in {i \in 0..(Len(s.plan) - 1) : IsTold(s.told[i + 1])} |->
     ItemTold(s.plan[i + 1], s.told[i + 1])]

Account(s) == Response(s.payload, ItemsTold(s))

Identified(response) ==
  SelectSeq(ToolCalls(response.output), LAMBDA tool : tool.call # None)

IdentifiedCalls(s) ==
  LET tools == Identified(Account(s)) IN [k \in DOMAIN tools |-> tools[k].call]

(* The server has said more: does its text still grow at its end only, and *)
(* were its calls named in the order of its output?                        *)
Says(s) ==
  server' = [s EXCEPT
    !.inOrder = @ /\ IsPrefix(OutputText(Account(server).output), OutputText(Account(s).output)),
    !.callsInOrder = @ /\ IsPrefix(IdentifiedCalls(server), IdentifiedCalls(s))]

(* The ways to write an event, whose type may be in the event line, in the *)
(* data, or in both; a keep-alive block may come before it, and the data   *)
(* may be broken into two lines.                                           *)
Framed(type, data) ==
  LET named == [data EXCEPT !.type = type]
  IN  {<<EventLine(type), DataLine(data, "whole"), Blank>>,
       <<EventLine("ping"), Blank, DataLine(named, "whole"), Blank>>,
       <<EventLine(type), DataLine(named, "first"), Comment, DataLine(named, "second"), Blank>>}

Send(type, data) == wire' \in Framed(type, data)

CanSay == stream.pc = "reading" /\ wire = <<>> /\ ~server.over

Created ==
  /\ CanSay /\ server.payload.status = None
  /\ LET now == [model |-> Model, status |-> "in_progress", reason |-> None]
     IN  /\ Says([server EXCEPT !.payload = now])
         /\ Send("response.created", [NoData EXCEPT !.response = WithOutput(now, <<>>)])

(* An event names its item by the index, which is that of a sequence minus *)
(* one, or, once it is known, by its id alone.                             *)
Naming(i) ==
  {[NoData EXCEPT !.index = i - 1]} \cup
  (IF server.told[i].added THEN {[NoData EXCEPT !.id = server.plan[i].id]} ELSE {})

Added(i) ==
  LET item == server.plan[i]
      t    == [server.told[i] EXCEPT !.added = TRUE]
  IN  /\ CanSay /\ ~server.terse /\ ~server.told[i].added
      /\ \A j \in 1..(i - 1) : server.told[j].added
      /\ Says([server EXCEPT !.told[i] = t])
      /\ Send("response.output_item.added",
              [NoData EXCEPT !.index = i - 1, !.item = ItemTold(item, t)])

TextEvent(item, all) ==
  IF item.type = "message"
    THEN IF all THEN "response.output_text.done" ELSE "response.output_text.delta"
  ELSE IF all THEN "response.function_call_arguments.done"
    ELSE "response.function_call_arguments.delta"

(* One more unit of a text, or the whole text.                             *)
Speak(i, part) ==
  LET item == server.plan[i]
      text == Texts(item)[part]
      n    == server.told[i].sent[part]
  IN  /\ CanSay /\ ~server.told[i].done /\ n < Len(text)
      /\ server.told[i].added \/ server.terse
      /\ \E all \in BOOLEAN, data \in Naming(i) :
           /\ Says([server EXCEPT !.told[i].sent[part] = IF all THEN Len(text) ELSE n + 1])
           /\ Send(TextEvent(item, all),
                   [data EXCEPT !.part = IF item.type = "message" THEN part - 1 ELSE None,
                                !.value = IF all THEN text ELSE <<text[n + 1]>>])

Done(i) ==
  /\ CanSay /\ ~server.told[i].done
  /\ server.told[i].added \/ server.terse
  /\ Says([server EXCEPT !.told[i].done = TRUE])
  /\ \E data \in Naming(i) :
       Send("response.output_item.done", [data EXCEPT !.item = server.plan[i]])

(* The last event of a response.  A completed one has told every item, or  *)
(* tells them all at once.                                                 *)
Finished ==
  /\ CanSay
  /\ \E type \in {"response.completed", "response.done"}, whole \in BOOLEAN :
       LET now == [model |-> Model, status |-> "completed", reason |-> None]
       IN  /\ whole \/ \A i \in DOMAIN server.plan : server.told[i].done
           /\ Says([server EXCEPT !.payload = now, !.over = TRUE,
                      !.told = [i \in DOMAIN @ |-> [@[i] EXCEPT !.done = TRUE]]])
           /\ Send(type, [NoData EXCEPT !.response =
                            WithOutput(now, IF whole THEN server.plan ELSE None)])

Unfinished ==
  /\ CanSay
  /\ \E end \in {<<"response.incomplete", "incomplete", "max_output_tokens">>,
                 <<"response.done", "incomplete", "content_filter">>,
                 <<"response.incomplete", "incomplete", "other">>,
                 <<"response.failed", "failed", None>>,
                 <<"response.done", "cancelled", None>>} :
       LET now == [model |-> Model, status |-> end[2], reason |-> end[3]]
       IN  /\ Says([server EXCEPT !.payload = now, !.over = TRUE])
           /\ Send(end[1], [NoData EXCEPT !.response = WithOutput(now, None)])

(* An error event, the end mark without a terminal event, or no valid      *)
(* JSON, status, index or text.                                            *)
Nonsense ==
  /\ CanSay
  /\ server' = [server EXCEPT !.over = TRUE]
  /\ \/ wire' = <<EventLine("error"), DataLine(NoData, "whole"), Blank>>
     \/ wire' = <<DoneMark, Blank>>
     \/ wire' = <<DataLine(NoData, "second"), Blank>>
     \/ wire' = <<EventLine("response.done"), DataLine(NoData, "whole"), Blank>>
     \/ wire' = <<EventLine("response.output_item.done"),
                  DataLine([NoData EXCEPT !.index = -1], "whole"), Blank>>
     \/ \E i \in DOMAIN server.plan : \E part \in DOMAIN Texts(server.plan[i]) :
          /\ server.told[i].sent[part] > 0
          /\ wire' = <<EventLine(TextEvent(server.plan[i], FALSE)),
                       DataLine([NoData EXCEPT !.index = i - 1, !.part = part - 1,
                                               !.value = NotText], "whole"), Blank>>

ServerStep ==
  /\ \/ Created \/ Finished \/ Unfinished \/ Nonsense
     \/ \E i \in DOMAIN server.plan : Added(i) \/ Done(i)
     \/ \E i \in DOMAIN server.plan : \E part \in DOMAIN Texts(server.plan[i]) : Speak(i, part)
  /\ UNCHANGED <<stream, decoder, state, heard, chat>>

(* The server ends the answer, in the middle of an event or after one.     *)
HangUp ==
  /\ stream.pc = "reading" /\ (wire # <<>> \/ ~server.over)
  /\ server' = [server EXCEPT !.over = TRUE]
  /\ wire' = <<>>
  /\ UNCHANGED <<stream, decoder, state, heard, chat>>

-----------------------------------------------------------------------------
(* ResponseStream                                                          *)

(* __enter__ of the stream, and of its manager                             *)
Enter ==
  /\ stream.pc = "new"
  /\ stream' = [stream EXCEPT !.pc = "entered", !.open = TRUE]
  /\ UNCHANGED <<server, wire, decoder, state, heard, chat>>

(* __iter__: the consumer asks for the first event, or the next one.       *)
Ask ==
  /\ stream.pc \in {"entered", "yielded"} /\ chat.chunks = <<>>
  /\ stream' = [stream EXCEPT !.pc = IF IsTerminal(state) THEN "over" ELSE "reading"]
  /\ UNCHANGED <<server, wire, decoder, state, heard, chat>>

Over == [stream EXCEPT !.pc = "over", !.open = FALSE]

Raised(failed) == state' = failed /\ stream' = Over /\ UNCHANGED chat

(* Mutant: the stream is closed when the consumer asks for another event.  *)
YieldOpen(type, response) ==
  LET fed == Feed(chat.projection, type, response)
  IN  IF chat.on /\ fed.error # None
        THEN chat' = [chat EXCEPT !.error = fed.error] /\ stream' = Over
      ELSE /\ stream' = [stream EXCEPT !.pc = "yielded"]
           /\ IF chat.on
                THEN chat' = [chat EXCEPT !.projection = fed.projection, !.chunks = fed.chunks]
                ELSE UNCHANGED chat

(* An event is yielded, the last one after the stream was closed.  The     *)
(* Chat stream projects it, and closes the stream if it cannot.            *)
Yield(type, response) ==
  LET fed == Feed(chat.projection, type, response)
  IN  IF chat.on /\ fed.error # None
        THEN chat' = [chat EXCEPT !.error = fed.error] /\ stream' = Over
      ELSE /\ stream' = [stream EXCEPT !.pc = "yielded", !.open = type \notin Terminal]
           /\ IF chat.on
                THEN chat' = [chat EXCEPT !.projection = fed.projection, !.chunks = fed.chunks]
                ELSE UNCHANGED chat

Handle(event) ==
  LET recorded == Record(state, event)
  IN  IF event = ProtocolError THEN Raised(Failure(state, "protocol")) /\ UNCHANGED heard
      ELSE /\ heard' = Account(server)
           /\ IF recorded.state.error # None THEN Raised(recorded.state)
              ELSE state' = recorded.state /\ Yield(recorded.type, Snapshot(recorded.state))

ReadLine ==
  /\ stream.pc = "reading" /\ wire # <<>>
  /\ LET fed == FeedLine(decoder, Head(wire))
     IN  /\ decoder' = fed.decoder
         /\ wire' = Tail(wire)
         /\ IF fed.event = None THEN UNCHANGED <<stream, state, heard, chat>>
            ELSE Handle(fed.event)
  /\ UNCHANGED server

(* The lines end: what the decoder holds is flushed; then there is nothing *)
(* more, and no terminal event was among it.                               *)
EndOfLines ==
  /\ stream.pc = "reading" /\ wire = <<>> /\ server.over
  /\ LET last == Flush(decoder)
     IN  /\ decoder' = last.decoder
         /\ IF last.event = None
              THEN Raised(Failure(state, "truncated")) /\ UNCHANGED heard
              ELSE Handle(last.event)
  /\ UNCHANGED <<server, wire>>

(* httpx.RequestError while lines are read.                                *)
Broken ==
  /\ stream.pc = "reading"
  /\ Raised(Failure(state, "transport"))
  /\ UNCHANGED <<server, wire, decoder, heard>>

(* The consumer closes the stream, or leaves its context or its loop.      *)
Close ==
  /\ stream.pc \in {"new", "entered", "yielded"}
  /\ stream' = [Over EXCEPT !.left = ~IsTerminal(state) \/ chat.chunks # <<>>]
  /\ chat' = [chat EXCEPT !.chunks = <<>>]
  /\ UNCHANGED <<server, wire, decoder, state, heard>>

-----------------------------------------------------------------------------
(* A Chat consumer assembles the chunks: text at the end of the text, and  *)
(* tool deltas by their index.                                             *)
WithTool(tools, delta) ==
  IF delta = None THEN tools
  ELSE IF delta.index > Len(tools)
    THEN Append(tools, [call |-> delta.call, name |-> delta.name, args |-> delta.args])
  ELSE [tools EXCEPT ![delta.index].args = @ \o delta.args]

TakeChunk ==
  /\ chat.chunks # <<>>
  /\ LET chunk == Head(chat.chunks)
     IN  chat' = [chat EXCEPT !.chunks = Tail(@),
                    !.message.content = @ \o chunk.content,
                    !.message.tools = WithTool(@, chunk.tool),
                    !.message.context = chunk.context,
                    !.finish = chunk.finish]
  /\ UNCHANGED <<server, wire, stream, decoder, state, heard>>

Next ==
  \/ ServerStep \/ HangUp
  \/ Enter \/ Ask \/ ReadLine \/ EndOfLines \/ Broken \/ Close
  \/ TakeChunk

Spec == Init /\ [][Next]_vars

-----------------------------------------------------------------------------
(* The response assembled is, event by event, the one the server has told: *)
(* whatever the framing, the way items are named, deltas, whole texts and  *)
(* whole items mixed.  docs/errors.md: partial_response retains what was   *)
(* received, and the final response is all of it.                          *)
AssembledMatchesServer ==
  /\ Snapshot(state) = heard
  /\ state.error # None => state.error.partial = heard
  /\ state.final # None => state.final = heard

(* A stream has one outcome.  Its connection is closed when it is over,    *)
(* and already when the last event is yielded.  Iteration that ends by     *)
(* itself, without an exception, ends with the response the server         *)
(* finished; and a response the server failed is never returned.           *)
EndsClosedWithOneOutcome ==
  /\ state.final = None \/ state.error = None
  /\ stream.open => stream.pc # "over" /\ ~IsTerminal(state)
  /\ stream.pc = "over" /\ ~stream.left /\ chat.error = None =>
       (ResultError(state) = None) = (heard.status \in {"completed", "incomplete"})
  /\ ResultError(state) = None => heard.status \in {"completed", "incomplete"}

Finish == stream.pc = "over" /\ chat.on /\ ~stream.left /\ IsTerminal(state)

(* The chunks of a Chat stream add up to the completion that the same      *)
(* response gives without streaming, and it raises where that raises.  Its *)
(* tool calls are in another order only if the server named a later call   *)
(* before an earlier one; it raises for another reason only if the server  *)
(* added text before text it had already sent.                             *)
ChatMatchesAggregate ==
  Finish =>
    LET whole == FromResponse(state.final)
    IN  IF chat.error = None
          THEN /\ FromResponseError(state.final) = None
               /\ chat.finish = FinishReason(state.final)
               /\ chat.message.content = whole.content
               /\ ToSet(chat.message.tools) = ToSet(whole.tools)
               /\ Len(chat.message.tools) = Len(whole.tools)
               /\ server.callsInOrder => chat.message.tools = whole.tools
               /\ chat.message.context = whole.context
        ELSE FromResponseError(state.final) # None \/ ~server.inOrder

User == Message("user", <<"question">>, <<>>, None)

(* docs/chat-compatibility.md: the message assembled from a stream, sent   *)
(* back with its provider_data, gives exactly the output items as input;   *)
(* without it, its text and its calls.  The one case in which the message  *)
(* is refused as edited, and StreamedMessagesReplay fails, is that the     *)
(* server named a later call before an earlier one.                        *)
ReplayReproducesHistory ==
  Finish /\ chat.error = None =>
    LET replay == ChatInput(<<User, chat.message>>, Model)
        bare   == ChatInput(<<User, [chat.message EXCEPT !.context = None]>>, Model)
    IN  /\ chat.message.context # None =>
             IF replay.error = None THEN Tail(replay.input) = state.final.output
             ELSE replay.error = "differs" /\ ~server.callsInOrder
        /\ bare.error = None
        /\ [k \in DOMAIN Calls(bare.input) |-> Tool(Calls(bare.input)[k])] = chat.message.tools

(* docs/chat-compatibility.md, "Optional Codex context": what a consumer   *)
(* concatenated from a stream, with the final provider_data on it, replays *)
(* to the same model; only an edited message is refused.                   *)
StreamedMessagesReplay ==
  Finish /\ chat.error = None /\ chat.message.context # None =>
    ChatInput(<<User, chat.message>>, Model).error = None
=============================================================================
