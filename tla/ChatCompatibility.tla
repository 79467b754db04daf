------------------------- MODULE ChatCompatibility --------------------------
(***************************************************************************)
(* The Chat interface on top of responses: the projection of a stream of   *)
(* snapshots into chunks (_chat_projection.py), of a whole response into a *)
(* message (_types.py), and of the messages of a history into the input of *)
(* the next request (_converters.py).  preserve_context is on.             *)
(***************************************************************************)
EXTENDS ResponseAssembly

(* A tool call as Chat shows it.                                           *)
Tool(item) == [call |-> item.call, name |-> item.name, args |-> item.args]

(* The types of tool output other than function calls.                     *)
ForeignCalls == {"custom_tool_call", "web_search_call", "tool_call"}

-----------------------------------------------------------------------------
(* Whole responses                                                         *)

Calls(output) == SelectSeq(output, LAMBDA item : item.type = "function_call")

Complete(item) == item.call # None /\ item.name # None /\ item.args # None

ToolCalls(output) ==
  LET calls == Calls(output) IN [k \in DOMAIN calls |-> Tool(calls[k])]

(* _extract_tool_calls meets the first item it cannot show.                *)
ToolCallsError(output) ==
  LET unusable(item) ==
        item.type \in ForeignCalls \/ (item.type = "function_call" /\ ~Complete(item))
      bad == SelectSeq(output, unusable)
  IN  IF bad = <<>> THEN None
      ELSE IF bad[1].type = "function_call" THEN "identity" ELSE "unsupported"

FinishReason(response) ==
  CASE response.status = "incomplete" /\ response.reason = "max_output_tokens" -> "length"
    [] response.status = "incomplete" /\ response.reason = "content_filter" -> "content_filter"
    [] response.status = "completed" /\ Calls(response.output) # <<>> -> "tool_calls"
    [] response.status = "completed" /\ Calls(response.output) = <<>> -> "stop"
    [] OTHER -> None

FinishError(response) ==
  IF response.status = "completed" THEN ToolCallsError(response.output)
  ELSE IF FinishReason(response) = None THEN "incomplete" ELSE None

(* provider_context, without its constant version and provider             *)
Context(response) ==
  IF response.status = "completed" THEN [model |-> response.model, output |-> response.output]
  ELSE None

Message(role, content, tools, context) ==
  [role |-> role, content |-> content, tools |-> tools, context |-> context, call |-> None]

(* ChatCompletion.from_response, and what it raises                        *)
FromResponse(response) ==
  Message("assistant", OutputText(response.output), ToolCalls(response.output), Context(response))

FromResponseError(response) ==
  LET error == ToolCallsError(response.output)
  IN  IF error # None THEN error ELSE FinishError(response)

-----------------------------------------------------------------------------
(* ChatProjection: tools are the calls already shown, in that order.       *)

NoProjection == [text |-> <<>>, tools |-> <<>>]

Chunk == [content |-> <<>>, tool |-> None, finish |-> None, context |-> None]

Suffix(all, shown) == SubSeq(all, Len(shown) + 1, Len(all))

(* A tool delta: identity only in the first one of a call.                 *)
ToolDelta(index, call, name, args) ==
  [Chunk EXCEPT !.tool = [index |-> index, call |-> call, name |-> name, args |-> args]]

(* Mutant: the arguments so far are sent again.                            *)
ShowAgain(acc, item) ==
  LET args  == IF item.args = None THEN <<>> ELSE item.args
      known == {k \in DOMAIN acc.tools : acc.tools[k].call = item.call}
      tool  == [Tool(item) EXCEPT !.args = args]
  IN  IF known = {} THEN
        [acc EXCEPT !.tools = Append(@, tool),
                    !.chunks = Append(@, ToolDelta(Len(acc.tools) + 1, item.call, item.name, args))]
      ELSE LET k == CHOOSE k \in known : TRUE
           IN  [acc EXCEPT !.tools[k].args = args,
                           !.chunks = Append(@, ToolDelta(k, None, None, args))]

(* A call that has its identity, first seen or grown.                      *)
Show(acc, item) ==
  LET args  == IF item.args = None THEN <<>> ELSE item.args
      known == {k \in DOMAIN acc.tools : acc.tools[k].call = item.call}
      tool  == [Tool(item) EXCEPT !.args = args]
  IN  IF known = {} THEN
        [acc EXCEPT !.tools = Append(@, tool),
                    !.chunks = Append(@, ToolDelta(Len(acc.tools) + 1, item.call, item.name, args))]
      ELSE LET k == CHOOSE k \in known : TRUE
               shown == acc.tools[k]
           IN  IF shown.name # item.name \/ ~IsPrefix(shown.args, args)
                 THEN [acc EXCEPT !.error = "conflict"]
               ELSE IF args = shown.args THEN acc
               ELSE [acc EXCEPT !.tools[k].args = args,
                                !.chunks = Append(@, ToolDelta(k, None, None, Suffix(args, shown.args)))]

(* One item of the snapshot; the first error ends the loop.                *)
ShowItem(acc, item, terminal) ==
  CASE acc.error # None -> acc
    [] acc.error = None /\ item.type \in ForeignCalls -> [acc EXCEPT !.error = "unsupported"]
    [] acc.error = None /\ item.type = "function_call" ->
         IF item.call # None /\ item.name # None THEN Show(acc, item)
         ELSE IF terminal THEN [acc EXCEPT !.error = "identity"] ELSE acc
    [] OTHER -> acc

LastChunk(response) ==
  [Chunk EXCEPT !.finish = FinishReason(response), !.context = Context(response)]

(* feed: the projection after an event, the chunks it yields, or an error. *)
Feed(projection, type, response) ==
  LET text     == OutputText(response.output)
      terminal == type \in Terminal
      start == [tools |-> projection.tools, error |-> None,
                chunks |-> IF text = projection.text THEN <<>>
                           ELSE <<[Chunk EXCEPT !.content = Suffix(text, projection.text)]>>]
      shown == FoldLeft(LAMBDA acc, item : ShowItem(acc, item, terminal), start, response.output)
      error == IF shown.error = None /\ terminal THEN FinishError(response) ELSE shown.error
      after == [text |-> text, tools |-> shown.tools]
  IN  IF ~IsPrefix(projection.text, text)
        THEN [projection |-> projection, chunks |-> <<>>, error |-> "conflict"]
      ELSE IF error # None THEN [projection |-> after, chunks |-> <<>>, error |-> error]
      ELSE [projection |-> after, error |-> None,
            chunks |-> IF terminal THEN Append(shown.chunks, LastChunk(response)) ELSE shown.chunks]

-----------------------------------------------------------------------------
(* chat_messages_to_response_input                                         *)

InputItem(type, role, content, call, name, args) ==
  [type |-> type, id |-> None, call |-> call, name |-> name, args |-> args,
   content |-> content, role |-> role]

(* Mutant: replay skips the opaque items of the provider's output.         *)
ReplayedVisible(output) == SelectSeq(output, LAMBDA item : item.type # "reasoning")

(* The output items as input items: they are copied.                       *)
Replayed(output) == output

(* A history with provider_data is replayed only if the message still      *)
(* says what the output items say.                                         *)
ContextError(message, model) ==
  LET context == message.context
      stored  == WithOutput([NoResponse EXCEPT !.status = "completed"], context.output)
      shown   == FromResponse(stored)
      error   == FromResponseError(stored)
  IN  IF context.model # model \/ model = None THEN "model"
      ELSE IF error # None THEN error
      ELSE IF shown.content # message.content \/ shown.tools # message.tools THEN "differs"
      ELSE None

Said(message) == <<InputItem(None, message.role, message.content, None, None, None)>>

ToolItems(message) ==
  [k \in DOMAIN message.tools |->
     InputItem("function_call", None, None, message.tools[k].call, message.tools[k].name,
               message.tools[k].args)]

InputOf(message) ==
  CASE message.role \in {"system", "developer"} -> <<>>
    [] message.role = "tool" ->
         <<InputItem("function_call_output", None, message.content, message.call, None, None)>>
    [] message.role = "assistant" /\ message.context # None -> Replayed(message.context.output)
    [] OTHER ->
         (IF message.content # <<>> \/ message.tools = <<>> THEN Said(message) ELSE <<>>)
           \o ToolItems(message)

MessageError(message, model) ==
  CASE message.role = "assistant" /\ message.context # None -> ContextError(message, model)
    [] message.role = "tool" /\ message.call = None -> "tool"
    [] message.role = "assistant" /\ message.context = None ->
         IF \A k \in DOMAIN message.tools : Complete(message.tools[k]) THEN None ELSE "tool"
    [] message.role = "user" /\ message.tools # <<>> -> "tool"
    [] OTHER -> None

Instructions(messages) ==
  LET said == SelectSeq(messages, LAMBDA m : m.role \in {"system", "developer"} /\ m.content # <<>>)
  IN  [k \in DOMAIN said |-> said[k].content]

(* The instructions and the input of the next request; the first message   *)
(* that cannot be converted raises a ValueError.                           *)
ChatInput(messages, model) ==
  LET errors == SelectSeq([k \in DOMAIN messages |-> MessageError(messages[k], model)],
                          LAMBDA error : error # None)
  IN  [error |-> IF errors = <<>> THEN None ELSE errors[1],
       instructions |-> Instructions(messages),
       input |-> FlattenSeq([k \in DOMAIN messages |-> InputOf(messages[k])])]
=============================================================================
