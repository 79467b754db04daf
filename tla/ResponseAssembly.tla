-------------------------- MODULE ResponseAssembly --------------------------
(***************************************************************************)
(* ResponseState of _response_state.py: the response that the events of a  *)
(* stream add up to, whatever transport they come from.  A text or the     *)
(* arguments of a call are a sequence of units; a message has a sequence   *)
(* of texts.                                                               *)
(***************************************************************************)
EXTENDS SseDecoder, Integers, SequencesExt

CONSTANT NotText   \* a value that is no string

Text == Seq(Nat)   \* the units of a text are numbers

(* An output item; content is of a message, call, name and args are of a   *)
(* function call.                                                          *)
NoItem == [type |-> None, id |-> None, call |-> None, name |-> None, content |-> None, args |-> None]

Item ==
  [type : STRING \cup {None}, id : STRING \cup {None}, call : STRING \cup {None},
   name : STRING \cup {None}, content : Seq(Text) \cup {None}, args : Text \cup {None}]

(* What a response says besides its output.                                *)
NoResponse == [model |-> None, status |-> None, reason |-> None]

WithOutput(payload, output) ==
  [model |-> payload.model, status |-> payload.status, reason |-> payload.reason,
   output |-> output]

ResponseRecord ==
  [model : STRING \cup {None}, status : STRING \cup {None}, reason : STRING \cup {None},
   output : Seq(Item) \cup {None}]

(* The JSON object of an event, as far as record() reads it.               *)
Data ==
  [type : STRING \cup {None}, index : Int \cup {None}, id : STRING \cup {None},
   part : Int \cup {None}, value : Text \cup {None, NotText}, item : Item \cup {None},
   response : ResponseRecord \cup {None}]

Failed == [kind : STRING, partial : ResponseRecord]

(* Python's None is no value of another type.                              *)
ASSUME NoneAssumption ==
  /\ None \notin STRING \cup Int
  /\ None \notin Text \cup Seq(Text) \cup Seq(Item)
  /\ None \notin Item \cup ResponseRecord \cup Data \cup Failed
  /\ None \notin [type : STRING, data : Data]
  /\ NotText \notin Text

NoState == [payload |-> NoResponse, items |-> <<>>, final |-> None, error |-> None]

IsTerminal(st) == st.final # None

(* {**old, **new}                                                          *)
Merge(old, new) == [f \in DOMAIN old |-> IF new[f] = None THEN old[f] ELSE new[f]]

(* items is a function from output indices, which start at 0.              *)
ItemAt(items, i) == IF i \in DOMAIN items THEN items[i] ELSE NoItem
Put(items, i, item) == [k \in DOMAIN items \cup {i} |-> IF k = i THEN item ELSE items[k]]

(* The items in the order of their indices: n - 1 come before the n-th.    *)
Before(i, indices) == {k \in indices : k < i}

Listed(items) ==
  LET indices == DOMAIN items
  IN  [n \in 1..Cardinality(indices) |->
         items[CHOOSE i \in indices : Cardinality(Before(i, indices)) = n - 1]]

Response(payload, items) == WithOutput(payload, Listed(items))

Snapshot(st) == Response(st.payload, st.items)

OutputText(output) ==
  FlattenSeq([k \in DOMAIN output |->
    IF output[k].type = "message" /\ output[k].content # None
      THEN FlattenSeq(output[k].content) ELSE <<>>])

(* The state in which fail() raises.                                       *)
Failure(st, kind) ==
  [st EXCEPT !.error = [kind |-> kind, partial |-> Snapshot(st)]]

(* The "response" of an event: its keys, and its output item by item.      *)
Absorb(st, response) ==
  IF response = None THEN st
  ELSE LET output == IF response.output = None THEN <<>> ELSE response.output
       IN  [st EXCEPT
              !.payload = [f \in DOMAIN @ |-> IF response[f] = None THEN @[f] ELSE response[f]],
              !.items = [i \in DOMAIN @ \cup 0..(Len(output) - 1) |->
                           IF i < Len(output) THEN Merge(ItemAt(@, i), output[i + 1]) ELSE @[i]]]

HasFailed(st, event) ==
  \/ event.type \in {"error", "response.failed", "response.cancelled"}
  \/ st.payload.status \in {"failed", "cancelled"}

Terminal == {"response.completed", "response.incomplete"}
ItemEvents == {"response.output_item.added", "response.output_item.done"}
TextEvents == {"response.output_text.delta", "response.output_text.done"}
ArgumentEvents == {"response.function_call_arguments.delta", "response.function_call_arguments.done"}
Deltas == {"response.output_text.delta", "response.function_call_arguments.delta"}

(* An item is found by its id, or else by the index of the event.          *)
Target(st, data) ==
  LET named == {i \in DOMAIN st.items : data.id # None /\ st.items[i].id = data.id}
      index == IF data.index = None THEN 0 ELSE data.index
  IN  IF named = {} THEN index ELSE CHOOSE i \in named : TRUE

(* Mutant: the complete text of output_text.done is added to the deltas.   *)
AlwaysAppend(type, old, value) == old \o value

Written(type, old, value) == IF type \in Deltas THEN old \o value ELSE value

WithText(st, i, type, data) ==
  LET item  == IF i \in DOMAIN st.items THEN st.items[i]
               ELSE [NoItem EXCEPT !.type = "message"]
      parts == IF item.content = None THEN <<>> ELSE item.content
      n     == (IF data.part = None THEN 0 ELSE data.part) + 1
      grown == [k \in 1..(IF Len(parts) < n THEN n ELSE Len(parts)) |->
                  IF k <= Len(parts) THEN parts[k] ELSE <<>>]
      put(texts) == [st EXCEPT !.items = Put(@, i, [item EXCEPT !.content = texts])]
  IN  IF data.value = NotText THEN Failure(put(grown), "protocol")
      ELSE put([grown EXCEPT ![n] = Written(type, @, data.value)])

WithArguments(st, i, type, data) ==
  LET old  == IF i \in DOMAIN st.items THEN st.items[i]
              ELSE [NoItem EXCEPT !.type = "function_call"]
      item == [old EXCEPT !.id = IF @ = None THEN data.id ELSE @]
      args == IF item.args = None THEN <<>> ELSE item.args
      put(it) == [st EXCEPT !.items = Put(@, i, it)]
  IN  IF data.value = NotText THEN Failure(put(item), "protocol")
      ELSE put([item EXCEPT !.args = Written(type, args, data.value)])

(* response.done stands for the terminal event of the status.              *)
Normalised(st, type) ==
  IF type # "response.done" THEN type
  ELSE IF st.payload.status = "completed" THEN "response.completed" ELSE "response.incomplete"

Applied(st, type, data) ==
  LET i == Target(st, data)
  IN  CASE type \in ItemEvents /\ data.item # None ->
             [st EXCEPT !.items = Put(@, i, Merge(ItemAt(@, i), data.item))]
        [] type \in TextEvents -> WithText(st, i, type, data)
        [] type \in ArgumentEvents -> WithArguments(st, i, type, data)
        [] type \in Terminal ->
             LET ended == [st EXCEPT !.payload.status =
                             IF type = "response.completed" THEN "completed" ELSE "incomplete"]
             IN  [ended EXCEPT !.final = Snapshot(ended)]
        [] OTHER -> st

(* record: the state after an event, and the type the event then has.  An  *)
(* event that is neither an item's nor the last one has no output index.   *)
Record(before, event) ==
  LET st   == Absorb(before, event.data.response)
      type == Normalised(st, event.type)
      done(after) == [state |-> after, type |-> type]
  IN  IF HasFailed(st, event) THEN done(Failure(st, "failed"))
      ELSE IF event.type = "response.done" /\ st.payload.status \notin {"completed", "incomplete"}
        THEN done(Failure(st, "protocol"))
      ELSE IF type \in ItemEvents \cup TextEvents \cup ArgumentEvents \cup Terminal
              /\ event.data.index # None /\ event.data.index < 0
        THEN done(Failure(st, "protocol"))
      ELSE done(Applied(st, type, event.data))

(* get_final_response: what it raises, or None and the final response.     *)
ResultError(st) ==
  IF st.error # None THEN st.error.kind ELSE IF st.final = None THEN "not_complete" ELSE None
=============================================================================
