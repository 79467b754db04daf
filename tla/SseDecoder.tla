----------------------------- MODULE SseDecoder -----------------------------
(***************************************************************************)
(* The decoder of server-sent events (SSEDecoder of _stream.py), which the *)
(* streams of both clients read.  A line is a field and its value; the     *)
(* value of a data line is a JSON text, or one of the two pieces of a text *)
(* that was broken between two tokens.                                     *)
(***************************************************************************)
EXTENDS Sequences

CONSTANT None   \* Python's None, and a key that is missing

(* The keys of the JSON object of an event, all missing.                   *)
NoData ==
  [type |-> None, index |-> None, id |-> None, part |-> None, value |-> None,
   item |-> None, response |-> None]

EventLine(type) == [field |-> "event", type |-> type, json |-> None, piece |-> None]
DataLine(json, piece) == [field |-> "data", type |-> None, json |-> json, piece |-> piece]
Comment == [field |-> "comment", type |-> None, json |-> None, piece |-> None]
Blank == [field |-> "blank", type |-> None, json |-> None, piece |-> None]

DoneMark == DataLine(None, "[DONE]")

NoDecoder == [type |-> None, lines |-> <<>>]

(* What the decoder raises for a text that is no JSON object.              *)
ProtocolError == [type |-> "protocol error", data |-> NoData]

(* json.loads of the data lines, joined; None if they are no object.       *)
Parsed(lines) ==
  CASE Len(lines) = 1 /\ lines[1].piece = "whole" -> lines[1].json
    [] Len(lines) = 2 /\ lines[1].piece = "first"
         /\ lines[2] = DataLine(lines[1].json, "second") -> lines[1].json
    [] OTHER -> None

ResolvedType(type, data) ==
  IF type # None THEN type ELSE IF data.type # None THEN data.type ELSE "message"

EventFromParts(type, lines) ==
  LET data == Parsed(lines)
  IN  IF lines = <<DoneMark>> THEN [type |-> "done", data |-> NoData]
      ELSE IF data = None THEN ProtocolError
      ELSE [type |-> ResolvedType(type, data), data |-> data]

(* Mutant: the type of a block without data stays for the next block.      *)
FlushDataOnly(d) ==
  IF d.lines = <<>> THEN [decoder |-> d, event |-> None]
  ELSE [decoder |-> NoDecoder, event |-> EventFromParts(d.type, d.lines)]

Flush(d) ==
  [decoder |-> NoDecoder,
   event |-> IF d.lines = <<>> THEN None ELSE EventFromParts(d.type, d.lines)]

FeedLine(d, line) ==
  CASE line.field = "blank" -> Flush(d)
    [] line.field = "event" -> [decoder |-> [d EXCEPT !.type = line.type], event |-> None]
    [] line.field = "data" -> [decoder |-> [d EXCEPT !.lines = Append(@, line)], event |-> None]
    [] line.field = "comment" -> [decoder |-> d, event |-> None]
=============================================================================
