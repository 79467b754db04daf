----------------------------- MODULE MCProtocol -----------------------------
(* Outputs of up to three items: messages of one and of two texts, calls of  *)
(* a function, reasoning, and a call that Chat cannot show.                *)
EXTENDS ResponseStream

Words(i, texts) ==
  [NoItem EXCEPT !.type = "message", !.id = i, !.content = texts]

Call(i, args) ==
  [NoItem EXCEPT !.type = "function_call", !.id = i, !.call = i, !.name = "f", !.args = args]

Opaque(i, type) == [NoItem EXCEPT !.type = type, !.id = i]

Plans ==
  {<<Words("a", <<<<1>>, <<2, 3>>>>)>>,
   <<Words("a", <<<<1>>>>), Words("b", <<<<2>>>>)>>,
   <<Call("a", <<1, 2>>), Call("b", <<3>>)>>,
   <<Opaque("a", "reasoning"), Words("b", <<<<1, 2>>>>), Call("c", <<3>>)>>,
   <<Words("a", <<<<1>>>>), Opaque("b", "custom_tool_call")>>}
=============================================================================
