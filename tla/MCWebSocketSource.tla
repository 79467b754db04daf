------------------------- MODULE MCWebSocketSource -------------------------
(* Calls that start a conversation, continue it, change its configuration, *)
(* bring their own response id, or go to another endpoint.                 *)
EXTENDS WebSocketSource, TLC

CONSTANTS s1, x1, x2, k1, k2, ext, u1, u2, o1, o2

Call(session, endpoint, config, input, manual) ==
  [session |-> session, endpoint |-> endpoint, config |-> config, input |-> input,
   manual |-> manual]

First == Call(s1, x1, k1, <<u1>>, None)
Second == Call(s1, x1, k1, <<u1, o1, u2>>, None)
OtherConfig == Call(s1, x1, k2, <<u1, o1, u2>>, None)
OwnId == Call(s1, x1, k1, <<u2>>, ext)
OtherEndpoint == Call(s1, x2, k1, <<u1>>, None)

Continuing == {First, Second}
Varied == {First, Second, OtherConfig, OwnId, OtherEndpoint}

Outputs == {<<o1>>, <<o2>>}
OneOutput == {<<o1>>}

Baselines ==
  [config : {r.config : r \in Request}, input : {r.input : r \in Request}, output : Output,
   id : Entry \X (1..MaxGeneration + 1)]

Symmetry == Permutations(Entry) \cup Permutations(Timer) \cup Permutations(Caller)
=============================================================================
