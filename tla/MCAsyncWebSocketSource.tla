---------------------- MODULE MCAsyncWebSocketSource ----------------------
(* Calls of one session that may be continued, that bring their own id, or *)
(* that go to another endpoint; and a call without a session.              *)
EXTENDS AsyncWebSocketSource, TLC

CONSTANTS s1, x1, x2

Call(session, endpoint, manual) ==
  [session |-> session, endpoint |-> endpoint, manual |-> manual]

Calls == {Call(s1, x1, FALSE), Call(s1, x1, TRUE), Call(s1, x2, FALSE)}
OneCall == {Call(s1, x1, FALSE)}

Counts == 1..2

Symmetry == Permutations(Entry) \cup Permutations(Timer) \cup Permutations(Caller)
=============================================================================
