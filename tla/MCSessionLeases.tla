-------------------------- MODULE MCSessionLeases --------------------------
EXTENDS SessionLeases, TLC

Symmetry == Permutations(Entry) \cup Permutations(Timer) \cup Permutations(Caller)
              \cup Permutations(Session) \cup Permutations(Endpoint)
=============================================================================
