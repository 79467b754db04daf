----------------------- MODULE ResponseAssembly_proofs -----------------------
(***************************************************************************)
(* Lemmas about the operators of ResponseState: what a list of items is,   *)
(* what an event finds, and what it writes.                                *)
(***************************************************************************)
EXTENDS ResponseAssembly, FiniteSetTheorems, SequenceTheorems, TLAPS

-----------------------------------------------------------------------------
(* The order of items                                                      *)

LEMMA BeforeGrows ==
  ASSUME NEW S, S \subseteq Int, IsFiniteSet(S),
         NEW x \in S, NEW y \in S, x < y
  PROVE  /\ Cardinality(Before(x, S)) \in Nat /\ Cardinality(Before(y, S)) \in Nat
         /\ Cardinality(Before(x, S)) < Cardinality(Before(y, S))
<1>1. Before(x, S) \in SUBSET Before(y, S) /\ x \in Before(y, S) /\ x \notin Before(x, S)
  <2>1. x \in Int /\ y \in Int /\ \A z \in S : z \in Int
    OBVIOUS
  <2>2. \A z \in S : z < x => z < y
    BY <2>1
  <2>3. ~(x < x)
    BY <2>1
  <2> QED BY <2>2, <2>3 DEF Before
<1>2. IsFiniteSet(Before(y, S))
  BY FS_Subset DEF Before
<1>3. /\ Cardinality(Before(x, S)) \in Nat /\ Cardinality(Before(y, S)) \in Nat
      /\ Cardinality(Before(x, S)) <= Cardinality(Before(y, S))
      /\ Cardinality(Before(x, S)) # Cardinality(Before(y, S))
  BY <1>1, <1>2, FS_Subset, FS_CardinalityType
<1> QED BY <1>3

(* Each place of the order has one index, and each index one place.        *)
LEMMA Places ==
  ASSUME NEW S, S \subseteq Int, IsFiniteSet(S)
  PROVE  /\ Cardinality(S) \in Nat
         /\ \A x \in S : Cardinality(Before(x, S)) \in 0..(Cardinality(S) - 1)
         /\ \A n \in 1..Cardinality(S) : \E x \in S : Cardinality(Before(x, S)) = n - 1
<1> DEFINE n == Cardinality(S)
           place == [x \in S |-> Cardinality(Before(x, S)) + 1]
<1>1. n \in Nat
  BY FS_CardinalityType
<1>2. ASSUME NEW x \in S
      PROVE  Cardinality(Before(x, S)) \in 0..(n - 1)
  <2>1. /\ Before(x, S) \in SUBSET S /\ Before(x, S) # S
    BY DEF Before
  <2>2. /\ IsFiniteSet(Before(x, S)) /\ Cardinality(Before(x, S)) <= n
        /\ Cardinality(Before(x, S)) # n
    BY <2>1, FS_Subset
  <2>3. Cardinality(Before(x, S)) \in Nat
    BY <2>2, FS_CardinalityType
  <2> QED BY <1>1, <2>2, <2>3
<1>3. place \in [S -> 1..n]
  BY <1>1, <1>2
<1>4. ASSUME NEW x \in S, NEW y \in S, place[x] = place[y]
      PROVE  x = y
  <2>1. Cardinality(Before(x, S)) = Cardinality(Before(y, S))
    BY <1>1, <1>2, <1>4
  <2>2. x < y \/ y < x \/ x = y
    OBVIOUS
  <2>3. ASSUME NEW v \in S, NEW w \in S, v < w
        PROVE  Cardinality(Before(v, S)) # Cardinality(Before(w, S))
    <3>1. /\ Cardinality(Before(v, S)) \in Nat /\ Cardinality(Before(w, S)) \in Nat
          /\ Cardinality(Before(v, S)) < Cardinality(Before(w, S))
      BY <2>3, BeforeGrows
    <3> QED BY <3>1
  <2> HIDE DEF place
  <2> QED BY <2>1, <2>2, <2>3
<1> HIDE DEF place
<1>5. place \in Injection(S, 1..n)
  BY <1>3, <1>4 DEF Injection, IsInjective
<1>6. IsFiniteSet(1..n) /\ Cardinality(1..n) = n
  BY <1>1, FS_Interval
<1>7. place \in Surjection(S, 1..n)
  BY <1>5, <1>6, FS_Injection
<1>8. ASSUME NEW k \in 1..n
      PROVE  \E x \in S : Cardinality(Before(x, S)) = k - 1
  <2>1. PICK x \in S : place[x] = k
    BY <1>7 DEF Surjection
  <2>2. Cardinality(Before(x, S)) + 1 = k
    BY <2>1 DEF place
  <2> QED BY <1>1, <1>2, <2>2
<1> QED BY <1>1, <1>2, <1>8

(* The output of a snapshot has every item once, in the order of the       *)
(* output indices, whatever order the events came in.                      *)
THEOREM ListedInOrder ==
  ASSUME NEW items, DOMAIN items \subseteq Int, IsFiniteSet(DOMAIN items)
  PROVE  \E order \in [1..Cardinality(DOMAIN items) -> DOMAIN items] :
           /\ Listed(items) = [n \in 1..Cardinality(DOMAIN items) |-> items[order[n]]]
           /\ \A m, n \in 1..Cardinality(DOMAIN items) : m < n => order[m] < order[n]
           /\ \A i \in DOMAIN items : \E n \in 1..Cardinality(DOMAIN items) : order[n] = i
<1> DEFINE S == DOMAIN items
           At(n) == CHOOSE i \in S : Cardinality(Before(i, S)) = n - 1
           order == [n \in 1..Cardinality(S) |-> At(n)]
<1>1. Cardinality(S) \in Nat
  BY Places
<1>2. ASSUME NEW n \in 1..Cardinality(S)
      PROVE  At(n) \in S /\ Cardinality(Before(At(n), S)) = n - 1
  BY Places
<1>3. ASSUME NEW m \in 1..Cardinality(S), NEW n \in 1..Cardinality(S), m < n
      PROVE  At(m) < At(n)
  <2>1. /\ At(m) \in Int /\ At(n) \in Int
        /\ Cardinality(Before(At(m), S)) < Cardinality(Before(At(n), S))
    BY <1>1, <1>2, <1>3
  <2>2. ~(At(n) < At(m)) /\ At(m) # At(n)
    <3> HIDE DEF At
    <3> QED BY <1>1, <1>2, <2>1, BeforeGrows
  <2> QED BY <2>1, <2>2
<1>4. ASSUME NEW i \in S
      PROVE  \E n \in 1..Cardinality(S) : At(n) = i
  <2>1. PICK n \in 1..Cardinality(S) : Cardinality(Before(i, S)) = n - 1
    <3>1. Cardinality(Before(i, S)) \in 0..(Cardinality(S) - 1)
      BY Places
    <3> QED BY <1>1, <3>1
  <2>2. At(n) \in S /\ Cardinality(Before(At(n), S)) = Cardinality(Before(i, S))
    BY <1>2, <2>1
  <2>3. At(n) = i
    <3> HIDE DEF At
    <3> QED BY <2>2, BeforeGrows
  <2> QED BY <2>3
<1>5. Listed(items) = [n \in 1..Cardinality(S) |-> items[order[n]]]
  BY DEF Listed
<1> HIDE DEF At
<1>6. order \in [1..Cardinality(S) -> S]
  BY <1>2
<1> QED BY <1>3, <1>4, <1>5, <1>6

LEMMA SnapshotIsResponse ==
  ASSUME NEW items, DOMAIN items \subseteq Int, IsFiniteSet(DOMAIN items),
         \A i \in DOMAIN items : items[i] \in Item,
         NEW payload, payload.model \in STRING \cup {None},
         payload.status \in STRING \cup {None}, payload.reason \in STRING \cup {None}
  PROVE  Response(payload, items) \in ResponseRecord
<1>1. Cardinality(DOMAIN items) \in Nat
  BY FS_CardinalityType
<1>2. Listed(items) \in [1..Cardinality(DOMAIN items) -> Item]
  <2>1. PICK order \in [1..Cardinality(DOMAIN items) -> DOMAIN items] :
          Listed(items) = [n \in 1..Cardinality(DOMAIN items) |-> items[order[n]]]
    BY ListedInOrder
  <2> QED BY <2>1
<1>3. Listed(items) \in Seq(Item)
  BY <1>1, <1>2, SeqDef
<1> QED BY <1>3 DEF Response, WithOutput, ResponseRecord
=============================================================================
