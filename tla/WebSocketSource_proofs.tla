------------------------ MODULE WebSocketSource_proofs ------------------------
(***************************************************************************)
(* The streams of the synchronous client keep the contract of the pool,    *)
(* so what is proved of every caller that keeps it (SessionLeases_proofs)  *)
(* holds of them; on top of it, one inductive invariant gives the safety   *)
(* properties of WebSocketSource.                                          *)
(***************************************************************************)
EXTENDS WebSocketSource, SessionPool_proofs, SequenceTheorems

(* The contract with its theorems, under the same mapping as Leases.       *)
P == INSTANCE SessionLeases_proofs WITH
       pc <- LeasePc, lease <- lease, manual <- LeaseManual

-----------------------------------------------------------------------------
(* The operations of the pool are the contract's: they have the same       *)
(* definitions over the same variables.                                    *)

LEMMA SameReserve ==
  ASSUME NEW s, NEW x, NEW m, NEW e
  PROVE  /\ P!Reuse(s, x, m, e) <=> Reuse(s, x, m, e)
         /\ \A v : P!Create(s, x, m, e, v) <=> Create(s, x, m, e, v)
         /\ P!Unreferenced(e) <=> Unreferenced(e)
<1>1. P!Reuse(s, x, m, e) <=> Reuse(s, x, m, e)
  BY DEF
     P!Reuse, P!Stale, P!Cached, P!EntryWithout, P!Taken, P!EntriesWithout, P!Cancelled,
     P!Removed, P!FreeTimer, P!Blank, P!NewEntry, Reuse, Stale, Cached, EntryWithout, Taken,
     EntriesWithout, Cancelled, Removed, FreeTimer, Blank, NewEntry
<1>2. ASSUME NEW v PROVE P!Create(s, x, m, e, v) <=> Create(s, x, m, e, v)
  BY DEF
     P!Create, P!Stale, P!Cached, P!Evictions, P!EntryWithout, P!NewEntry, P!Persists,
     P!EntriesWithout, P!Cancelled, P!Wanted, P!Full, P!LeastRecent, P!Removed, P!FreeTimer,
     P!CachedSessions, P!Blank, P!Cardinality, P!IsFiniteSet, Create, Stale, Cached, Evictions,
     EntryWithout, NewEntry, Persists, EntriesWithout, Cancelled, Wanted, Full, LeastRecent,
     Removed, FreeTimer, CachedSessions, Blank, Cardinality, IsFiniteSet
<1>3. P!Unreferenced(e) <=> Unreferenced(e)
  BY DEF P!Unreferenced, Unreferenced
<1> QED BY <1>1, <1>2, <1>3

LEMMA SameRelease ==
  ASSUME NEW e, NEW m, NEW b
  PROVE  /\ P!Attach(e) <=> Attach(e)
         /\ P!DropBaseline(e) <=> DropBaseline(e)
         /\ P!ReleaseKeep(e, m, b) <=> ReleaseKeep(e, m, b)
         /\ P!ScheduleNothing(e) <=> ScheduleNothing(e)
  BY DEF
     P!Attach, P!DropBaseline, P!ReleaseKeep, P!Keeps, P!Returned, P!ScheduleNothing,
     P!poolVars, Attach, DropBaseline, ReleaseKeep, Keeps, Returned, ScheduleNothing, poolVars

LEMMA SameDrop ==
  ASSUME NEW e, NEW k, NEW m
  PROVE  /\ P!ReleaseDrop(e, k, m) <=> ReleaseDrop(e, k, m)
  BY DEF
     P!ReleaseDrop, P!Keeps, P!RemoveEntries, P!EntryWithout, P!EntriesWithout, P!Cancelled,
     P!Removed, P!FreeTimer, P!Blank, P!NewEntry, ReleaseDrop, Keeps, RemoveEntries,
     EntryWithout, EntriesWithout, Cancelled, Removed, FreeTimer, Blank, NewEntry

LEMMA SameTimers ==
  ASSUME NEW e, NEW t
  PROVE  /\ P!Schedule(e, t) <=> Schedule(e, t)
         /\ P!Fire(t) <=> Fire(t)
         /\ P!Expire(t) <=> Expire(t)
         /\ P!Dispose(t) <=> Dispose(t)
  BY DEF
     P!Schedule, P!Fire, P!Expire, P!Outdated, P!FreeTimer, P!EntryWithout, P!EntriesWithout,
     P!Cancelled, P!Removed, P!Blank, P!NewEntry, P!Dispose, Schedule, Fire, Expire, Outdated,
     FreeTimer, EntryWithout, EntriesWithout, Cancelled, Removed, Blank, NewEntry, Dispose

LEMMA SameClears ==
  ASSUME NEW s
  PROVE  /\ P!ClearSession(s) <=> ClearSession(s)
         /\ P!ClearAll <=> ClearAll
         /\ P!Tick <=> Tick
  BY DEF
     P!ClearSession, P!RemoveEntries, P!OfSession, P!EntryWithout, P!EntriesWithout,
     P!Cancelled, P!Removed, P!FreeTimer, P!Blank, P!NewEntry, P!ClearAll, P!Tick, P!Older,
     ClearSession, RemoveEntries, OfSession, EntryWithout, EntriesWithout, Cancelled, Removed,
     FreeTimer, Blank, NewEntry, ClearAll, Tick, Older

-----------------------------------------------------------------------------
(* What the contract says of the streams is what its theorems are about.   *)

LEMMA SameSteps == [P!Next]_P!vars <=> [Leases!Next]_Leases!vars
<1>1. ASSUME NEW c PROVE P!ReserveCached(c) <=> Leases!ReserveCached(c)
  BY DEF
     P!ReserveCached, P!Asking, P!Reuse, P!Leased, P!Stale, P!Cached, P!EntryWithout, P!Taken,
     P!EntriesWithout, P!Cancelled, P!Goto, P!Removed, P!FreeTimer, P!Blank, P!NewEntry,
     Leases!ReserveCached, Leases!Asking, Leases!Reuse, Leases!Leased, Leases!Stale,
     Leases!Cached, Leases!EntryWithout, Leases!Taken, Leases!EntriesWithout, Leases!Cancelled,
     Leases!Goto, Leases!Removed, Leases!FreeTimer, Leases!Blank, Leases!NewEntry
<1>2. ASSUME NEW c PROVE P!ReserveNew(c) <=> Leases!ReserveNew(c)
  BY DEF
     P!ReserveNew, P!Asking, P!Fresh, P!Create, P!Leased, P!Unreferenced, P!Stale, P!Cached,
     P!Evictions, P!EntryWithout, P!NewEntry, P!Persists, P!EntriesWithout, P!Cancelled,
     P!Goto, P!Wanted, P!Full, P!LeastRecent, P!Removed, P!FreeTimer, P!CachedSessions,
     P!Blank, P!Cardinality, P!IsFiniteSet, Leases!ReserveNew, Leases!Asking, Leases!Fresh,
     Leases!Create, Leases!Leased, Leases!Unreferenced, Leases!Stale, Leases!Cached,
     Leases!Evictions, Leases!EntryWithout, Leases!NewEntry, Leases!Persists,
     Leases!EntriesWithout, Leases!Cancelled, Leases!Goto, Leases!Wanted, Leases!Full,
     Leases!LeastRecent, Leases!Removed, Leases!FreeTimer, Leases!CachedSessions, Leases!Blank,
     Leases!Cardinality, Leases!IsFiniteSet
<1>3. ASSUME NEW c PROVE P!AttachSocket(c) <=> Leases!AttachSocket(c)
  BY DEF
     P!AttachSocket, P!Attach, Leases!AttachSocket, Leases!Attach
<1>4. ASSUME NEW c PROVE P!Plan(c) <=> Leases!Plan(c)
  BY DEF
     P!Plan, P!Goto, P!DropBaseline, P!poolVars, Leases!Plan, Leases!Goto, Leases!DropBaseline,
     Leases!poolVars
<1>5. ASSUME NEW c PROVE P!Keep(c) <=> Leases!Keep(c)
  BY DEF
     P!Keep, P!ReleaseKeep, P!Goto, P!Keeps, P!Returned, Leases!Keep, Leases!ReleaseKeep,
     Leases!Goto, Leases!Keeps, Leases!Returned
<1>6. ASSUME NEW c PROVE P!Drop(c) <=> Leases!Drop(c)
  BY DEF
     P!Drop, P!Holding, P!ReleaseDrop, P!Goto, P!Keeps, P!RemoveEntries, P!EntryWithout,
     P!EntriesWithout, P!Cancelled, P!Removed, P!FreeTimer, P!Blank, P!NewEntry, Leases!Drop,
     Leases!Holding, Leases!ReleaseDrop, Leases!Goto, Leases!Keeps, Leases!RemoveEntries,
     Leases!EntryWithout, Leases!EntriesWithout, Leases!Cancelled, Leases!Removed,
     Leases!FreeTimer, Leases!Blank, Leases!NewEntry
<1>7. ASSUME NEW c PROVE P!ScheduleExpiry(c) <=> Leases!ScheduleExpiry(c)
  BY DEF
     P!ScheduleExpiry, P!Schedule, P!ScheduleNothing, P!Forget, P!poolVars, P!Goto,
     Leases!ScheduleExpiry, Leases!Schedule, Leases!ScheduleNothing, Leases!Forget,
     Leases!poolVars, Leases!Goto
<1>8. ASSUME NEW c PROVE P!Finish(c) <=> Leases!Finish(c)
  BY DEF
     P!Finish, P!Forget, P!poolVars, P!Goto, Leases!Finish, Leases!Forget, Leases!poolVars,
     Leases!Goto
<1>9. ASSUME NEW c PROVE P!TimerStep(c) <=> Leases!TimerStep(c)
  BY DEF
     P!TimerStep, P!Fire, P!Expire, P!Dispose, P!Outdated, P!FreeTimer, P!EntryWithout,
     P!EntriesWithout, P!Cancelled, P!Removed, P!Blank, P!NewEntry, Leases!TimerStep,
     Leases!Fire, Leases!Expire, Leases!Dispose, Leases!Outdated, Leases!FreeTimer,
     Leases!EntryWithout, Leases!EntriesWithout, Leases!Cancelled, Leases!Removed,
     Leases!Blank, Leases!NewEntry
<1>10. P!CloseSession <=> Leases!CloseSession
  BY DEF
     P!CloseSession, P!ClearSession, P!RemoveEntries, P!OfSession, P!EntryWithout,
     P!EntriesWithout, P!Cancelled, P!Removed, P!FreeTimer, P!Blank, P!NewEntry,
     Leases!CloseSession, Leases!ClearSession, Leases!RemoveEntries, Leases!OfSession,
     Leases!EntryWithout, Leases!EntriesWithout, Leases!Cancelled, Leases!Removed,
     Leases!FreeTimer, Leases!Blank, Leases!NewEntry
<1>11. P!Close <=> Leases!Close
  BY DEF
     P!Close, P!ClearAll, P!RemoveEntries, P!EntryWithout, P!EntriesWithout, P!Cancelled,
     P!Removed, P!FreeTimer, P!Blank, P!NewEntry, Leases!Close, Leases!ClearAll,
     Leases!RemoveEntries, Leases!EntryWithout, Leases!EntriesWithout, Leases!Cancelled,
     Leases!Removed, Leases!FreeTimer, Leases!Blank, Leases!NewEntry
<1>12. P!Pass <=> Leases!Pass
  BY DEF
     P!Pass, P!Tick, P!Older, Leases!Pass, Leases!Tick, Leases!Older
<1>13. P!Next <=> Leases!Next
  BY <1>1, <1>2, <1>3, <1>4, <1>5, <1>6, <1>7, <1>8, <1>9, <1>10, <1>11, <1>12, Zenon
     DEF P!Next, Leases!Next
<1>14. (P!vars' = P!vars) <=> (Leases!vars' = Leases!vars)
  BY DEF P!vars, P!poolVars, Leases!vars, Leases!poolVars
<1> QED BY <1>13, <1>14

LEMMA SameInit == P!Init <=> Leases!Init
  BY DEF
     P!Init, P!PoolInit, P!Blank, P!FreeTimer, P!NewEntry, Leases!Init, Leases!PoolInit,
     Leases!Blank, Leases!FreeTimer, Leases!NewEntry

LEMMA SameInvariant ==
  /\ P!IInv <=> Leases!IInv
  /\ P!DroppedIsGone <=> Leases!DroppedIsGone
<1>1. P!TypeOK <=> Leases!TypeOK
  BY DEF
     P!TypeOK, P!PoolTypeOK, P!EntryRecord, P!TimerRecord, Leases!TypeOK, Leases!PoolTypeOK,
     Leases!EntryRecord, Leases!TimerRecord
<1>2. /\ P!IndexesAgree <=> Leases!IndexesAgree
      /\ P!OpenIsAttached <=> Leases!OpenIsAttached
      /\ P!LeaseExclusive <=> Leases!LeaseExclusive
      /\ P!BusyMeansHeld <=> Leases!BusyMeansHeld
  BY DEF
     P!IndexesAgree, P!OpenIsAttached, P!LeaseExclusive, P!Holding, P!BusyMeansHeld,
     Leases!IndexesAgree, Leases!OpenIsAttached, Leases!LeaseExclusive, Leases!Holding,
     Leases!BusyMeansHeld
<1>3. /\ P!IdleIsReusable <=> Leases!IdleIsReusable
      /\ P!TimerIsCurrent <=> Leases!TimerIsCurrent
      /\ P!TimersAreOlder <=> Leases!TimersAreOlder
      /\ P!IdleIsTimed <=> Leases!IdleIsTimed
      /\ P!TimersWaitLongEnough <=> Leases!TimersWaitLongEnough
  BY DEF
     P!IdleIsReusable, P!TimerIsCurrent, P!Running, P!TimersAreOlder, P!IdleIsTimed,
     P!TimersWaitLongEnough, Leases!IdleIsReusable, Leases!TimerIsCurrent, Leases!Running,
     Leases!TimersAreOlder, Leases!IdleIsTimed, Leases!TimersWaitLongEnough
<1>4. /\ P!OneEndpoint <=> Leases!OneEndpoint
      /\ P!ClosedIsEmpty <=> Leases!ClosedIsEmpty
      /\ P!RemovedHoldsNoHistory <=> Leases!RemovedHoldsNoHistory
  BY DEF
     P!OneEndpoint, P!ClosedIsEmpty, P!RemovedHoldsNoHistory, Leases!OneEndpoint,
     Leases!ClosedIsEmpty, Leases!RemovedHoldsNoHistory
<1>5. P!Capacity <=> Leases!Capacity
  BY DEF
     P!Capacity, P!Cardinality, P!IsFiniteSet, Leases!Capacity, Leases!Cardinality,
     Leases!IsFiniteSet
<1> QED BY <1>1, <1>2, <1>3, <1>4, <1>5 DEF P!IInv, Leases!IInv, P!DroppedIsGone, Leases!DroppedIsGone

-----------------------------------------------------------------------------
(* The places of a caller as the contract sees them.                       *)
Holds(c) == pc[c] \in Acquiring \cup Opened

LEMMA Places ==
  ASSUME NEW place, NEW e
  PROVE  /\ place \in Acquiring => LeasePlace(place, e) = "leased"
         /\ place \in Opened => LeasePlace(place, e) = "open"
         /\ place = "scheduling" => LeasePlace(place, e) = "scheduling"
         /\ place \in Parted => LeasePlace(place, e) = IF e = None THEN "idle" ELSE "dropped"
  BY DEF LeasePlace, Acquiring, Opened, Parted

(* What the invariant of the contract says in terms of the streams.        *)
PoolFacts ==
  /\ PoolTypeOK
  /\ \A e \in Entry : entry[e].valid <=> e \in active
  /\ \A e \in Entry \ active : entry[e].base = None
  /\ \A s \in Session : entries[s] \in active \cup {None}
  /\ \A c, d \in Caller : c # d /\ Holds(c) /\ Holds(d) => lease[c] # lease[d]
  /\ \A c \in Caller : Holds(c) \/ pc[c] = "scheduling" => lease[c] \in Entry
  /\ \A c \in Caller : pc[c] \in Opened => entry[lease[c]].attached
  /\ \A c \in Caller : pc[c] \in Parted => lease[c] \notin active
  /\ \A e \in active : entry[e].busy <=> \E c \in Caller : Holds(c) /\ lease[c] = e

LEMMA PoolMeaning ==
  CallerTypeOK /\ P!IInv /\ P!DroppedIsGone => PoolFacts
<1> SUFFICES ASSUME CallerTypeOK, P!IInv, P!DroppedIsGone PROVE PoolFacts
  OBVIOUS
<1>1. \A c \in Caller : P!Holding(c) <=> Holds(c)
  BY Places DEF P!Holding, Holds, LeasePc, CallerTypeOK, LeasePlace, Acquiring, Opened, Parted
<1>2. PoolTypeOK
  BY DEF P!IInv, P!TypeOK, P!PoolTypeOK, PoolTypeOK, P!EntryRecord, EntryRecord,
         P!TimerRecord, TimerRecord
<1>3. \A e \in Entry : entry[e].valid <=> e \in active
  BY DEF P!IInv, P!IndexesAgree
<1>4. \A e \in Entry \ active : entry[e].base = None
  BY DEF P!IInv, P!RemovedHoldsNoHistory
<1>5. \A c, d \in Caller : c # d /\ Holds(c) /\ Holds(d) => lease[c] # lease[d]
  BY <1>1 DEF P!IInv, P!LeaseExclusive
<1>6. \A c \in Caller : Holds(c) \/ pc[c] = "scheduling" => lease[c] \in Entry
  BY Places DEF P!IInv, P!TypeOK, Holds, LeasePc, CallerTypeOK
<1>7. \A c \in Caller : pc[c] \in Opened => entry[lease[c]].attached
  BY Places DEF P!IInv, P!OpenIsAttached, LeasePc
<1>8. \A c \in Caller : pc[c] \in Parted => lease[c] \notin active
  BY Places, <1>2, NoneAssumption DEF P!DroppedIsGone, LeasePc, PoolTypeOK, NoneAssumption
<1>9. \A e \in active : entry[e].busy <=> \E c \in Caller : Holds(c) /\ lease[c] = e
  BY <1>1 DEF P!IInv, P!BusyMeansHeld
<1>10. \A s \in Session : entries[s] \in active \cup {None}
  BY DEF P!IInv, P!IndexesAgree
<1> QED BY <1>2, <1>3, <1>4, <1>5, <1>6, <1>7, <1>8, <1>9, <1>10 DEF PoolFacts

LEMMA PoolMeaningNext ==
  CallerTypeOK' /\ P!IInv' /\ P!DroppedIsGone' => PoolFacts'
  BY PoolMeaning, PTL

-----------------------------------------------------------------------------
(* What follows a prefix is the rest of the sequence.                      *)
LEMMA RestOfConcat ==
  ASSUME NEW S, NEW s \in Seq(S), NEW t \in Seq(S)
  PROVE  SubSeq(s \o t, Len(s) + 1, Len(s \o t)) = t
<1>1. Len(s) \in Nat /\ Len(t) \in Nat /\ Len(s \o t) = Len(s) + Len(t)
  BY ConcatProperties, LenProperties
<1>2. CASE t = <<>>
  BY <1>1, <1>2, SubSeqEmpty, EmptySeq
<1>3. CASE t # <<>>
  <2>1. Len(t) > 0
    BY <1>1, <1>3, EmptySeq
  <2>2. SubSeq(s \o t, Len(s) + 1, Len(s) + Len(t)) = SubSeq(t, 1, Len(t))
    BY <1>1, <2>1, SubSeqOfConcat2
  <2> QED BY <1>1, <2>2, SubSeqFull
<1> QED BY <1>2, <1>3

LEMMA PrefixAndRest ==
  ASSUME NEW S, NEW s \in Seq(S), NEW t \in Seq(S), IsPrefix(s, t)
  PROVE  /\ SubSeq(t, Len(s) + 1, Len(t)) \in Seq(S)
         /\ s \o SubSeq(t, Len(s) + 1, Len(t)) = t
<1>1. Len(s) \in Nat /\ Len(t) \in Nat /\ Len(s) <= Len(t)
  BY LenProperties DEF IsPrefix
<1>2. s = SubSeq(t, 1, Len(s)) /\ t = SubSeq(t, 1, Len(t))
  BY SubSeqFull DEF IsPrefix
<1>3. SubSeq(t, 1, Len(s)) \o SubSeq(t, Len(s) + 1, Len(t)) = SubSeq(t, 1, Len(t))
  <2>1. /\ 1 \in 1..(Len(t) + 1) /\ Len(s) \in (1 - 1)..Len(t)
        /\ Len(t) \in Len(s)..Len(t)
    BY <1>1
  <2> HIDE <1>1
  <2> QED BY <2>1, ConcatAdjacentSubSeq
<1>4. \A i \in (Len(s) + 1)..Len(t) : t[i] \in S
  BY <1>1, ElementOfSeq
<1>5. SubSeq(t, Len(s) + 1, Len(t)) \in Seq(S)
  <2>1. Len(s) + 1 \in Int /\ Len(t) \in Int
    BY <1>1
  <2> QED BY <1>4, <2>1, SubSeqProperties
<1> QED BY <1>2, <1>3, <1>5

(* What a caller keeps of a completed response is a baseline of the pool.  *)
LEMMA CommitIsBaseline ==
  ASSUME TypeOK, CompletedIsLatest, OneResponsePerLease,
         NEW c \in Caller, pc[c] = "completed", request[c] \in Request,
         lease[c] \in active, ~IsManual(request[c])
  PROVE  /\ Commit(c) \in Baseline
         /\ Commit(c).id = conn[lease[c]].id
         /\ Commit(c).config = conn[lease[c]].config
         /\ conn[lease[c]].context = Commit(c).input \o Commit(c).output
<1> DEFINE k == conn[lease[c]]
<1>1. /\ k # None /\ sent[c] # None /\ sent[c] = request[c].input
      /\ k.id = <<lease[c], k.count>> /\ k.count > 0 /\ k.config = request[c].config
  BY DEF CompletedIsLatest, IsLatest
<1>2. PICK o \in Output : k.context = sent[c] \o o
  BY DEF CompletedIsLatest, IsLatest
<1>3. lease[c] \in Entry
  BY DEF TypeOK, PoolTypeOK
<1>4. k \in ConnectionRecord /\ sent[c] \in Seq(Item) /\ o \in Seq(Item)
  BY <1>1, <1>3, RequestAssumption DEF TypeOK, RequestAssumption
<1>5. k.count \in 1..(MaxGeneration + 1)
  <2>1. k.count \in Nat /\ entry[lease[c]].generation \in 0..MaxGeneration
    BY <1>3, <1>4 DEF ConnectionRecord, TypeOK, PoolTypeOK, EntryRecord
  <2>2. k.count <= entry[lease[c]].generation + 1
    <3>1. Completing(lease[c])
      BY DEF Completing
    <3> QED BY <1>1, <3>1 DEF OneResponsePerLease, CountFits
  <2> QED BY <1>1, <2>1, <2>2, LimitsAssumption DEF LimitsAssumption
<1>6. SubSeq(k.context, Len(sent[c]) + 1, Len(k.context)) = o
  BY <1>2, <1>4, RestOfConcat
<1>7. Commit(c) = [config |-> request[c].config, input |-> request[c].input, output |-> o,
                   id |-> <<lease[c], k.count>>]
  BY <1>1, <1>6 DEF Commit
<1>8. Commit(c) \in Baseline
  BY <1>3, <1>5, <1>7, BaselineAssumption DEF BaselineAssumption, IsManual
<1> HIDE DEF k
<1>9. /\ Commit(c).id = k.id /\ Commit(c).config = k.config
      /\ k.context = Commit(c).input \o Commit(c).output
  BY <1>1, <1>2, <1>7
<1> QED BY <1>8, <1>9 DEF k

-----------------------------------------------------------------------------
(* How a step of one caller moves it in the eyes of the contract.          *)
LEMMA MapMoves ==
  ASSUME CallerTypeOK, NEW c \in Caller, NEW place, Goto(c, place),
         lease' = lease, request' = request
  PROVE  /\ LeasePc' = [LeasePc EXCEPT ![c] = LeasePlace(place, lease[c])]
         /\ LeaseManual' = LeaseManual
  BY DEF CallerTypeOK, Goto, LeasePc, LeaseManual

LEMMA MapLeases ==
  ASSUME CallerTypeOK, NEW c \in Caller, NEW place, Goto(c, place),
         NEW e, lease' = [lease EXCEPT ![c] = e]
  PROVE  LeasePc' = [LeasePc EXCEPT ![c] = LeasePlace(place, e)]
  BY DEF CallerTypeOK, Goto, LeasePc

LEMMA MapStays ==
  ASSUME CallerTypeOK, NEW c \in Caller, NEW place, Goto(c, place),
         lease' = lease, request' = request,
         LeasePlace(place, lease[c]) = LeasePlace(pc[c], lease[c])
  PROVE  LeasePc' = LeasePc /\ LeaseManual' = LeaseManual
  BY DEF CallerTypeOK, Goto, LeasePc, LeaseManual

LEMMA MapFrame ==
  ASSUME pc' = pc, lease' = lease, request' = request
  PROVE  LeasePc' = LeasePc /\ LeaseManual' = LeaseManual
  BY DEF LeasePc, LeaseManual

-----------------------------------------------------------------------------
(* Every step of a stream is a step of the contract, or none of it.        *)

(* reserve leases an entry to a caller that holds none.                    *)
LEMMA ReserveContract ==
  ASSUME TypeOK, CallersKnowTheirEntry, NEW c \in Caller, Reserve(c)
  PROVE  P!ReserveCached(c) \/ P!ReserveNew(c)
<1> DEFINE r == request[c]
           m == IsManual(r)
<1>1. r \in Request
  BY DEF TypeOK, CallerTypeOK, CallersKnowTheirEntry, Reserve
<1>2. r.session \in Session \cup {None} /\ r.endpoint \in Endpoint /\ m \in BOOLEAN
  BY <1>1, RequestAssumption DEF RequestAssumption, IsManual
<1>3. PICK e \in Entry :
        /\ \/ Reuse(r.session, r.endpoint, m, e)
           \/ Unused(e) /\ \E v \in SUBSET Entry : Create(r.session, r.endpoint, m, e, v)
        /\ lease' = [lease EXCEPT ![c] = e]
  BY DEF Reserve
<1>4. e # None
  BY NoneAssumption DEF NoneAssumption
<1>5. LeasePc' = [LeasePc EXCEPT ![c] = "leased"]
  <2>1. LeasePlace("disposing", e) = "leased"
    BY Places DEF Acquiring
  <2>2. CallerTypeOK /\ Goto(c, "disposing")
    BY DEF TypeOK, Reserve
  <2>3. lease' = [lease EXCEPT ![c] = e]
    BY <1>3
  <2>4. LeasePc' = [LeasePc EXCEPT ![c] = LeasePlace("disposing", e)]
    BY <2>2, <2>3, MapLeases
  <2> QED BY <2>1, <2>4
<1>6. LeaseManual' = [LeaseManual EXCEPT ![c] = m]
  <2>1. request' = request /\ lease \in [Caller -> Entry \cup {None}]
    BY DEF Reserve, TypeOK, CallerTypeOK
  <2>2. request[c] # None
    BY <1>1, RequestAssumption DEF RequestAssumption
  <2>3. LeaseManual'[c] <=> m
    BY <1>3, <1>4, <2>1, <2>2 DEF LeaseManual
  <2>4. \A d \in Caller \ {c} : LeaseManual'[d] <=> LeaseManual[d]
    BY <1>3, <2>1 DEF LeaseManual
  <2> QED BY <1>2, <2>3, <2>4 DEF LeaseManual
<1>7. P!Leased(c, e, m)
  BY <1>3, <1>5, <1>6 DEF P!Leased, P!Goto
<1>8. P!Asking(c)
  BY Places DEF Reserve, P!Asking, LeasePc, Parted
<1>9. CASE Reuse(r.session, r.endpoint, m, e)
  <2>1. m = FALSE /\ r.session \in Session
    BY <1>2, <1>4, <1>9 DEF Reuse, Cached
  <2>2. P!Reuse(r.session, r.endpoint, FALSE, e)
    BY <1>9, <2>1, SameReserve
  <2> QED BY <1>2, <1>7, <1>8, <2>1, <2>2 DEF P!ReserveCached
<1>10. CASE Unused(e) /\ \E v \in SUBSET Entry : Create(r.session, r.endpoint, m, e, v)
  <2>1. P!Fresh(e)
    BY <1>10, SameReserve DEF Unused, P!Fresh
  <2>2. \E v \in SUBSET Entry : P!Create(r.session, r.endpoint, m, e, v)
    BY <1>10, SameReserve
  <2> QED BY <1>2, <1>7, <1>8, <2>1, <2>2 DEF P!ReserveNew
<1> QED BY <1>3, <1>9, <1>10

(* attach and plan_request act on the leased entry.                        *)
LEMMA SocketContract ==
  ASSUME TypeOK, PoolFacts, SocketsAreAttached, NEW c \in Caller,
         AttachSocket(c) \/ PlanGuard(c) \/ PlanCompare(c)
  PROVE  P!AttachSocket(c) \/ P!Plan(c) \/ UNCHANGED P!vars
<1> USE Places DEF TypeOK
<1>2. CASE AttachSocket(c)
  <2>1. LeasePc[c] = "leased" /\ ~entry[lease[c]].attached
    BY <1>2 DEF AttachSocket, LeasePc, SocketsAreAttached, Acquiring
  <2>2. LeasePc' = LeasePc /\ LeaseManual' = LeaseManual
    <3>1. ASSUME NEW q \in {"planning", "releasing"}, Goto(c, q)
          PROVE  LeasePc' = LeasePc /\ LeaseManual' = LeaseManual
      BY <1>2, <3>1, MapStays DEF AttachSocket, Acquiring
    <3> QED BY <1>2, <3>1 DEF AttachSocket
  <2>3. CASE Attach(lease[c])
    BY <1>2, <2>1, <2>2, <2>3, SameRelease DEF AttachSocket, P!AttachSocket
  <2>4. CASE UNCHANGED poolVars
    BY <1>2, <2>2, <2>4 DEF AttachSocket, P!vars, P!poolVars, poolVars
  <2> QED BY <1>2, <2>3, <2>4 DEF AttachSocket
<1>3. ASSUME pc[c] \in {"planning", "comparing"}, Goto(c, "ready"),
             lease' = lease, request' = request,
             DropBaseline(lease[c]) \/ UNCHANGED poolVars
      PROVE  P!Plan(c)
  <2>1. LeasePc[c] = "leased" /\ entry[lease[c]].attached
    BY <1>3 DEF LeasePc, SocketsAreAttached, Acquiring
  <2>2. LeasePc' = [LeasePc EXCEPT ![c] = "open"] /\ LeaseManual' = LeaseManual
    BY <1>3, MapMoves DEF Opened
  <2> QED BY <1>3, <2>1, <2>2, SameRelease DEF P!Plan, P!Goto, P!poolVars, poolVars
<1>4. CASE PlanGuard(c)
  <2>1. CASE Goto(c, "ready")
    BY <1>3, <1>4, <2>1 DEF PlanGuard
  <2>2. CASE Goto(c, "comparing")
    BY <1>4, <2>2, MapStays DEF PlanGuard, Acquiring, P!vars, P!poolVars, poolVars
  <2> QED BY <1>4, <2>1, <2>2 DEF PlanGuard, Framed
<1>5. CASE PlanCompare(c)
  BY <1>3, <1>5 DEF PlanCompare, Framed
<1> QED BY <1>2, <1>4, <1>5

(* Giving the entry back, completed or not.                                *)
LEMMA ReleaseContract ==
  ASSUME TypeOK, PoolFacts, CallersKnowTheirEntry, CompletedIsLatest, OneResponsePerLease,
         NEW c \in Caller,
         ReleaseFailed(c) \/ RecoverRelease(c) \/ CloseCompleted(c) \/ CloseFailed(c)
  PROVE  P!Keep(c) \/ P!Drop(c)
<1> USE Places DEF TypeOK
<1>1. lease[c] # None /\ request[c] \in Request /\ lease[c] \in Entry
  <2>1. pc[c] \in {"releasing", "recovering", "completed", "closing", "reclosing"}
    BY DEF ReleaseFailed, RecoverRelease, CloseCompleted, CloseFailed
  <2>2. pc[c] # "reclosing" => lease[c] \in Entry
    BY <2>1 DEF PoolFacts, Holds, Acquiring, Opened
  <2>3. pc[c] = "reclosing" => lease[c] \in Entry
    BY DEF CallersKnowTheirEntry, CallerTypeOK
  <2>4. request[c] \in Request
    BY <2>1 DEF CallersKnowTheirEntry, CallerTypeOK
  <2> QED BY <2>1, <2>2, <2>3, <2>4, NoneAssumption DEF NoneAssumption
<1>2. LeaseManual[c] = IsManual(request[c])
  BY <1>1, RequestAssumption DEF LeaseManual, RequestAssumption, IsManual
<1>3. ASSUME NEW q \in {"cleaning", "recovered", "dropped"}, Goto(c, q),
             lease' = lease, request' = request,
             NEW completed \in {FALSE, LeasePc[c] = "open"},
             LeasePc[c] \in {"leased", "open", "dropped"},
             ReleaseDrop(lease[c], completed, IsManual(request[c]))
      PROVE  P!Drop(c)
  <2>1. LeasePc' = [LeasePc EXCEPT ![c] = "dropped"] /\ LeaseManual' = LeaseManual
    <3>1. LeasePlace(q, lease[c]) = "dropped"
      BY <1>1 DEF Parted
    <3> QED BY <1>3, <3>1, MapMoves
  <2>2. P!ReleaseDrop(lease[c], completed, LeaseManual[c])
    BY <1>2, <1>3, SameDrop
  <2> QED BY <1>3, <2>1, <2>2 DEF P!Drop, P!Holding, P!Goto
<1>4. CASE ReleaseFailed(c)
  <2>1. LeasePc[c] = "leased"
    BY <1>4 DEF ReleaseFailed, LeasePc, Acquiring
  <2> QED BY <1>3, <1>4, <2>1 DEF ReleaseFailed
<1>5. CASE RecoverRelease(c)
  <2>1. LeasePc[c] = "open"
    BY <1>5 DEF RecoverRelease, LeasePc, Opened
  <2> QED BY <1>3, <1>5, <2>1 DEF RecoverRelease
<1>6. CASE CloseFailed(c)
  <2>1. LeasePc[c] \in {"open", "dropped"}
    BY <1>1, <1>6 DEF CloseFailed, LeasePc, Opened, Parted
  <2> QED BY <1>3, <1>6, <2>1 DEF CloseFailed
<1>7. CASE CloseCompleted(c)
  <2>1. LeasePc[c] = "open" /\ pc[c] = "completed"
    BY <1>7 DEF CloseCompleted, LeasePc, Opened
  <2>2. CASE ReleaseDrop(lease[c], TRUE, IsManual(request[c])) /\ Goto(c, "dropped")
    BY <1>3, <1>7, <2>1, <2>2 DEF CloseCompleted
  <2>3. CASE /\ ReleaseKeep(lease[c], IsManual(request[c]), Commit(c))
             /\ Goto(c, "scheduling")
    <3>1. lease[c] \in active /\ ~IsManual(request[c])
      BY <1>1, <2>3 DEF ReleaseKeep, Keeps, PoolFacts
    <3>2. Commit(c) \in Baseline
      BY <1>1, <2>1, <3>1, CommitIsBaseline
    <3>3. P!ReleaseKeep(lease[c], LeaseManual[c], Commit(c))
      BY <1>2, <2>3, SameRelease
    <3>4. LeasePc' = [LeasePc EXCEPT ![c] = "scheduling"] /\ LeaseManual' = LeaseManual
      BY <1>7, <2>3, MapMoves DEF CloseCompleted
    <3> QED BY <1>7, <2>1, <3>2, <3>3, <3>4 DEF CloseCompleted, P!Keep, P!Goto
  <2> QED BY <1>7, <2>2, <2>3 DEF CloseCompleted
<1> QED BY <1>4, <1>5, <1>6, <1>7

(* The end of a stream forgets its entry.                                  *)
LEMMA EndContract ==
  ASSUME TypeOK, CallersKnowTheirEntry, NEW c \in Caller,
         CloseDropped(c) \/ ScheduleExpiry(c) \/ Leave(c)
  PROVE  P!ScheduleExpiry(c) \/ P!Finish(c) \/ UNCHANGED P!vars
<1> USE Places DEF TypeOK
<1>1. Goto(c, "idle") /\ lease' = [lease EXCEPT ![c] = None]
      /\ request' = [request EXCEPT ![c] = None]
  BY DEF CloseDropped, ScheduleExpiry, Leave, End
<1>2. LeasePc' = [LeasePc EXCEPT ![c] = "idle"]
  <2>1. LeasePlace("idle", None) = "idle"
    BY DEF Parted
  <2>2. LeasePc' = [LeasePc EXCEPT ![c] = LeasePlace("idle", None)]
    BY <1>1, MapLeases
  <2> QED BY <2>1, <2>2
<1>3. LeaseManual' = [LeaseManual EXCEPT ![c] = FALSE]
  BY <1>1 DEF LeaseManual, CallerTypeOK
<1>4. P!Forget(c)
  BY <1>1, <1>2, <1>3 DEF P!Forget, P!Goto
<1>5. CASE ScheduleExpiry(c)
  <2>1. LeasePc[c] = "scheduling"
    BY <1>5 DEF ScheduleExpiry, LeasePc
  <2> QED BY <1>4, <1>5, <2>1, SameTimers, SameRelease DEF ScheduleExpiry, P!ScheduleExpiry
<1>6. CASE (CloseDropped(c) \/ Leave(c)) /\ lease[c] # None
  <2>1. LeasePc[c] = "dropped"
    BY <1>6 DEF CloseDropped, Leave, LeasePc, Parted
  <2> QED BY <1>4, <1>6, <2>1 DEF CloseDropped, Leave, P!Finish, P!poolVars, poolVars
<1>7. CASE (CloseDropped(c) \/ Leave(c)) /\ lease[c] = None
  <2>1. LeasePc[c] = "idle" /\ LeaseManual[c] = FALSE
    BY <1>7 DEF CloseDropped, Leave, LeasePc, LeaseManual, Parted
  <2>2. LeasePc' = LeasePc /\ LeaseManual' = LeaseManual /\ lease' = lease
    <3>1. [LeasePc EXCEPT ![c] = LeasePc[c]] = LeasePc
      BY DEF LeasePc
    <3>2. [LeaseManual EXCEPT ![c] = LeaseManual[c]] = LeaseManual
      BY DEF LeaseManual
    <3>3. [lease EXCEPT ![c] = lease[c]] = lease
      BY DEF CallerTypeOK
    <3> QED BY <1>1, <1>2, <1>3, <1>7, <2>1, <3>1, <3>2, <3>3
  <2> QED BY <1>7, <2>2 DEF CloseDropped, Leave, P!vars, P!poolVars, poolVars
<1> QED BY <1>5, <1>6, <1>7

(* All other steps of a caller are none of the pool's business.            *)
LEMMA QuietContract ==
  ASSUME TypeOK, CallersKnowTheirEntry, NEW c \in Caller,
         \/ Start(c) \/ ReserveRefused(c) \/ DisposeGarbage(c) \/ GarbageDisposed(c)
         \/ Connect(c) \/ PlanBody(c) \/ PlanOutput(c) \/ CleanUp(c) \/ CheckValid(c)
         \/ Abandon(c) \/ Send(c) \/ ReceiveOutput(c) \/ ReceiveCompleted(c)
         \/ ReceiveOtherwise(c) \/ ReceiveMissing(c) \/ RecoverClose(c)
  PROVE  UNCHANGED P!vars
<1> USE Places DEF TypeOK
<1>1. UNCHANGED poolVars /\ lease' = lease
  BY DEF Start, ReserveRefused, DisposeGarbage, GarbageDisposed, Connect, PlanBody, PlanOutput,
         CleanUp, CheckValid, Abandon, Send, ReceiveOutput, ReceiveCompleted, ReceiveOtherwise,
         ReceiveMissing, RecoverClose
<1>2. SUFFICES LeasePc' = LeasePc /\ LeaseManual' = LeaseManual
  BY <1>1 DEF P!vars, P!poolVars, poolVars
<1>3. ASSUME NEW q, Goto(c, q), request' = request,
             \/ q \in Acquiring /\ pc[c] \in Acquiring
             \/ q \in Opened /\ pc[c] \in Opened
             \/ q \in Parted /\ pc[c] \in Parted
      PROVE  LeasePc' = LeasePc /\ LeaseManual' = LeaseManual
  BY <1>1, <1>3, MapStays
<1>4. CASE Start(c)
  <2>1. Goto(c, "reserving") /\ pc[c] = "idle" /\ lease[c] = None
    BY <1>4 DEF Start, CallersKnowTheirEntry
  <2>2. LeasePc' = LeasePc
    <3>1. LeasePlace("reserving", lease[c]) = LeasePlace(pc[c], lease[c])
      BY <2>1 DEF Parted
    <3> QED BY <1>1, <2>1, <3>1 DEF CallerTypeOK, Goto, LeasePc
  <2>3. \E r \in Request : request' = [request EXCEPT ![c] = r]
    BY <1>4 DEF Start
  <2>4. LeaseManual' = LeaseManual
    BY <1>1, <2>1, <2>3 DEF CallerTypeOK, LeaseManual
  <2> QED BY <2>2, <2>4
<1>5. CASE ReserveRefused(c) \/ CleanUp(c) \/ RecoverClose(c)
  BY <1>3, <1>5 DEF ReserveRefused, CleanUp, RecoverClose, Parted
<1>6. CASE GarbageDisposed(c) \/ Connect(c)
  BY <1>3, <1>6 DEF GarbageDisposed, Connect, Acquiring
<1>7. CASE PlanBody(c)
  <2>1. CASE Goto(c, "releasing")
    BY <1>3, <1>7, <2>1 DEF PlanBody, Acquiring
  <2>2. CASE pc' = pc
    BY <1>1, <1>7, <2>2, MapFrame DEF PlanBody
  <2> QED BY <1>7, <2>1, <2>2 DEF PlanBody
<1>8. CASE DisposeGarbage(c) \/ PlanOutput(c) \/ ReceiveOutput(c)
  BY <1>1, <1>8, MapFrame DEF DisposeGarbage, PlanOutput, ReceiveOutput
<1>9. CASE CheckValid(c) \/ Abandon(c) \/ Send(c)
  BY <1>3, <1>9 DEF CheckValid, Abandon, Send, Opened
<1>10. CASE ReceiveCompleted(c) \/ ReceiveOtherwise(c) \/ ReceiveMissing(c)
  BY <1>3, <1>10 DEF ReceiveCompleted, ReceiveOtherwise, ReceiveMissing, Receiving, Opened
<1> QED BY <1>4, <1>5, <1>6, <1>7, <1>8, <1>9, <1>10

(* The steps of the timers and of close are the contract's.                *)
LEMMA EnvironmentContract ==
  ASSUME (\E t \in Timer : TimerStep(t)) \/ CloseSession \/ Close \/ CloseNext \/ Pass
  PROVE  \/ \E t \in Timer : P!TimerStep(t)
         \/ P!CloseSession \/ P!Close \/ P!Pass \/ UNCHANGED P!vars
<1>1. lease' = lease /\ LeasePc' = LeasePc /\ LeaseManual' = LeaseManual
  BY MapFrame DEF TimerStep, CloseSession, Close, CloseNext, Pass, callerVars
<1>2. ASSUME NEW t \in Timer, TimerStep(t) PROVE P!TimerStep(t)
  BY <1>1, <1>2, SameTimers DEF TimerStep, P!TimerStep
<1>3. CASE CloseSession
  BY <1>1, <1>3, SameClears DEF CloseSession, P!CloseSession
<1>4. CASE Close
  BY <1>1, <1>4, SameClears DEF Close, P!Close
<1>5. CASE CloseNext
  BY <1>1, <1>5 DEF CloseNext, P!vars, P!poolVars, poolVars
<1>6. CASE Pass
  BY <1>1, <1>6, SameClears DEF Pass, P!Pass
<1> QED BY <1>2, <1>3, <1>4, <1>5, <1>6

LEMMA ContractStep ==
  ASSUME TypeOK, CallersKnowTheirEntry, SocketsAreAttached, CompletedIsLatest,
         OneResponsePerLease, PoolFacts, [Next]_vars
  PROVE  [P!Next]_P!vars
<1>1. ASSUME NEW c \in Caller, Start(c) \/ CallerStep(c)
      PROVE  \/ P!ReserveCached(c) \/ P!ReserveNew(c) \/ P!AttachSocket(c) \/ P!Plan(c)
             \/ P!Keep(c) \/ P!Drop(c) \/ P!ScheduleExpiry(c) \/ P!Finish(c)
             \/ UNCHANGED P!vars
  BY <1>1, ReserveContract, SocketContract, ReleaseContract, EndContract, QuietContract, Zenon
     DEF CallerStep
<1>2. CASE (\E t \in Timer : TimerStep(t)) \/ CloseSession \/ Close \/ CloseNext \/ Pass
  BY <1>2, EnvironmentContract DEF P!Next
<1>3. CASE UNCHANGED vars
  BY <1>3, MapFrame DEF vars, poolVars, callerVars, P!vars, P!poolVars
<1> QED BY <1>1, <1>2, <1>3 DEF Next, P!Next

-----------------------------------------------------------------------------
(* The types of what a step computes.                                      *)
LEMMA FrameTypes ==
  ASSUME NEW r \in Request
  PROVE  FullFrame(r) \in FrameRecord
  BY RequestAssumption DEF RequestAssumption, FullFrame, FrameRecord

LEMMA SuffixType ==
  ASSUME TypeOK, NEW c \in Caller, request[c] \in Request, saved[c] \in SavedRecord,
         NEW base \in Baseline \cup {None}, Continues(request[c], saved[c])
  PROVE  [prev |-> IF base = None THEN None ELSE base.id,
          input |-> SubSeq(request[c].input, Len(saved[c].input) + 1, Len(request[c].input))]
           \in FrameRecord
<1>1. request[c].input \in Seq(Item) /\ saved[c].input \in Seq(Item)
  BY RequestAssumption DEF RequestAssumption, SavedRecord
<1>2. SubSeq(request[c].input, Len(saved[c].input) + 1, Len(request[c].input)) \in Seq(Item)
  BY <1>1, PrefixAndRest DEF Continues
<1>3. (IF base = None THEN None ELSE base.id) \in
        {r.manual : r \in Request} \cup {b.id : b \in Baseline} \cup {None}
  OBVIOUS
<1> QED BY <1>2, <1>3 DEF FrameRecord

LEMMA ReadingType ==
  ASSUME NEW f \in FrameRecord, NEW k \in ConnectionRecord
  PROVE  Reading(f, k) \in Seq(Item) \cup {None}
<1>1. f.input \in Seq(Item) /\ k.context \in Seq(Item)
  BY DEF FrameRecord, ConnectionRecord
<1> QED BY <1>1, ConcatProperties DEF Reading

LEMMA NewConnectionType == NewConnection \in ConnectionRecord
  BY EmptySeq DEF NewConnection, ConnectionRecord

LEMMA CompletionType ==
  ASSUME NEW e \in Entry, NEW r \in Request, NEW k \in ConnectionRecord,
         NEW s \in Seq(Item), NEW output \in Output
  PROVE  [id |-> <<e, k.count + 1>>, config |-> r.config, context |-> s \o output,
          count |-> k.count + 1] \in ConnectionRecord
<1>1. k.count + 1 \in Nat
  BY DEF ConnectionRecord
<1>2. s \o output \in Seq(Item)
  BY RequestAssumption, ConcatProperties DEF RequestAssumption
<1> QED BY <1>1, <1>2 DEF ConnectionRecord

LEMMA BaseType ==
  ASSUME PoolTypeOK, NEW e \in Entry
  PROVE  entry[e].base \in Baseline \cup {None}
  BY DEF PoolTypeOK, EntryRecord

LEMMA SavedTypes ==
  ASSUME NEW base \in Baseline
  PROVE  [config |-> base.config, input |-> base.input, whole |-> FALSE] \in SavedRecord
  BY BaselineAssumption DEF BaselineAssumption, SavedRecord

LEMMA WholeType ==
  ASSUME NEW s \in SavedRecord, NEW output \in Seq(Item)
  PROVE  [config |-> s.config, input |-> s.input \o output, whole |-> TRUE] \in SavedRecord
<1>1. s.input \o output \in Seq(Item)
  BY ConcatProperties DEF SavedRecord
<1> QED BY <1>1 DEF SavedRecord

(* Every step keeps the types of the callers' variables.                   *)
LocalTypeOK ==
  /\ CallerTypeOK
  /\ conn \in [Entry -> ConnectionRecord \cup {None}]
  /\ closing \subseteq Entry
  /\ sent \in [Caller -> Seq(Item) \cup {None}]
  /\ submits \in [Caller -> 0..2]
  /\ delivered \in [Caller -> BOOLEAN]

LEMMA ClosedType ==
  ASSUME LocalTypeOK, NEW es
  PROVE  Closed(es) \in [Entry -> ConnectionRecord \cup {None}]
  BY DEF LocalTypeOK, Closed

LEMMA LocalTypeStep ==
  ASSUME TypeOK, CallersKnowTheirEntry, SubmissionsAreCounted, FramesFit, PoolFacts, [Next]_vars
  PROVE  LocalTypeOK'
<1> USE DEF LocalTypeOK, CallerTypeOK, Goto, Fail, history
<1>1. LocalTypeOK /\ PoolTypeOK
  BY DEF TypeOK
<1>2. ASSUME NEW c \in Caller, Start(c) \/ ReserveRefused(c) \/ GarbageDisposed(c)
      PROVE  LocalTypeOK'
  BY <1>1, <1>2 DEF Start, ReserveRefused, GarbageDisposed, Acquiring, Parted
<1>3. ASSUME NEW c \in Caller, Reserve(c) PROVE LocalTypeOK'
  <2>1. PICK e \in Entry, g \in SUBSET Entry :
          lease' = [lease EXCEPT ![c] = e] /\ garbage' = [garbage EXCEPT ![c] = g]
    <3>1. \A x : Stale(x) \subseteq Entry
      BY <1>1 DEF Stale, PoolTypeOK
    <3>2. PICK e \in Entry :
            /\ lease' = [lease EXCEPT ![c] = e]
            /\ \/ garbage' = [garbage EXCEPT ![c] = Stale(request[c].endpoint)]
               \/ \E v \in SUBSET Entry :
                    garbage' = [garbage EXCEPT ![c] = Stale(request[c].endpoint) \cup v]
      BY <1>3 DEF Reserve
    <3> QED BY <3>1, <3>2
  <2> QED BY <1>1, <1>3, <2>1 DEF Reserve, Acquiring
<1>4. ASSUME NEW c \in Caller, DisposeGarbage(c) \/ CleanUp(c) \/ RecoverClose(c)
      PROVE  LocalTypeOK'
  <2>1. conn' \in [Entry -> ConnectionRecord \cup {None}]
    <3>1. \E es : conn' = Closed(es)
      BY <1>4 DEF DisposeGarbage, CleanUp, RecoverClose
    <3> QED BY <1>1, <3>1, ClosedType
  <2>2. CASE DisposeGarbage(c)
    <3>1. garbage' \in [Caller -> SUBSET Entry]
      BY <1>1, <2>2 DEF DisposeGarbage
    <3> QED BY <1>1, <2>1, <2>2, <3>1 DEF DisposeGarbage
  <2>3. CASE CleanUp(c)
    BY <1>1, <2>1, <2>3 DEF CleanUp, Parted
  <2>4. CASE RecoverClose(c)
    BY <1>1, <2>1, <2>4 DEF RecoverClose, Parted
  <2> QED BY <1>4, <2>2, <2>3, <2>4
<1>5. ASSUME NEW c \in Caller, Connect(c) \/ AttachSocket(c) PROVE LocalTypeOK'
  <2>1. CASE Connect(c)
    <3>1. conn' \in [Entry -> ConnectionRecord \cup {None}]
      BY <1>1, <2>1, NewConnectionType DEF Connect
    <3>2. failure' = failure \/ \E error \in {"ConnectFailure", "APIStatusError"} : Fail(c, error)
      BY <2>1 DEF Connect
    <3>3. pc' = [pc EXCEPT ![c] = "attaching"] \/ pc' = [pc EXCEPT ![c] = "releasing"]
      BY <2>1 DEF Connect
    <3>4. UNCHANGED <<lease, request, garbage, saved, frame, recovered, seen, closing,
                      sent, submits, delivered>>
      BY <2>1 DEF Connect
    <3> QED BY <1>1, <3>1, <3>2, <3>3, <3>4 DEF Acquiring
  <2>2. CASE AttachSocket(c)
    BY <1>1, <2>2 DEF AttachSocket, Acquiring
  <2> QED BY <1>5, <2>1, <2>2
<1>6. ASSUME NEW c \in Caller, NEW f \in FrameRecord, Framed(c, f),
             UNCHANGED <<lease, request, garbage, recovered, seen, failure, conn, closing, history>>
      PROVE  LocalTypeOK'
  BY <1>1, <1>6 DEF Framed, Opened
<1>7. ASSUME NEW c \in Caller, pc[c] # "idle" PROVE request[c] \in Request
  BY <1>1, <1>7 DEF CallersKnowTheirEntry
<1>8. ASSUME NEW c \in Caller, PlanGuard(c) PROVE LocalTypeOK'
  <2>1. CASE Framed(c, FullFrame(request[c]))
    BY <1>6, <1>7, <1>8, <2>1, FrameTypes DEF PlanGuard
  <2>2. CASE Goto(c, "comparing") /\ UNCHANGED <<saved, frame>>
    BY <1>1, <1>8, <2>2 DEF PlanGuard, Acquiring
  <2> QED BY <1>8, <2>1, <2>2 DEF PlanGuard
<1>9. ASSUME NEW c \in Caller, pc[c] \in Acquiring
      PROVE  entry[lease[c]].base \in Baseline \cup {None}
  BY <1>1, <1>9, BaseType DEF PoolFacts, Holds
<1>10. ASSUME NEW c \in Caller, PlanBody(c) PROVE LocalTypeOK'
  BY <1>1, <1>9, <1>10, SavedTypes DEF PlanBody, Acquiring
<1>11. ASSUME NEW c \in Caller, PlanOutput(c) PROVE LocalTypeOK'
  <2>1. saved[c] \in SavedRecord
    BY <1>1, <1>11 DEF PlanOutput
  <2> DEFINE base == entry[lease[c]].base
             read == IF base = None THEN <<>> ELSE base.output
  <2>2. base \in Baseline \cup {None}
    BY <1>9, <1>11 DEF PlanOutput, Acquiring
  <2>3. read \in Seq(Item)
    BY <2>2, EmptySeq, BaselineAssumption DEF BaselineAssumption
  <2>4. saved' = [saved EXCEPT ![c] = [config |-> saved[c].config,
                                       input |-> saved[c].input \o read, whole |-> TRUE]]
    BY <1>11 DEF PlanOutput
  <2> HIDE DEF read
  <2>5. [config |-> saved[c].config, input |-> saved[c].input \o read, whole |-> TRUE]
          \in SavedRecord
    BY <2>1, <2>3, WholeType
  <2>6. saved' \in [Caller -> SavedRecord \cup {None}]
    BY <1>1, <2>4, <2>5
  <2>7. UNCHANGED <<pc, lease, request, garbage, frame, recovered, seen, failure, conn, closing,
                    sent, submits, delivered>>
    BY <1>11 DEF PlanOutput
  <2> QED BY <1>1, <2>6, <2>7
<1>12. ASSUME NEW c \in Caller, PlanCompare(c) PROVE LocalTypeOK'
  <2>1. request[c] \in Request /\ saved[c] \in SavedRecord
        /\ entry[lease[c]].base \in Baseline \cup {None}
    BY <1>1, <1>7, <1>9, <1>12 DEF PlanCompare, Acquiring
  <2>2. CASE Continues(request[c], saved[c])
    BY <1>6, <1>12, <2>1, <2>2, SuffixType DEF PlanCompare
  <2>3. CASE ~Continues(request[c], saved[c])
    BY <1>6, <1>12, <2>1, <2>3, FrameTypes DEF PlanCompare
  <2> QED BY <2>2, <2>3
<1>13. ASSUME NEW c \in Caller,
              \/ ReleaseFailed(c) \/ RecoverRelease(c) \/ CloseCompleted(c) \/ CloseFailed(c)
       PROVE  LocalTypeOK'
  BY <1>1, <1>13 DEF ReleaseFailed, RecoverRelease, CloseCompleted, CloseFailed, Parted
<1>14. ASSUME NEW c \in Caller,
              CheckValid(c) \/ Abandon(c) \/ ReceiveOutput(c) \/ ReceiveOtherwise(c) \/ ReceiveMissing(c)
       PROVE  LocalTypeOK'
  BY <1>1, <1>14 DEF CheckValid, Abandon, ReceiveOutput, ReceiveOtherwise, ReceiveMissing, Opened
<1>15. ASSUME NEW c \in Caller, Send(c) PROVE LocalTypeOK'
  <2>1. lease[c] \in Entry /\ frame[c] \in FrameRecord
    BY <1>1, <1>15 DEF Send, PoolFacts, Holds, Opened, FramesFit, FrameFits
  <2>2. submits[c] + 1 \in 0..2
    BY <1>1, <1>15 DEF Send, SubmissionsAreCounted, Unsent
  <2>3. conn[lease[c]] # None => Reading(frame[c], conn[lease[c]]) \in Seq(Item) \cup {None}
    BY <1>1, <2>1, ReadingType
  <2> QED BY <1>1, <1>15, <2>2, <2>3 DEF Send, Opened
<1>16. ASSUME NEW c \in Caller, ReceiveCompleted(c) PROVE LocalTypeOK'
  <2>1. lease[c] \in Entry /\ conn[lease[c]] \in ConnectionRecord /\ sent[c] \in Seq(Item)
        /\ request[c] \in Request
    BY <1>1, <1>7, <1>16 DEF ReceiveCompleted, Receiving, PoolFacts, Holds, Opened
  <2>2. PICK k \in ConnectionRecord : conn' = [conn EXCEPT ![lease[c]] = k]
    BY <1>16, <2>1, CompletionType DEF ReceiveCompleted
  <2> QED BY <1>1, <1>16, <2>2 DEF ReceiveCompleted, Opened
<1>17. ASSUME NEW c \in Caller, CloseDropped(c) \/ ScheduleExpiry(c) \/ Leave(c)
       PROVE  LocalTypeOK'
  <2>1. conn' \in [Entry -> ConnectionRecord \cup {None}]
    BY <1>1, <1>17, ClosedType DEF CloseDropped, ScheduleExpiry, Leave
  <2>2. End(c)
    BY <1>17 DEF CloseDropped, ScheduleExpiry, Leave
  <2> QED BY <1>1, <2>1, <2>2 DEF End, Parted
<1>18. ASSUME NEW t \in Timer, TimerStep(t) PROVE LocalTypeOK'
  BY <1>1, <1>18, ClosedType DEF TimerStep, callerVars
<1>19. CASE CloseSession \/ Close \/ CloseNext \/ Pass
  <2>1. conn' \in [Entry -> ConnectionRecord \cup {None}]
    <3>1. conn' = conn \/ \E es : conn' = Closed(es)
      BY <1>19 DEF CloseSession, Close, CloseNext, Pass
    <3> QED BY <1>1, <3>1, ClosedType
  <2>2. closing' \subseteq Entry
    BY <1>1, <1>19 DEF CloseSession, Close, CloseNext, Pass, OfSession, PoolTypeOK
  <2> QED BY <1>1, <1>19, <2>1, <2>2 DEF CloseSession, Close, CloseNext, Pass, callerVars
<1>20. CASE UNCHANGED vars
  BY <1>1, <1>20 DEF vars, callerVars
<1> QED BY <1>2, <1>3, <1>4, <1>5, <1>8, <1>10, <1>11, <1>12, <1>13, <1>14, <1>15, <1>16, <1>17,
           <1>18, <1>19, <1>20 DEF Next, CallerStep

-----------------------------------------------------------------------------
(* A step changes the control variables of one caller at most.             *)
SameCaller(d) ==
  /\ pc'[d] = pc[d] /\ lease'[d] = lease[d] /\ request'[d] = request[d]
  /\ garbage'[d] = garbage[d] /\ saved'[d] = saved[d] /\ frame'[d] = frame[d]
  /\ recovered'[d] = recovered[d] /\ seen'[d] = seen[d] /\ sent'[d] = sent[d]
  /\ submits'[d] = submits[d] /\ delivered'[d] = delivered[d]

LEMMA OthersStay ==
  ASSUME LocalTypeOK, NEW c \in Caller, Start(c) \/ CallerStep(c), NEW d \in Caller \ {c}
  PROVE  SameCaller(d)
<1> USE DEF LocalTypeOK, CallerTypeOK, Goto, Fail, history, SameCaller
<1>1. CASE Start(c) \/ Reserve(c) \/ ReserveRefused(c) \/ DisposeGarbage(c) \/ GarbageDisposed(c)
  BY <1>1 DEF Start, Reserve, ReserveRefused, DisposeGarbage, GarbageDisposed
<1>2. CASE Connect(c) \/ AttachSocket(c) \/ PlanBody(c) \/ PlanOutput(c)
  BY <1>2 DEF Connect, AttachSocket, PlanBody, PlanOutput
<1>3. CASE PlanGuard(c) \/ PlanCompare(c)
  BY <1>3 DEF PlanGuard, PlanCompare, Framed
<1>4. CASE ReleaseFailed(c) \/ CleanUp(c) \/ CheckValid(c) \/ Abandon(c) \/ Send(c)
  BY <1>4 DEF ReleaseFailed, CleanUp, CheckValid, Abandon, Send
<1>5. CASE ReceiveOutput(c) \/ ReceiveCompleted(c) \/ ReceiveOtherwise(c) \/ ReceiveMissing(c)
  BY <1>5 DEF ReceiveOutput, ReceiveCompleted, ReceiveOtherwise, ReceiveMissing
<1>6. CASE RecoverRelease(c) \/ RecoverClose(c) \/ CloseCompleted(c) \/ CloseFailed(c)
  BY <1>6 DEF RecoverRelease, RecoverClose, CloseCompleted, CloseFailed
<1>7. CASE CloseDropped(c) \/ ScheduleExpiry(c) \/ Leave(c)
  BY <1>7 DEF CloseDropped, ScheduleExpiry, Leave, End
<1> QED BY <1>1, <1>2, <1>3, <1>4, <1>5, <1>6, <1>7 DEF CallerStep

LEMMA EnvironmentStays ==
  ASSUME \/ \E t \in Timer : TimerStep(t)
         \/ CloseSession \/ Close \/ CloseNext \/ Pass \/ UNCHANGED vars
  PROVE  UNCHANGED <<callerVars, history>> /\ \A d \in Caller : SameCaller(d)
  BY DEF TimerStep, CloseSession, Close, CloseNext, Pass, vars, callerVars, history, SameCaller

(* A caller that has to give an entry back refers to one.                  *)
LEMMA KnowStep ==
  ASSUME LocalTypeOK, LocalTypeOK', PoolFacts, CallersKnowTheirEntry, [Next]_vars
  PROVE  CallersKnowTheirEntry'
<1> DEFINE Knows(d) ==
      /\ pc[d] # "idle" => request[d] # None
      /\ pc[d] = "idle" => lease[d] = None
      /\ pc[d] \in {"recovered", "cleaning", "reclosing", "dropped"} \/ recovered[d] =>
           lease[d] # None
<1>1. \A d \in Caller : Knows(d)
  BY DEF CallersKnowTheirEntry
<1>2. ASSUME NEW d \in Caller, SameCaller(d) PROVE Knows(d)'
  BY <1>1, <1>2 DEF SameCaller
<1>3. ASSUME NEW c \in Caller, Start(c) \/ CallerStep(c) PROVE Knows(c)'
  <2> USE DEF LocalTypeOK, CallerTypeOK, Goto, Fail, history
  <2>1. pc[c] \in Acquiring \cup Opened => lease[c] # None
    BY NoneAssumption DEF NoneAssumption, PoolFacts, Holds
  <2>2. CASE Start(c)
    BY <1>1, <2>2, RequestAssumption DEF RequestAssumption, Start
  <2>3. CASE Reserve(c)
    BY <1>1, <2>3, NoneAssumption DEF NoneAssumption, Reserve
  <2>4. CASE ReserveRefused(c) \/ DisposeGarbage(c) \/ GarbageDisposed(c)
             \/ Connect(c) \/ AttachSocket(c) \/ PlanBody(c) \/ PlanOutput(c)
    <3>1. CASE ReserveRefused(c) \/ DisposeGarbage(c) \/ GarbageDisposed(c)
      BY <1>1, <3>1 DEF ReserveRefused, DisposeGarbage, GarbageDisposed
    <3>2. CASE Connect(c) \/ AttachSocket(c)
      BY <1>1, <3>2 DEF Connect, AttachSocket
    <3>3. CASE PlanBody(c) \/ PlanOutput(c)
      BY <1>1, <3>3 DEF PlanBody, PlanOutput
    <3> QED BY <2>4, <3>1, <3>2, <3>3
  <2>5. CASE PlanGuard(c) \/ PlanCompare(c)
    BY <1>1, <2>5 DEF PlanGuard, PlanCompare, Framed
  <2>6. CASE ReleaseFailed(c) \/ CleanUp(c) \/ CheckValid(c) \/ Abandon(c) \/ Send(c)
    <3>1. CASE ReleaseFailed(c)
      BY <1>1, <2>1, <3>1 DEF ReleaseFailed, Acquiring
    <3>2. CASE CleanUp(c)
      BY <1>1, <3>2 DEF CleanUp
    <3>3. CASE CheckValid(c) \/ Abandon(c) \/ Send(c)
      BY <1>1, <3>3 DEF CheckValid, Abandon, Send
    <3> QED BY <2>6, <3>1, <3>2, <3>3
  <2>7. CASE ReceiveOutput(c) \/ ReceiveCompleted(c) \/ ReceiveOtherwise(c) \/ ReceiveMissing(c)
    BY <1>1, <2>1, <2>7 DEF ReceiveOutput, ReceiveCompleted, ReceiveOtherwise, ReceiveMissing,
       Receiving, Opened
  <2>8. CASE RecoverRelease(c) \/ RecoverClose(c) \/ CloseCompleted(c) \/ CloseFailed(c)
    BY <1>1, <2>1, <2>8 DEF RecoverRelease, RecoverClose, CloseCompleted, CloseFailed, Opened
  <2>9. CASE CloseDropped(c) \/ ScheduleExpiry(c) \/ Leave(c)
    BY <2>9 DEF CloseDropped, ScheduleExpiry, Leave, End
  <2> QED BY <1>3, <2>2, <2>3, <2>4, <2>5, <2>6, <2>7, <2>8, <2>9 DEF CallerStep
<1>4. \A d \in Caller : Knows(d)'
  <2>1. ASSUME NEW c \in Caller, Start(c) \/ CallerStep(c), NEW d \in Caller PROVE Knows(d)'
    BY <1>2, <1>3, <2>1, OthersStay
  <2> HIDE DEF Knows
  <2> QED BY <1>2, <2>1, EnvironmentStays DEF Next
<1> QED BY <1>4 DEF CallersKnowTheirEntry

(* The count of submissions, and what the consumer was given, go with the  *)
(* place of the caller.                                                    *)
LEMMA CountStep ==
  ASSUME LocalTypeOK, LocalTypeOK', SubmissionsAreCounted, [Next]_vars
  PROVE  SubmissionsAreCounted'
<1> DEFINE Counts(d) ==
      /\ pc[d] \in {"idle", "sse"} => submits[d] = 0
      /\ submits[d] <= IF recovered[d] THEN 2 ELSE 1
      /\ pc[d] \in Unsent => submits[d] <= IF recovered[d] THEN 1 ELSE 0
      /\ pc[d] \in Unsent \cup {"idle"} => ~delivered[d]
      /\ pc[d] = "receiving" /\ delivered[d] => seen[d]
<1>1. \A d \in Caller : Counts(d)
  BY DEF SubmissionsAreCounted
<1>2. ASSUME NEW d \in Caller, SameCaller(d) PROVE Counts(d)'
  BY <1>1, <1>2 DEF SameCaller
<1>3. ASSUME NEW c \in Caller, Start(c) \/ CallerStep(c) PROVE Counts(c)'
  <2> USE DEF LocalTypeOK, CallerTypeOK, Goto, Fail, history, Unsent, Acquiring
  <2>1. submits[c] \in 0..2 /\ recovered[c] \in BOOLEAN /\ Counts(c)
    BY <1>1
  <2>2. CASE Start(c) \/ Reserve(c) \/ ReserveRefused(c) \/ DisposeGarbage(c)
             \/ GarbageDisposed(c) \/ Connect(c) \/ AttachSocket(c) \/ PlanBody(c) \/ PlanOutput(c)
    <3>1. CASE Start(c) \/ ReserveRefused(c)
      BY <2>1, <3>1 DEF Start, ReserveRefused
    <3>2. CASE Reserve(c)
      BY <2>1, <3>2 DEF Reserve
    <3>3. CASE DisposeGarbage(c) \/ GarbageDisposed(c) \/ Connect(c) \/ AttachSocket(c)
      BY <2>1, <3>3 DEF DisposeGarbage, GarbageDisposed, Connect, AttachSocket
    <3>4. CASE PlanBody(c) \/ PlanOutput(c)
      BY <2>1, <3>4 DEF PlanBody, PlanOutput
    <3> QED BY <2>2, <3>1, <3>2, <3>3, <3>4
  <2>3. CASE PlanGuard(c) \/ PlanCompare(c)
    BY <2>1, <2>3 DEF PlanGuard, PlanCompare, Framed
  <2>4. CASE ReleaseFailed(c) \/ CleanUp(c) \/ CheckValid(c) \/ Abandon(c)
    <3>1. CASE ReleaseFailed(c)
      BY <2>1, <3>1 DEF ReleaseFailed
    <3>2. CASE CleanUp(c)
      BY <2>1, <3>2 DEF CleanUp
    <3>3. CASE CheckValid(c) \/ Abandon(c)
      BY <2>1, <3>3 DEF CheckValid, Abandon
    <3> QED BY <2>4, <3>1, <3>2, <3>3
  <2>5. CASE Send(c)
    BY <2>1, <2>5 DEF Send
  <2>6. CASE ReceiveOutput(c) \/ ReceiveCompleted(c) \/ ReceiveOtherwise(c)
    BY <2>1, <2>6 DEF ReceiveOutput, ReceiveCompleted, ReceiveOtherwise, Receiving
  <2>7. CASE ReceiveMissing(c)
    BY <2>1, <2>7 DEF ReceiveMissing, Receiving, Recoverable
  <2>8. CASE RecoverRelease(c) \/ RecoverClose(c) \/ CloseCompleted(c) \/ CloseFailed(c)
    <3>1. CASE RecoverRelease(c) \/ RecoverClose(c)
      BY <2>1, <3>1 DEF RecoverRelease, RecoverClose
    <3>2. CASE CloseCompleted(c)
      <4>1. \E q \in {"scheduling", "dropped"} : Goto(c, q)
        BY <3>2 DEF CloseCompleted
      <4>2. UNCHANGED <<recovered, seen, history>>
        BY <3>2 DEF CloseCompleted
      <4> QED BY <2>1, <4>1, <4>2
    <3>3. CASE CloseFailed(c)
      BY <2>1, <3>3 DEF CloseFailed
    <3> QED BY <2>8, <3>1, <3>2, <3>3
  <2>9. CASE CloseDropped(c) \/ ScheduleExpiry(c) \/ Leave(c)
    BY <2>9 DEF CloseDropped, ScheduleExpiry, Leave, End
  <2> QED BY <1>3, <2>2, <2>3, <2>4, <2>5, <2>6, <2>7, <2>8, <2>9 DEF CallerStep
<1>4. \A d \in Caller : Counts(d)'
  <2>1. ASSUME NEW c \in Caller, Start(c) \/ CallerStep(c), NEW d \in Caller PROVE Counts(d)'
    BY <1>2, <1>3, <2>1, OthersStay
  <2> HIDE DEF Counts
  <2> QED BY <1>2, <2>1, EnvironmentStays DEF Next
<1> QED BY <1>4 DEF SubmissionsAreCounted

-----------------------------------------------------------------------------
(* What a step of a caller does to the pool, unless it reserves: it changes *)
(* one field of the entry it holds, or it removes that entry.              *)
Releasing(c) ==
  /\ pc[c] \in {"releasing", "recovering", "completed", "closing", "reclosing"}
  /\ pc'[c] \in {"cleaning", "recovered", "dropped"}
  /\ lease' = lease

LEMMA StepUse ==
  ASSUME LocalTypeOK, PoolFacts, CallersKnowTheirEntry,
         NEW c \in Caller, Start(c) \/ CallerStep(c), ~Reserve(c),
         pc[c] = "completed" /\ lease[c] \in active /\ ~IsManual(request[c])
           => Commit(c) \in Baseline
  PROVE  /\ closing' = closing /\ DisposingStays
         /\ \/ active' = active
            \/ active' = active \ {lease[c]} /\ Releasing(c)
         /\ AttachSocket(c) \/ AttachedStays
         /\ \A f \in active' : \/ SameUse(f)
                               \/ f = lease[c] /\ (PlanCompare(c) \/ CloseCompleted(c))
<1> DEFINE Result == /\ DisposingStays
                     /\ \/ active' = active
                        \/ active' = active \ {lease[c]} /\ Releasing(c)
                     /\ AttachSocket(c) \/ AttachedStays
                     /\ \A f \in active' : \/ SameUse(f)
                                           \/ f = lease[c] /\ (PlanCompare(c) \/ CloseCompleted(c))
<1>1. PoolTypeOK
  BY DEF PoolFacts
<1>2. ASSUME UNCHANGED poolVars PROVE Result
  BY <1>2 DEF poolVars, DisposingStays, AttachedStays, SameUse
<1>3. pc[c] \in Acquiring \cup Opened \cup {"scheduling", "reclosing"} => lease[c] \in Entry
  BY DEF PoolFacts, Holds, CallersKnowTheirEntry, LocalTypeOK, CallerTypeOK
<1>4. CASE Start(c) \/ ReserveRefused(c) \/ DisposeGarbage(c) \/ GarbageDisposed(c)
           \/ Connect(c) \/ PlanGuard(c) \/ PlanBody(c) \/ PlanOutput(c) \/ CleanUp(c)
  <2>1. UNCHANGED poolVars /\ closing' = closing
    BY <1>4 DEF Start, ReserveRefused, DisposeGarbage, GarbageDisposed, Connect, PlanGuard,
                PlanBody, PlanOutput, CleanUp
  <2> QED BY <1>2, <2>1
<1>5. CASE CheckValid(c) \/ Abandon(c) \/ Send(c) \/ ReceiveOutput(c) \/ ReceiveCompleted(c)
           \/ ReceiveOtherwise(c) \/ ReceiveMissing(c) \/ RecoverClose(c) \/ CloseDropped(c)
           \/ Leave(c)
  <2>1. UNCHANGED poolVars /\ closing' = closing
    BY <1>5 DEF CheckValid, Abandon, Send, ReceiveOutput, ReceiveCompleted, ReceiveOtherwise,
                ReceiveMissing, RecoverClose, CloseDropped, Leave, End
  <2> QED BY <1>2, <2>1
<1>6. CASE AttachSocket(c)
  <2>1. lease[c] \in Entry /\ closing' = closing
    BY <1>3, <1>6 DEF AttachSocket, Acquiring
  <2>2. CASE Attach(lease[c])
    <3>1. /\ \A f \in Entry \ {lease[c]} : entry'[f] = entry[f]
          /\ active' = active /\ DisposingStays /\ SameUse(lease[c])
      BY <1>1, <2>1, <2>2, AttachUse
    <3> QED BY <1>1, <1>6, <2>1, <3>1 DEF SameUse, PoolTypeOK
  <2>3. CASE UNCHANGED poolVars
    BY <1>2, <2>1, <2>3
  <2> QED BY <1>6, <2>2, <2>3 DEF AttachSocket
<1>7. CASE PlanCompare(c)
  <2>1. lease[c] \in Entry /\ closing' = closing
    BY <1>3, <1>7 DEF PlanCompare, Acquiring
  <2>2. CASE DropBaseline(lease[c])
    <3>1. /\ \A f \in Entry \ {lease[c]} : entry'[f] = entry[f]
          /\ active' = active /\ DisposingStays /\ AttachedStays
      BY <1>1, <2>1, <2>2, DropUse
    <3> QED BY <1>1, <1>7, <2>1, <3>1 DEF SameUse, PoolTypeOK
  <2>3. CASE UNCHANGED poolVars
    BY <1>2, <2>1, <2>3
  <2> QED BY <1>7, <2>2, <2>3 DEF PlanCompare
<1>8. ASSUME NEW k, ReleaseDrop(lease[c], k, IsManual(request[c])), Releasing(c), lease[c] \in Entry
      PROVE  Result
  <2>1. RemoveEntries({lease[c]})
    BY <1>8 DEF ReleaseDrop
  <2>2. /\ active' = active \ {lease[c]} /\ AttachedStays /\ DisposingStays
        /\ \A f \in active' : SameUse(f)
    BY <1>1, <2>1, RemoveUse
  <2> QED BY <1>8, <2>2
<1>9. CASE ReleaseFailed(c) \/ RecoverRelease(c) \/ CloseFailed(c)
  <2>1. Releasing(c) /\ closing' = closing /\ lease[c] \in Entry
    BY <1>3, <1>9 DEF ReleaseFailed, RecoverRelease, CloseFailed, Releasing, Goto, LocalTypeOK,
       CallerTypeOK, Acquiring, Opened
  <2>2. ReleaseDrop(lease[c], FALSE, IsManual(request[c]))
    BY <1>9 DEF ReleaseFailed, RecoverRelease, CloseFailed
  <2> QED BY <1>8, <2>1, <2>2
<1>10. CASE CloseCompleted(c)
  <2>1. lease[c] \in Entry /\ closing' = closing /\ pc[c] = "completed"
    BY <1>3, <1>10 DEF CloseCompleted, Opened
  <2>2. CASE ReleaseDrop(lease[c], TRUE, IsManual(request[c])) /\ Goto(c, "dropped")
    <3>1. Releasing(c)
      BY <1>10, <2>1, <2>2 DEF Releasing, Goto, LocalTypeOK, CallerTypeOK, CloseCompleted
    <3>2. ReleaseDrop(lease[c], TRUE, IsManual(request[c]))
      BY <2>2
    <3> QED BY <1>8, <2>1, <3>1, <3>2
  <2>3. CASE ReleaseKeep(lease[c], IsManual(request[c]), Commit(c))
    <3>1. lease[c] \in active /\ ~IsManual(request[c])
      BY <2>1, <2>3 DEF ReleaseKeep, Keeps, PoolFacts
    <3>2. Commit(c) \in Baseline
      BY <2>1, <3>1
    <3>3. IsManual(request[c]) \in BOOLEAN
      BY DEF IsManual
    <3>4. /\ \A f \in Entry \ {lease[c]} : entry'[f] = entry[f]
          /\ active' = active /\ AttachedStays /\ DisposingStays
      BY <1>1, <2>1, <2>3, <3>2, <3>3, KeepUse
    <3> QED BY <1>1, <1>10, <2>1, <3>4 DEF SameUse, PoolTypeOK
  <2> QED BY <1>10, <2>2, <2>3 DEF CloseCompleted
<1>11. CASE ScheduleExpiry(c)
  <2>1. lease[c] \in Entry /\ closing' = closing
    BY <1>3, <1>11 DEF ScheduleExpiry, End
  <2>2. ASSUME NEW t \in Timer, Schedule(lease[c], t) PROVE Result
    BY <1>1, <2>1, <2>2, ScheduleUse
  <2>3. CASE ScheduleNothing(lease[c])
    <3>1. UNCHANGED poolVars
      BY <2>3 DEF ScheduleNothing
    <3> QED BY <1>2, <2>1, <3>1
  <2>4. Result
    BY <1>11, <2>2, <2>3 DEF ScheduleExpiry
  <2> QED BY <2>1, <2>4
<1> QED BY <1>4, <1>5, <1>6, <1>7, <1>9, <1>10, <1>11 DEF CallerStep

(* What it does to the open connections: it opens the one it leases, or    *)
(* closes what the pool no longer offers.                                  *)
LEMMA SocketUse ==
  ASSUME LocalTypeOK, PoolFacts, CallersKnowTheirEntry, GoneForGood,
         NEW c \in Caller, Start(c) \/ CallerStep(c)
  PROVE  \/ conn' = conn
         \/ pc[c] = "connecting" /\ conn' = [conn EXCEPT ![lease[c]] = NewConnection]
         \/ /\ pc[c] = "attaching" /\ conn' = [conn EXCEPT ![lease[c]] = None]
            /\ ~entry[lease[c]].valid
         \/ pc[c] = "receiving" /\ conn[lease[c]] # None
            /\ \E k \in ConnectionRecord : conn' = [conn EXCEPT ![lease[c]] = k]
         \/ \E e \in Entry \ active : conn' = Closed({e}) /\ UNCHANGED poolVars
<1>1. CASE Start(c) \/ Reserve(c) \/ ReserveRefused(c) \/ GarbageDisposed(c) \/ PlanGuard(c)
           \/ PlanBody(c) \/ PlanOutput(c) \/ PlanCompare(c) \/ ReleaseFailed(c)
  BY <1>1 DEF Start, Reserve, ReserveRefused, GarbageDisposed, PlanGuard, PlanBody, PlanOutput,
              PlanCompare, ReleaseFailed
<1>2. CASE CheckValid(c) \/ Abandon(c) \/ Send(c) \/ ReceiveOutput(c) \/ ReceiveOtherwise(c)
           \/ ReceiveMissing(c) \/ RecoverRelease(c) \/ CloseCompleted(c) \/ CloseFailed(c)
           \/ ScheduleExpiry(c) \/ Leave(c)
  BY <1>2 DEF CheckValid, Abandon, Send, ReceiveOutput, ReceiveOtherwise, ReceiveMissing,
              RecoverRelease, CloseCompleted, CloseFailed, ScheduleExpiry, Leave
<1>3. CASE Connect(c) \/ AttachSocket(c)
  BY <1>3 DEF Connect, AttachSocket
<1>4. CASE DisposeGarbage(c)
  BY <1>4 DEF DisposeGarbage, GoneForGood, LocalTypeOK, CallerTypeOK
<1>5. CASE CleanUp(c) \/ RecoverClose(c) \/ CloseDropped(c)
  <2>1. lease[c] \in Entry
    BY <1>5 DEF CleanUp, RecoverClose, CloseDropped, CallersKnowTheirEntry, LocalTypeOK,
                CallerTypeOK
  <2>2. lease[c] \notin active
    BY <1>5 DEF CleanUp, RecoverClose, CloseDropped, PoolFacts, Parted
  <2> QED BY <1>5, <2>1, <2>2 DEF CleanUp, RecoverClose, CloseDropped
<1>6. CASE ReceiveCompleted(c)
  <2>1. lease[c] \in Entry /\ conn[lease[c]] \in ConnectionRecord /\ sent[c] \in Seq(Item)
        /\ request[c] \in Request
    BY <1>6 DEF ReceiveCompleted, Receiving, PoolFacts, Holds, Opened, LocalTypeOK, CallerTypeOK,
       CallersKnowTheirEntry
  <2> QED BY <1>6, <2>1, CompletionType DEF ReceiveCompleted, Receiving
<1> QED BY <1>1, <1>2, <1>3, <1>4, <1>5, <1>6 DEF CallerStep

(* A caller goes on from where it is.                                      *)
LEMMA StepFrom ==
  ASSUME NEW c \in Caller, Start(c) \/ CallerStep(c)
  PROVE  /\ pc[c] = "disposing" => DisposeGarbage(c) \/ GarbageDisposed(c)
         /\ pc[c] = "connecting" => Connect(c)
         /\ pc[c] = "attaching" => AttachSocket(c)
         /\ pc[c] = "cleaning" => CleanUp(c)
         /\ pc[c] = "recovered" => RecoverClose(c)
         /\ pc[c] = "dropped" => CloseDropped(c)
         /\ pc[c] = "completed" => CloseCompleted(c)
<1>1. CASE \/ Start(c) \/ Reserve(c) \/ ReserveRefused(c) \/ DisposeGarbage(c)
           \/ GarbageDisposed(c) \/ PlanGuard(c) \/ PlanBody(c) \/ PlanOutput(c)
           \/ PlanCompare(c) \/ ReleaseFailed(c)
  BY <1>1 DEF Start, Reserve, ReserveRefused, DisposeGarbage, GarbageDisposed, PlanGuard,
              PlanBody, PlanOutput, PlanCompare, ReleaseFailed
<1>2. CASE CheckValid(c) \/ Abandon(c) \/ Send(c) \/ ReceiveOutput(c) \/ ReceiveCompleted(c)
           \/ ReceiveOtherwise(c) \/ ReceiveMissing(c) \/ RecoverRelease(c)
           \/ CloseFailed(c) \/ ScheduleExpiry(c) \/ Leave(c)
  BY <1>2 DEF CheckValid, Abandon, Send, ReceiveOutput, ReceiveCompleted, ReceiveOtherwise,
              ReceiveMissing, Receiving, RecoverRelease, CloseFailed, ScheduleExpiry, Leave
<1>3. CASE Connect(c) \/ AttachSocket(c) \/ CleanUp(c) \/ RecoverClose(c) \/ CloseDropped(c)
           \/ CloseCompleted(c)
  BY <1>3 DEF Connect, AttachSocket, CleanUp, RecoverClose, CloseDropped, CloseCompleted
<1> QED BY <1>1, <1>2, <1>3 DEF CallerStep

(* Where a caller arrives with a lease, its entry is attached or not yet.  *)
AttachedAsPlaced(d) ==
  /\ pc[d] \in {"connecting", "attaching"} => ~entry[lease[d]].attached
  /\ pc[d] \in {"planning", "comparing"} => entry[lease[d]].attached
  /\ pc[d] = "attaching" => conn[lease[d]] # None

LEMMA OwnPlace ==
  ASSUME LocalTypeOK, PoolFacts, CallersKnowTheirEntry, SocketsAreAttached,
         NEW c \in Caller, Start(c) \/ CallerStep(c)
  PROVE  AttachedAsPlaced(c)'
<1> USE DEF LocalTypeOK, CallerTypeOK, Goto, AttachedAsPlaced, poolVars
<1>1. AttachedAsPlaced(c)
  BY DEF SocketsAreAttached
<1>2. CASE \/ Start(c) \/ Reserve(c) \/ ReserveRefused(c) \/ DisposeGarbage(c)
           \/ GarbageDisposed(c)
  BY <1>1, <1>2 DEF Start, Reserve, ReserveRefused, DisposeGarbage, GarbageDisposed
<1>3. CASE Connect(c)
  <2>1. lease[c] \in Entry
    BY <1>3 DEF Connect, PoolFacts, Holds, Acquiring
  <2>2. NewConnection # None
    BY NewConnectionType, ConnectionAssumption DEF ConnectionAssumption
  <2> QED BY <1>1, <1>3, <2>1, <2>2 DEF Connect
<1>4. CASE AttachSocket(c)
  <2>1. lease[c] \in Entry /\ PoolTypeOK
    BY <1>4 DEF AttachSocket, PoolFacts, Holds, Acquiring
  <2>2. Attach(lease[c]) => entry'[lease[c]].attached
    BY <2>1, AttachUse
  <2> QED BY <1>4, <2>2 DEF AttachSocket
<1>5. CASE PlanGuard(c) \/ PlanBody(c) \/ PlanOutput(c) \/ PlanCompare(c)
  BY <1>1, <1>5 DEF PlanGuard, PlanBody, PlanOutput, PlanCompare, Framed
<1>6. CASE \/ ReleaseFailed(c) \/ CleanUp(c) \/ CheckValid(c) \/ Abandon(c) \/ Send(c)
           \/ RecoverRelease(c) \/ RecoverClose(c) \/ CloseFailed(c)
  BY <1>6 DEF ReleaseFailed, CleanUp, CheckValid, Abandon, Send, RecoverRelease, RecoverClose,
              CloseFailed
<1>7. CASE ReceiveOutput(c) \/ ReceiveCompleted(c) \/ ReceiveOtherwise(c) \/ ReceiveMissing(c)
  BY <1>7 DEF ReceiveOutput, ReceiveCompleted, ReceiveOtherwise, ReceiveMissing, Receiving
<1>8. CASE CloseCompleted(c)
  BY <1>8 DEF CloseCompleted
<1>9. CASE CloseDropped(c) \/ ScheduleExpiry(c) \/ Leave(c)
  BY <1>9 DEF CloseDropped, ScheduleExpiry, Leave, End
<1> QED BY <1>2, <1>3, <1>4, <1>5, <1>6, <1>7, <1>8, <1>9 DEF CallerStep

(* Garbage is only taken from the pool, and only given up for closed.      *)
LEMMA GarbageUse ==
  ASSUME LocalTypeOK, NEW c \in Caller, Start(c) \/ CallerStep(c), ~Reserve(c)
  PROVE  \/ garbage' = garbage
         \/ \E e \in Entry : /\ conn' = Closed({e}) /\ UNCHANGED <<poolVars, pc, lease>>
                             /\ garbage' = [garbage EXCEPT ![c] = @ \ {e}]
<1>1. CASE \/ Start(c) \/ ReserveRefused(c) \/ GarbageDisposed(c) \/ Connect(c) \/ AttachSocket(c)
           \/ PlanGuard(c) \/ PlanBody(c) \/ PlanOutput(c) \/ PlanCompare(c) \/ ReleaseFailed(c)
           \/ CleanUp(c) \/ CheckValid(c) \/ Abandon(c) \/ Send(c)
  BY <1>1 DEF Start, ReserveRefused, GarbageDisposed, Connect, AttachSocket, PlanGuard, PlanBody,
     PlanOutput, PlanCompare, ReleaseFailed, CleanUp, CheckValid, Abandon, Send
<1>2. CASE \/ ReceiveOutput(c) \/ ReceiveCompleted(c) \/ ReceiveOtherwise(c) \/ ReceiveMissing(c)
           \/ RecoverRelease(c) \/ RecoverClose(c) \/ CloseCompleted(c) \/ CloseFailed(c)
           \/ CloseDropped(c) \/ ScheduleExpiry(c) \/ Leave(c)
  BY <1>2 DEF ReceiveOutput, ReceiveCompleted, ReceiveOtherwise, ReceiveMissing, RecoverRelease,
     RecoverClose, CloseCompleted, CloseFailed, CloseDropped, ScheduleExpiry, Leave, End
<1>3. CASE DisposeGarbage(c)
  BY <1>3 DEF DisposeGarbage, LocalTypeOK, CallerTypeOK
<1> QED BY <1>1, <1>2, <1>3 DEF CallerStep

(* A step of a caller other than reserve keeps every socket in somebody's  *)
(* hands.                                                                  *)
LEMMA CallerSockets ==
  ASSUME LocalTypeOK, LocalTypeOK', PoolFacts, CallersKnowTheirEntry, SocketInv,
         NEW c \in Caller, Start(c) \/ CallerStep(c), ~Reserve(c),
         pc[c] = "completed" /\ lease[c] \in active /\ ~IsManual(request[c])
           => Commit(c) \in Baseline
  PROVE  SocketInv'
<1>1. /\ closing' = closing /\ DisposingStays
      /\ \/ active' = active
         \/ active' = active \ {lease[c]} /\ Releasing(c)
      /\ AttachSocket(c) \/ AttachedStays
      /\ \A f \in active' : \/ SameUse(f)
                            \/ f = lease[c] /\ (PlanCompare(c) \/ CloseCompleted(c))
  BY StepUse
<1>2. /\ GoneForGood /\ SocketsAreAttached /\ SocketsHaveACloser /\ PooledSocketsAreOpen
      /\ PoolTypeOK
  BY DEF SocketInv, PoolFacts
<1>3. \/ conn' = conn
      \/ pc[c] = "connecting" /\ conn' = [conn EXCEPT ![lease[c]] = NewConnection]
      \/ /\ pc[c] = "attaching" /\ conn' = [conn EXCEPT ![lease[c]] = None]
         /\ ~entry[lease[c]].valid
      \/ pc[c] = "receiving" /\ conn[lease[c]] # None
         /\ \E k \in ConnectionRecord : conn' = [conn EXCEPT ![lease[c]] = k]
      \/ \E e \in Entry \ active : conn' = Closed({e}) /\ UNCHANGED poolVars
  BY <1>2, SocketUse
<1>4. \/ garbage' = garbage
      \/ \E e \in Entry : /\ conn' = Closed({e}) /\ UNCHANGED <<poolVars, pc, lease>>
                          /\ garbage' = [garbage EXCEPT ![c] = @ \ {e}]
  BY GarbageUse
<1>5. \A d \in Caller \ {c} : pc'[d] = pc[d] /\ lease'[d] = lease[d]
  BY OthersStay DEF SameCaller
<1>6. NewConnection # None /\ \A k \in ConnectionRecord : k # None
  BY NewConnectionType, ConnectionAssumption DEF ConnectionAssumption
<1>7. conn \in [Entry -> ConnectionRecord \cup {None}] /\ active \subseteq Entry
      /\ garbage \in [Caller -> SUBSET Entry]
  BY <1>2 DEF LocalTypeOK, CallerTypeOK, PoolTypeOK
<1>8. ASSUME AttachSocket(c)
      PROVE  /\ lease[c] \in Entry /\ pc[c] = "attaching" /\ lease' = lease
             /\ \/ Attach(lease[c]) /\ UNCHANGED conn /\ entry'[lease[c]].attached
                   /\ \A f \in Entry \ {lease[c]} : entry'[f] = entry[f]
                \/ conn' = [conn EXCEPT ![lease[c]] = None] /\ UNCHANGED poolVars
  <2>1. lease[c] \in Entry
    BY <1>8 DEF AttachSocket, PoolFacts, Holds, Acquiring
  <2>2. Attach(lease[c]) => entry'[lease[c]].attached
                            /\ \A f \in Entry \ {lease[c]} : entry'[f] = entry[f]
    BY <1>2, <2>1, AttachUse
  <2> QED BY <1>8, <2>1, <2>2 DEF AttachSocket
<1>9. \A f \in Entry : entry[f].attached => entry'[f].attached
  BY <1>1, <1>8 DEF AttachedStays, poolVars
<1>10. GoneForGood'
  <2>1. \A d \in Caller : garbage'[d] \subseteq garbage[d]
    BY <1>4, <1>7
  <2>2. active' \subseteq active
    BY <1>1
  <2>3. ASSUME NEW d \in Caller, garbage'[d] # {} PROVE pc'[d] = "disposing"
    <3>1. garbage[d] # {} /\ pc[d] = "disposing"
      BY <1>2, <2>1, <2>3 DEF GoneForGood
    <3>2. CASE d = c
      BY <3>1, <3>2, StepFrom DEF DisposeGarbage, GarbageDisposed
    <3> QED BY <1>5, <3>1, <3>2
  <2> QED BY <1>1, <1>2, <2>1, <2>2, <2>3 DEF GoneForGood, DisposingStays
<1>11. \A e \in Entry : conn'[e] # None =>
          conn[e] # None \/ (e = lease[c] /\ pc[c] = "connecting")
  <2> TAKE e \in Entry
  <2> SUFFICES ASSUME conn[e] = None, conn'[e] # None
               PROVE  e = lease[c] /\ pc[c] = "connecting"
    OBVIOUS
  <2>1. ASSUME NEW es PROVE conn' # Closed(es)
    BY <1>7 DEF Closed
  <2>2. ASSUME NEW x, NEW k, conn' = [conn EXCEPT ![x] = k] PROVE e = x
    BY <1>7, <2>2
  <2> QED BY <1>3, <1>7, <2>1, <2>2
<1>12. PooledSocketsAreOpen'
  <2> SUFFICES ASSUME NEW e \in active', entry'[e].attached PROVE conn'[e] # None
    BY DEF PooledSocketsAreOpen
  <2>1. e \in active /\ e \in Entry
    BY <1>1, <1>7
  <2>2. CASE entry[e].attached
    <3>1. conn[e] # None
      BY <1>2, <2>1, <2>2 DEF PooledSocketsAreOpen
    <3>2. conn' = [conn EXCEPT ![lease[c]] = None] /\ ~entry[lease[c]].valid => conn'[e] # None
      BY <1>7, <2>1, <3>1 DEF PoolFacts
    <3> QED BY <1>3, <1>6, <1>7, <2>1, <3>1, <3>2 DEF Closed
  <2>3. CASE ~entry[e].attached
    <3>1. AttachSocket(c) /\ e = lease[c] /\ UNCHANGED conn
      BY <1>1, <1>8, <2>1, <2>3 DEF AttachedStays, poolVars
    <3> QED BY <1>2, <1>8, <3>1 DEF SocketsAreAttached
  <2> QED BY <2>2, <2>3
<1>13. ASSUME NEW d \in Caller \ {c}, pc[d] \in {"connecting", "attaching", "planning", "comparing"},
              Holds(c)
       PROVE  lease[d] # lease[c] /\ lease[d] \in Entry
  BY <1>13 DEF PoolFacts, Holds, Acquiring
<1>14. SocketsAreAttached'
  <2>1. ASSUME NEW d \in Caller \ {c} PROVE AttachedAsPlaced(d)'
    <3>1. AttachedAsPlaced(d)
      BY <1>2 DEF SocketsAreAttached, AttachedAsPlaced
    <3>2. CASE pc[d] \in {"connecting", "attaching", "planning", "comparing"}
      <4>1. lease[d] \in Entry
        BY <3>2 DEF PoolFacts, Holds, Acquiring
      <4>2. entry'[lease[d]].attached = entry[lease[d]].attached
        <5>1. CASE AttachSocket(c)
          BY <1>8, <1>13, <3>2, <4>1, <5>1 DEF AttachSocket, Holds, Acquiring, poolVars
        <5>2. CASE AttachedStays
          BY <4>1, <5>2 DEF AttachedStays
        <5> QED BY <1>1, <5>1, <5>2
      <4>3. pc[d] = "attaching" => conn'[lease[d]] # None
        <5> HAVE pc[d] = "attaching"
        <5>1. conn[lease[d]] # None /\ ~entry[lease[d]].attached
          BY <3>1 DEF AttachedAsPlaced
        <5>2. pc[c] = "attaching" => lease[d] # lease[c]
          BY <1>13, <3>2 DEF Holds, Acquiring
        <5> QED BY <1>3, <1>6, <1>7, <4>1, <5>1, <5>2 DEF Closed
      <4> QED BY <1>5, <3>1, <4>2, <4>3 DEF AttachedAsPlaced
    <3> QED BY <1>5, <3>2 DEF AttachedAsPlaced
  <2>2. AttachedAsPlaced(c)'
    BY <1>2, OwnPlace
  <2>3. ASSUME NEW e \in Entry, conn'[e] # None
        PROVE  entry'[e].attached \/ \E d \in Caller : pc'[d] = "attaching" /\ lease'[d] = e
    <3>1. CASE pc[c] = "connecting" /\ lease[c] = e
      <4>1. Connect(c)
        BY <3>1, StepFrom
      <4>2. CASE Goto(c, "attaching") /\ lease' = lease
        BY <3>1, <4>2 DEF Goto, LocalTypeOK, CallerTypeOK
      <4>3. CASE conn' = conn
        <5>1. entry[e].attached \/ \E d \in Caller : pc[d] = "attaching" /\ lease[d] = e
          BY <1>2, <2>3, <4>3 DEF SocketsAreAttached
        <5>2. ~entry[e].attached
          BY <1>2, <3>1 DEF SocketsAreAttached
        <5> QED BY <1>13, <3>1, <5>1, <5>2 DEF Holds, Acquiring
      <4> QED BY <4>1, <4>2, <4>3 DEF Connect
    <3>2. CASE conn[e] # None
      <4>1. entry[e].attached \/ \E d \in Caller : pc[d] = "attaching" /\ lease[d] = e
        BY <1>2, <3>2 DEF SocketsAreAttached
      <4>2. CASE pc[c] = "attaching" /\ lease[c] = e
        <5>1. AttachSocket(c)
          BY <4>2, StepFrom
        <5>2. conn' # [conn EXCEPT ![lease[c]] = None]
          BY <1>7, <2>3, <4>2
        <5> QED BY <1>8, <4>2, <5>1, <5>2
      <4> QED BY <1>5, <1>9, <4>1, <4>2
    <3> QED BY <1>11, <2>3, <3>1, <3>2
  <2> QED BY <2>1, <2>2, <2>3 DEF SocketsAreAttached, AttachedAsPlaced
<1>15. SocketsHaveACloser'
  <2> SUFFICES ASSUME NEW e \in Entry, conn'[e] # None,
                      e \notin active' \cup closing'
               PROVE  \/ \E d \in Caller :
                            e \in garbage'[d] \/ (lease'[d] = e /\ pc'[d] \in Closers)
                      \/ \E t \in Timer : timers'[t].state = "disposing" /\ timers'[t].entry = e
    BY DEF SocketsHaveACloser, Closers
  <2> DEFINE Kept == \/ \E d \in Caller :
                            e \in garbage'[d] \/ (lease'[d] = e /\ pc'[d] \in Closers)
                     \/ \E t \in Timer : timers'[t].state = "disposing" /\ timers'[t].entry = e
  <2>1. CASE pc[c] = "connecting" /\ lease[c] = e
    <3>1. Connect(c)
      BY <2>1, StepFrom
    <3>2. CASE Goto(c, "attaching") /\ lease' = lease
      BY <2>1, <3>2 DEF Goto, LocalTypeOK, CallerTypeOK, Closers
    <3>3. CASE conn' = conn
      <4>1. entry[e].attached \/ \E d \in Caller : pc[d] = "attaching" /\ lease[d] = e
        BY <1>2, <3>3 DEF SocketsAreAttached
      <4>2. ~entry[e].attached
        BY <1>2, <2>1 DEF SocketsAreAttached
      <4> QED BY <1>13, <2>1, <4>1, <4>2 DEF Holds, Acquiring
    <3> QED BY <3>1, <3>2, <3>3 DEF Connect
  <2>2. ASSUME NEW d \in Caller \ {c}, lease[d] = e, pc[d] \in Closers PROVE Kept
    BY <1>5, <2>2
  <2>9. ~(pc[c] = "attaching" /\ lease[c] = e)
    <3> SUFFICES ASSUME pc[c] = "attaching", lease[c] = e PROVE FALSE
      OBVIOUS
    <3>1. AttachSocket(c)
      BY StepFrom
    <3>2. conn' # [conn EXCEPT ![lease[c]] = None]
      BY <1>7
    <3>3. entry[e].valid
      BY <1>8, <3>1, <3>2 DEF Attach
    <3> QED BY <1>1, <3>3 DEF PoolFacts, Releasing
  <2>3. ASSUME NEW x, conn' = Closed({x}), x = e PROVE Kept
    <3>1. conn[e] # None /\ ~entry[e].attached
      BY <1>7, <2>3 DEF Closed
    <3>2. PICK d \in Caller : pc[d] = "attaching" /\ lease[d] = e
      BY <1>2, <3>1 DEF SocketsAreAttached
    <3> QED BY <2>2, <2>9, <3>2 DEF Closers
  <2>4. CASE conn[e] # None
    <3>1. CASE e \in active
      <4>1. Releasing(c) /\ lease[c] = e /\ active' = active \ {lease[c]}
        BY <1>1, <3>1
      <4> QED BY <4>1 DEF Releasing, Closers
    <3>2. ASSUME NEW d \in Caller, e \in garbage[d] PROVE Kept
      <4>1. CASE e \in garbage'[d]
        BY <3>2, <4>1
      <4>2. CASE e \notin garbage'[d]
        <5>1. PICK x \in Entry : conn' = Closed({x}) /\ garbage' = [garbage EXCEPT ![c] = @ \ {x}]
          BY <1>4, <3>2, <4>2
        <5>2. x = e
          BY <1>7, <3>2, <4>2, <5>1
        <5> QED BY <2>3, <5>1, <5>2
      <4> QED BY <4>1, <4>2
    <3>3. CASE lease[c] = e /\ pc[c] \in Closers
      <4>1. CleanUp(c) \/ RecoverClose(c) \/ CloseDropped(c)
        BY <2>9, <3>3, StepFrom DEF Closers
      <4>2. conn' = Closed({lease[c]})
        BY <4>1 DEF CleanUp, RecoverClose, CloseDropped
      <4> QED BY <2>3, <3>3, <4>2
    <3>4. ASSUME NEW t \in Timer, timers[t].state = "disposing", timers[t].entry = e PROVE Kept
      BY <1>1, <3>4 DEF DisposingStays
    <3>5. \/ e \in active \cup closing
          \/ \E d \in Caller : e \in garbage[d] \/ (lease[d] = e /\ pc[d] \in Closers)
          \/ \E t \in Timer : timers[t].state = "disposing" /\ timers[t].entry = e
      BY <1>2, <2>4 DEF SocketsHaveACloser
    <3> QED BY <1>1, <2>2, <3>1, <3>2, <3>3, <3>4, <3>5
  <2> QED BY <1>11, <2>1, <2>4
<1> QED BY <1>10, <1>12, <1>14, <1>15 DEF SocketInv

(* What reserve removes is the caller's garbage; what it leases is open    *)
(* and attached, or nobody's.                                              *)
LEMMA ReserveSockets ==
  ASSUME LocalTypeOK, LocalTypeOK', PoolFacts, CallersKnowTheirEntry, SocketInv,
         NEW c \in Caller, Reserve(c)
  PROVE  SocketInv'
<1> DEFINE r == request[c]
           m == IsManual(r)
<1>1. /\ GoneForGood /\ SocketsAreAttached /\ SocketsHaveACloser /\ PooledSocketsAreOpen
      /\ PoolTypeOK
  BY DEF SocketInv, PoolFacts
<1>2. /\ conn' = conn /\ closing' = closing /\ pc[c] = "reserving" /\ pc'[c] = "disposing"
      /\ CallerStep(c)
  BY DEF Reserve, Goto, LocalTypeOK, CallerTypeOK, CallerStep
<1>3. r \in Request
  BY <1>2 DEF LocalTypeOK, CallerTypeOK, CallersKnowTheirEntry
<1>4. r.session \in Session \cup {None} /\ r.endpoint \in Endpoint /\ m \in BOOLEAN
  BY <1>3, RequestAssumption DEF RequestAssumption, IsManual
<1>5. \A d \in Caller \ {c} : pc'[d] = pc[d] /\ lease'[d] = lease[d] /\ garbage'[d] = garbage[d]
  BY <1>2, OthersStay DEF SameCaller
<1>6. garbage[c] = {}
  BY <1>1, <1>2 DEF GoneForGood
<1>7. PICK e \in Entry, g \in SUBSET Entry :
        /\ lease'[c] = e /\ garbage'[c] = g
        /\ active \ g \subseteq active' /\ active' \subseteq (active \ g) \cup {e}
        /\ g \cap active' = {}
        /\ DisposingStays
        /\ \/ AttachedStays /\ active' \subseteq active
           \/ /\ Unused(e) /\ ~entry'[e].attached
              /\ \A f \in Entry \ {e} : entry'[f].attached = entry[f].attached
  <2>1. PICK e \in Entry :
          /\ \/ /\ Reuse(r.session, r.endpoint, m, e)
                /\ garbage' = [garbage EXCEPT ![c] = Stale(r.endpoint)]
             \/ /\ Unused(e)
                /\ \E v \in SUBSET Entry :
                     /\ Create(r.session, r.endpoint, m, e, v)
                     /\ garbage' = [garbage EXCEPT ![c] = Stale(r.endpoint) \cup v]
          /\ lease' = [lease EXCEPT ![c] = e]
    BY DEF Reserve
  <2>2. Stale(r.endpoint) \subseteq active /\ active \subseteq Entry
    BY <1>1 DEF Stale, PoolTypeOK
  <2>3. lease'[c] = e
    BY <2>1 DEF LocalTypeOK, CallerTypeOK
  <2>4. CASE /\ Reuse(r.session, r.endpoint, m, e)
             /\ garbage' = [garbage EXCEPT ![c] = Stale(r.endpoint)]
    <3>1. m = FALSE /\ r.session \in Session
      BY <1>4, <2>4, NoneAssumption DEF NoneAssumption, Reuse, Cached
    <3>2. active' = active \ Stale(r.endpoint) /\ AttachedStays /\ DisposingStays
      BY <1>1, <1>4, <2>4, <3>1, ReuseUse
    <3>3. garbage'[c] = Stale(r.endpoint)
      BY <2>4 DEF LocalTypeOK, CallerTypeOK
    <3> QED BY <2>2, <2>3, <3>2, <3>3
  <2>5. ASSUME Unused(e), NEW v \in SUBSET Entry, Create(r.session, r.endpoint, m, e, v),
               garbage' = [garbage EXCEPT ![c] = Stale(r.endpoint) \cup v]
        PROVE  /\ garbage'[c] = Stale(r.endpoint) \cup v
               /\ active' = (active \ (Stale(r.endpoint) \cup v)) \cup {e}
               /\ e \notin Stale(r.endpoint) \cup v
               /\ DisposingStays /\ ~entry'[e].attached
               /\ \A f \in Entry \ {e} : entry'[f].attached = entry[f].attached
    <3>1. /\ active' = (active \ (Stale(r.endpoint) \cup v)) \cup {e} /\ DisposingStays
          /\ \A f \in Entry \ {e} : entry'[f].attached = entry[f].attached
          /\ ~entry'[e].attached
      BY <1>1, <1>4, <2>5, CreateUse
    <3>2. v \subseteq active
      <4>1. v \in Evictions(r.session, m, Stale(r.endpoint))
        BY <2>5 DEF Create
      <4>2. v \subseteq {f \in Entry : \E s \in Session : EntriesWithout(Stale(r.endpoint))[s] = f}
        BY <4>1 DEF Evictions, LeastRecent
      <4> QED BY <4>2, NoneAssumption DEF NoneAssumption, EntriesWithout, PoolFacts
    <3>3. e \notin active
      BY <2>5 DEF Unused, Unreferenced
    <3>4. garbage'[c] = Stale(r.endpoint) \cup v
      BY <2>5 DEF LocalTypeOK, CallerTypeOK
    <3> QED BY <2>2, <3>1, <3>2, <3>3, <3>4
  <2>6. CASE /\ Unused(e)
             /\ \E v \in SUBSET Entry :
                  /\ Create(r.session, r.endpoint, m, e, v)
                  /\ garbage' = [garbage EXCEPT ![c] = Stale(r.endpoint) \cup v]
    <3>1. PICK v \in SUBSET Entry :
            /\ garbage'[c] = Stale(r.endpoint) \cup v
            /\ active' = (active \ (Stale(r.endpoint) \cup v)) \cup {e}
            /\ e \notin Stale(r.endpoint) \cup v
            /\ DisposingStays /\ ~entry'[e].attached
            /\ \A f \in Entry \ {e} : entry'[f].attached = entry[f].attached
      BY <2>5, <2>6
    <3> DEFINE g == Stale(r.endpoint) \cup v
    <3>2. g \subseteq Entry
      BY <2>2
    <3> HIDE DEF g
    <3>3. garbage'[c] = g /\ active' = (active \ g) \cup {e} /\ e \notin g
      BY <3>1 DEF g
    <3> QED BY <2>3, <2>6, <3>1, <3>2, <3>3
  <2> QED BY <2>1, <2>4, <2>6
<1> HIDE DEF r, m
<1>8. Unused(e) => /\ e \notin closing /\ conn[e] = None /\ e \notin active
                   /\ \A d \in Caller : lease[d] # e /\ e \notin garbage[d]
                   /\ \A t \in Timer : timers[t].entry # e
  BY DEF Unused, Unreferenced
<1>9. \A f \in Entry : conn[f] # None => entry'[f].attached = entry[f].attached
  BY <1>7, <1>8 DEF AttachedStays
<1>10. active' \subseteq active \/ (Unused(e) /\ active' \subseteq active \cup {e})
  BY <1>7
<1>11. GoneForGood'
  <2>1. closing' \cap active' = {}
    BY <1>1, <1>2, <1>8, <1>10 DEF GoneForGood
  <2>2. \A d \in Caller : garbage'[d] \cap active' = {}
    BY <1>1, <1>5, <1>7, <1>8, <1>10 DEF GoneForGood
  <2>3. \A t \in Timer : timers'[t].state = "disposing" => timers'[t].entry \notin active'
    BY <1>1, <1>7, <1>8, <1>10 DEF GoneForGood, DisposingStays
  <2>4. \A d \in Caller : garbage'[d] # {} => pc'[d] = "disposing"
    BY <1>1, <1>2, <1>5 DEF GoneForGood
  <2> QED BY <2>1, <2>2, <2>3, <2>4 DEF GoneForGood
<1>12. PooledSocketsAreOpen'
  <2> SUFFICES ASSUME NEW f \in active', entry'[f].attached PROVE conn[f] # None
    BY <1>2 DEF PooledSocketsAreOpen
  <2>1. f \in Entry /\ f \in active /\ entry[f].attached
    BY <1>1, <1>7, <1>10 DEF AttachedStays, PoolTypeOK
  <2> QED BY <1>1, <2>1 DEF PooledSocketsAreOpen
<1>13. SocketsAreAttached'
  <2>1. ASSUME NEW d \in Caller \ {c} PROVE AttachedAsPlaced(d)'
    <3>1. AttachedAsPlaced(d)
      BY <1>1 DEF SocketsAreAttached, AttachedAsPlaced
    <3>2. CASE pc[d] \in {"connecting", "attaching", "planning", "comparing"}
      <4>1. lease[d] \in Entry
        BY <3>2 DEF PoolFacts, Holds, Acquiring
      <4>2. entry'[lease[d]].attached = entry[lease[d]].attached
        BY <1>7, <1>8, <4>1 DEF AttachedStays
      <4> QED BY <1>2, <1>5, <3>1, <4>2 DEF AttachedAsPlaced
    <3> QED BY <1>5, <3>2 DEF AttachedAsPlaced
  <2>2. AttachedAsPlaced(c)'
    BY <1>2 DEF AttachedAsPlaced
  <2>3. ASSUME NEW f \in Entry, conn'[f] # None
        PROVE  entry'[f].attached \/ \E d \in Caller : pc'[d] = "attaching" /\ lease'[d] = f
    <3>1. entry[f].attached \/ \E d \in Caller : pc[d] = "attaching" /\ lease[d] = f
      BY <1>1, <1>2, <2>3 DEF SocketsAreAttached
    <3> QED BY <1>2, <1>5, <1>9, <2>3, <3>1
  <2> QED BY <2>1, <2>2, <2>3 DEF SocketsAreAttached, AttachedAsPlaced
<1>14. SocketsHaveACloser'
  <2> SUFFICES ASSUME NEW f \in Entry, conn[f] # None
               PROVE  \/ f \in active' \cup closing'
                      \/ \E d \in Caller :
                           f \in garbage'[d] \/ (lease'[d] = f /\ pc'[d] \in Closers)
                      \/ \E t \in Timer : timers'[t].state = "disposing" /\ timers'[t].entry = f
    BY <1>2 DEF SocketsHaveACloser
  <2>1. \/ f \in active \cup closing
        \/ \E d \in Caller : f \in garbage[d] \/ (lease[d] = f /\ pc[d] \in Closers)
        \/ \E t \in Timer : timers[t].state = "disposing" /\ timers[t].entry = f
    BY <1>1 DEF SocketsHaveACloser
  <2>2. CASE f \in active
    BY <1>7, <2>2
  <2>3. CASE f \in closing
    BY <1>2, <2>3
  <2>4. ASSUME NEW d \in Caller, f \in garbage[d] \/ (lease[d] = f /\ pc[d] \in Closers)
        PROVE  f \in garbage'[d] \/ (lease'[d] = f /\ pc'[d] \in Closers)
    <3>1. d # c
      BY <1>2, <1>6, <2>4 DEF Closers
    <3> QED BY <1>5, <2>4, <3>1
  <2>5. ASSUME NEW t \in Timer, timers[t].state = "disposing", timers[t].entry = f
        PROVE  timers'[t].state = "disposing" /\ timers'[t].entry = f
    BY <1>7, <2>5 DEF DisposingStays
  <2> QED BY <2>1, <2>2, <2>3, <2>4, <2>5
<1> QED BY <1>11, <1>12, <1>13, <1>14 DEF SocketInv

(* What the environment removes, somebody closes: the timer, or close.     *)
LEMMA EnvironmentSockets ==
  ASSUME LocalTypeOK, PoolFacts, SocketInv,
         \/ \E t \in Timer : TimerStep(t)
         \/ CloseSession \/ Close \/ CloseNext \/ Pass \/ UNCHANGED vars
  PROVE  SocketInv'
<1>1. /\ GoneForGood /\ SocketsAreAttached /\ SocketsHaveACloser /\ PooledSocketsAreOpen
      /\ PoolTypeOK
  BY DEF SocketInv, PoolFacts
<1>2. pc' = pc /\ lease' = lease /\ garbage' = garbage
  BY EnvironmentStays DEF callerVars
<1>3. active \subseteq Entry /\ closing \subseteq Entry /\ conn \in [Entry -> ConnectionRecord \cup {None}]
  BY <1>1 DEF PoolTypeOK, LocalTypeOK
(* A step that closes nothing.                                             *)
<1>4. ASSUME conn' = conn, AttachedStays, active' \subseteq active, closing \subseteq closing',
             closing' \cap active' = {},
             \A u \in Timer : timers[u].state = "disposing" =>
               timers'[u].state = "disposing" /\ timers'[u].entry = timers[u].entry,
             \A u \in Timer : timers'[u].state = "disposing" /\ timers[u].state # "disposing" =>
               timers'[u].entry \notin active',
             \A f \in active \ active' : \/ f \in closing'
                                         \/ \E u \in Timer : timers'[u].state = "disposing"
                                                             /\ timers'[u].entry = f
      PROVE  SocketInv'
  <2>1. GoneForGood'
    BY <1>1, <1>2, <1>4 DEF GoneForGood
  <2>2. SocketsAreAttached'
    <3>1. ASSUME NEW d \in Caller PROVE AttachedAsPlaced(d)'
      <4>1. AttachedAsPlaced(d)
        BY <1>1 DEF SocketsAreAttached, AttachedAsPlaced
      <4>2. pc[d] \in {"connecting", "attaching", "planning", "comparing"} => lease[d] \in Entry
        BY DEF PoolFacts, Holds, Acquiring
      <4> QED BY <1>2, <1>4, <4>1, <4>2 DEF AttachedAsPlaced, AttachedStays
    <3>2. ASSUME NEW e \in Entry, conn'[e] # None
          PROVE  entry'[e].attached \/ \E d \in Caller : pc'[d] = "attaching" /\ lease'[d] = e
      BY <1>1, <1>2, <1>4, <3>2 DEF SocketsAreAttached, AttachedStays
    <3> QED BY <3>1, <3>2 DEF SocketsAreAttached, AttachedAsPlaced
  <2>3. PooledSocketsAreOpen'
    BY <1>1, <1>3, <1>4 DEF PooledSocketsAreOpen, AttachedStays
  <2>4. SocketsHaveACloser'
    <3> SUFFICES ASSUME NEW e \in Entry, conn'[e] # None, e \notin active' \cup closing',
                        ~ \E u \in Timer : timers'[u].state = "disposing" /\ timers'[u].entry = e
                 PROVE  \E d \in Caller : \/ e \in garbage'[d]
                                          \/ lease'[d] = e /\ pc'[d] \in Closers
      BY DEF SocketsHaveACloser
    <3>1. e \notin active \cup closing
      BY <1>4
    <3>2. ~ \E u \in Timer : timers[u].state = "disposing" /\ timers[u].entry = e
      BY <1>4
    <3> QED BY <1>1, <1>2, <1>4, <3>1, <3>2 DEF SocketsHaveACloser
  <2> QED BY <2>1, <2>2, <2>3, <2>4 DEF SocketInv
(* A step that closes one entry the pool no longer offers.                 *)
<1>5. ASSUME NEW x \in Entry \ active, conn' = Closed({x}), entry' = entry, active' = active,
             \A f \in closing : f \in closing' \/ f = x,
             closing' \subseteq closing,
             \A u \in Timer : timers'[u].state = "disposing" =>
               timers[u].state = "disposing" /\ timers'[u].entry = timers[u].entry,
             \A u \in Timer : timers[u].state = "disposing" =>
               \/ timers'[u].state = "disposing" /\ timers'[u].entry = timers[u].entry
               \/ timers[u].entry = x
      PROVE  SocketInv'
  <2>1. GoneForGood'
    BY <1>1, <1>2, <1>5 DEF GoneForGood
  <2>2. \A e \in Entry : conn'[e] # None => conn[e] # None /\ (e = x => ~entry[e].attached)
    BY <1>3, <1>5 DEF Closed
  <2>3. \A e \in Entry : e # x \/ ~entry[e].attached => conn'[e] = conn[e]
    BY <1>3, <1>5 DEF Closed
  <2>4. SocketsAreAttached'
    <3>1. ASSUME NEW d \in Caller PROVE AttachedAsPlaced(d)'
      <4>1. AttachedAsPlaced(d)
        BY <1>1 DEF SocketsAreAttached, AttachedAsPlaced
      <4>2. pc[d] = "attaching" => lease[d] \in Entry
        BY DEF PoolFacts, Holds, Acquiring
      <4> QED BY <1>2, <1>5, <2>3, <4>1, <4>2 DEF AttachedAsPlaced
    <3>2. ASSUME NEW e \in Entry, conn'[e] # None
          PROVE  entry'[e].attached \/ \E d \in Caller : pc'[d] = "attaching" /\ lease'[d] = e
      BY <1>1, <1>2, <1>5, <2>2, <3>2 DEF SocketsAreAttached
    <3> QED BY <3>1, <3>2 DEF SocketsAreAttached, AttachedAsPlaced
  <2>5. PooledSocketsAreOpen'
    BY <1>1, <1>3, <1>5, <2>3 DEF PooledSocketsAreOpen
  <2>6. SocketsHaveACloser'
    <3> SUFFICES ASSUME NEW e \in Entry, conn'[e] # None
                 PROVE  \/ e \in active' \cup closing'
                        \/ \E d \in Caller :
                             e \in garbage'[d] \/ (lease'[d] = e /\ pc'[d] \in Closers)
                        \/ \E u \in Timer : timers'[u].state = "disposing" /\ timers'[u].entry = e
      BY DEF SocketsHaveACloser
    <3>1. CASE e = x
      <4>1. PICK d \in Caller : pc[d] = "attaching" /\ lease[d] = e
        BY <1>1, <2>2, <3>1 DEF SocketsAreAttached
      <4> QED BY <1>2, <4>1 DEF Closers
    <3>2. CASE e # x
      <4>1. \/ e \in active \cup closing
            \/ \E d \in Caller : e \in garbage[d] \/ (lease[d] = e /\ pc[d] \in Closers)
            \/ \E u \in Timer : timers[u].state = "disposing" /\ timers[u].entry = e
        BY <1>1, <2>2 DEF SocketsHaveACloser
      <4>2. e \in active \cup closing => e \in active' \cup closing'
        BY <1>5, <3>2
      <4>3. (\E u \in Timer : timers[u].state = "disposing" /\ timers[u].entry = e) =>
              \E u \in Timer : timers'[u].state = "disposing" /\ timers'[u].entry = e
        BY <1>5, <3>2
      <4> QED BY <1>2, <4>1, <4>2, <4>3
    <3> QED BY <3>1, <3>2
  <2> QED BY <2>1, <2>4, <2>5, <2>6 DEF SocketInv
<1>6. ASSUME NEW t \in Timer, Fire(t) \/ Expire(t), conn' = conn, closing' = closing
      PROVE  SocketInv'
  <2>1. /\ active' \subseteq active /\ AttachedStays
        /\ \A f \in active' : SameUse(f)
        /\ \A u \in Timer : timers[u].state = "disposing" =>
             timers'[u].state = "disposing" /\ timers'[u].entry = timers[u].entry
        /\ \A u \in Timer : timers'[u].state = "disposing" /\ timers[u].state # "disposing" =>
             timers'[u].entry \notin active'
        /\ \A f \in active \ active' :
             \E u \in Timer : timers'[u].state = "disposing" /\ timers'[u].entry = f
    BY <1>1, <1>6, TimerUse
  <2>2. closing' \cap active' = {}
    BY <1>1, <1>6, <2>1 DEF GoneForGood
  <2> QED BY <1>4, <1>6, <2>1, <2>2
<1>7. ASSUME NEW t \in Timer, Dispose(t), conn' = Closed({timers[t].entry}), closing' = closing
      PROVE  SocketInv'
  <2>1. timers[t].state = "disposing" /\ timers[t].entry \in Entry \cup {None}
    BY <1>1, <1>7 DEF Dispose, PoolTypeOK, TimerRecord
  <2>2. /\ entry' = entry /\ active' = active
        /\ \A u \in Timer \ {t} : timers'[u] = timers[u]
        /\ timers'[t].state = "free"
    BY <1>1, <1>7 DEF Dispose, PoolTypeOK, FreeTimer
  <2>3. CASE timers[t].entry \in Entry
    <3>1. timers[t].entry \in Entry \ active
      BY <1>1, <2>1, <2>3 DEF GoneForGood
    <3>2. \A u \in Timer : timers'[u].state = "disposing" =>
            timers[u].state = "disposing" /\ timers'[u].entry = timers[u].entry
      BY <2>2
    <3>3. \A u \in Timer : timers[u].state = "disposing" =>
               \/ timers'[u].state = "disposing" /\ timers'[u].entry = timers[u].entry
               \/ timers[u].entry = timers[t].entry
      BY <2>2
    <3> QED BY <1>5, <1>7, <2>2, <3>1, <3>2, <3>3
  <2>4. CASE timers[t].entry = None
    <3>1. conn' = conn
      BY <1>3, <1>7, <2>4, NoneAssumption DEF Closed, NoneAssumption
    <3>2. GoneForGood'
      BY <1>1, <1>2, <1>7, <2>2 DEF GoneForGood
    <3>3. SocketsAreAttached' /\ PooledSocketsAreOpen'
      BY <1>1, <1>2, <2>2, <3>1 DEF SocketsAreAttached, PooledSocketsAreOpen
    <3>4. SocketsHaveACloser'
      <4> SUFFICES ASSUME NEW e \in Entry, conn[e] # None, e \notin active \cup closing,
                          ~ \E d \in Caller : \/ e \in garbage[d]
                                              \/ lease[d] = e /\ pc[d] \in Closers
                   PROVE  \E u \in Timer : timers'[u].state = "disposing" /\ timers'[u].entry = e
        BY <1>2, <1>7, <2>2, <3>1 DEF SocketsHaveACloser
      <4>1. PICK u \in Timer : timers[u].state = "disposing" /\ timers[u].entry = e
        BY <1>1 DEF SocketsHaveACloser
      <4> QED BY <2>2, <2>4, <4>1, NoneAssumption DEF NoneAssumption
    <3> QED BY <3>2, <3>3, <3>4 DEF SocketInv
  <2> QED BY <2>1, <2>3, <2>4
<1>8. ASSUME NEW gone, gone \subseteq active, RemoveEntries(gone), conn' = conn,
             closing' = closing \cup gone
      PROVE  SocketInv'
  <2>1. /\ active' = active \ gone /\ AttachedStays /\ DisposingStays
        /\ \A f \in active' : SameUse(f)
    BY <1>1, <1>8, RemoveUse
  <2>2. closing' \cap active' = {}
    BY <1>1, <1>8, <2>1 DEF GoneForGood
  <2> QED BY <1>4, <1>8, <2>1, <2>2 DEF DisposingStays
<1>9. ASSUME NEW t \in Timer, TimerStep(t) PROVE SocketInv'
  BY <1>6, <1>7, <1>9 DEF TimerStep
<1>10. CASE CloseSession
  <2>1. PICK s \in Session : ClearSession(s) /\ closing' = closing \cup OfSession(s)
    BY <1>10 DEF CloseSession
  <2> QED BY <1>8, <1>10, <2>1 DEF CloseSession, ClearSession, OfSession
<1>11. CASE Close
  BY <1>8, <1>11 DEF Close, ClearAll
<1>12. CASE CloseNext
  <2>1. PICK e \in closing : conn' = Closed({e}) /\ closing' = closing \ {e}
    BY <1>12 DEF CloseNext
  <2>2. e \in Entry \ active
    BY <1>1, <1>3 DEF GoneForGood
  <2> QED BY <1>5, <1>12, <2>1, <2>2 DEF CloseNext, poolVars
<1>13. CASE Pass
  <2>1. /\ active' = active /\ AttachedStays /\ DisposingStays
        /\ \A f \in active' : SameUse(f)
    BY <1>1, <1>13, TickUse DEF Pass
  <2>2. closing' = closing /\ conn' = conn
    BY <1>13 DEF Pass
  <2> QED BY <1>1, <1>4, <2>1, <2>2 DEF DisposingStays, GoneForGood
<1>14. CASE UNCHANGED vars
  BY <1>1, <1>4, <1>14 DEF vars, poolVars, AttachedStays, GoneForGood
<1> QED BY <1>9, <1>10, <1>11, <1>12, <1>13, <1>14

LEMMA SocketStep ==
  ASSUME TypeOK, LocalTypeOK', PoolFacts, CallersKnowTheirEntry, SocketInv,
         CompletedIsLatest, OneResponsePerLease, [Next]_vars
  PROVE  SocketInv'
<1>1. LocalTypeOK
  BY DEF TypeOK, LocalTypeOK
<1>2. ASSUME NEW c \in Caller, Start(c) \/ CallerStep(c) PROVE SocketInv'
  <2>1. CASE Reserve(c)
    BY <1>1, <2>1, ReserveSockets
  <2>2. CASE ~Reserve(c)
    <3>1. pc[c] = "completed" /\ lease[c] \in active /\ ~IsManual(request[c])
             => Commit(c) \in Baseline
      BY CommitIsBaseline DEF TypeOK, CallerTypeOK, CallersKnowTheirEntry
    <3> QED BY <1>1, <1>2, <2>2, <3>1, CallerSockets
  <2> QED BY <2>1, <2>2
<1> QED BY <1>1, <1>2, EnvironmentSockets DEF Next

-----------------------------------------------------------------------------
(* What a caller and a connection have said to each other, caller by       *)
(* caller and entry by entry.                                              *)
ReadsWhole(d) ==
  pc[d] = "receiving" /\ ~IsManual(request[d]) =>
    /\ sent[d] = request[d].input
    /\ frame[d].prev # None /\ conn[lease[d]] # None =>
         conn[lease[d]].config = request[d].config

Speaks(d) == PlansFrom(d) /\ FrameFits(d) /\ ReadsWhole(d) /\ IsLatest(d)

Agrees(e) == BaseMatches(e) /\ CountFits(e)

LEMMA ConversationParts ==
  ConversationInv <=> (\A d \in Caller : Speaks(d)) /\ (\A e \in active : Agrees(e))
<1>1. ServerReadsWholeInput <=> \A d \in Caller : ReadsWhole(d)
  BY DEF ServerReadsWholeInput, ReadsWhole
<1> QED BY <1>1 DEF ConversationInv, Speaks, Agrees, PlansFromItsEntry, FramesFit,
                    CompletedIsLatest, BaselinesMatch, OneResponsePerLease

(* The places where what a caller has said or heard is still to be used.   *)
Talking == {"comparing", "ready", "sending", "receiving", "completed"}

(* A caller that does not move is still right if its entry is left alone,  *)
(* closed, or taken from the pool.                                         *)
Undisturbed(d) ==
  /\ conn'[lease[d]] = conn[lease[d]] \/ conn'[lease[d]] = None
  /\ lease[d] \in active' => /\ lease[d] \in active
                             /\ entry'[lease[d]].base = entry[lease[d]].base
                             /\ conn'[lease[d]] = conn[lease[d]]

LEMMA SpeaksOn ==
  ASSUME NEW d \in Caller, SameCaller(d), Speaks(d), pc[d] \in Talking => Undisturbed(d)
  PROVE  Speaks(d)'
<1> USE DEF SameCaller, Speaks, Undisturbed
<1>1. CASE pc[d] \notin Talking
  BY <1>1 DEF Talking, PlansFrom, FrameFits, ReadsWhole, IsLatest
<1>2. CASE pc[d] \in Talking
  <2>1. PlansFrom(d)'
    BY <1>2 DEF PlansFrom
  <2>2. FrameFits(d)'
    BY <1>2 DEF FrameFits, Fits
  <2>3. ReadsWhole(d)'
    BY <1>2 DEF ReadsWhole
  <2>4. IsLatest(d)'
    BY <1>2 DEF IsLatest
  <2> QED BY <2>1, <2>2, <2>3, <2>4
<1> QED BY <1>1, <1>2

(* An entry that stays as it is still agrees with its connection.          *)
LEMMA AgreesOn ==
  ASSUME NEW e, Agrees(e), SameUse(e), conn'[e] = conn[e], Completing(e)' <=> Completing(e)
  PROVE  Agrees(e)'
  BY DEF Agrees, BaseMatches, CountFits, SameUse

(* What reserve means for conversations: a used connection is taken up     *)
(* again where it was left, a new entry has none.                          *)
LEMMA ReserveUse ==
  ASSUME LocalTypeOK, PoolFacts, CallersKnowTheirEntry, NEW c \in Caller, Reserve(c)
  PROVE  \E e \in Entry :
           /\ lease'[c] = e
           /\ \A f \in active' \ {e} : f \in active /\ SameUse(f)
           /\ \/ /\ e \in active /\ entry'[e].base = entry[e].base
                 /\ ~entry[e].busy /\ entry'[e].busy
                 /\ entry'[e].generation = entry[e].generation + 1
              \/ Unused(e) /\ entry'[e].base = None
<1> DEFINE r == request[c]
           m == IsManual(r)
<1>1. PoolTypeOK
  BY DEF PoolFacts
<1>2. r \in Request
  BY DEF Reserve, LocalTypeOK, CallerTypeOK, CallersKnowTheirEntry
<1>3. r.session \in Session \cup {None} /\ r.endpoint \in Endpoint /\ m \in BOOLEAN
  BY <1>2, RequestAssumption DEF RequestAssumption, IsManual
<1>4. PICK e \in Entry :
        /\ \/ Reuse(r.session, r.endpoint, m, e)
           \/ Unused(e) /\ \E v \in SUBSET Entry : Create(r.session, r.endpoint, m, e, v)
        /\ lease' = [lease EXCEPT ![c] = e]
  BY DEF Reserve
<1>5. lease'[c] = e
  BY <1>4 DEF LocalTypeOK, CallerTypeOK
<1>6. CASE Reuse(r.session, r.endpoint, m, e)
  <2>1. m = FALSE /\ r.session \in Session /\ e # None
    BY <1>3, <1>6, NoneAssumption DEF NoneAssumption, Reuse, Cached
  <2>2. Reuse(r.session, r.endpoint, FALSE, e)
    BY <1>6, <2>1
  <2> HIDE DEF r, m
  <2>3. e \in active
    <3>1. entries[r.session] = e
      BY <1>1, <1>3, <2>1, <2>2, ReuseFacts
    <3> QED BY <2>1, <3>1 DEF PoolFacts
  <2>4. /\ active' = active \ Stale(r.endpoint) /\ AttachedStays /\ DisposingStays
        /\ \A f \in active' \ {e} : SameUse(f)
        /\ entry'[e].base = entry[e].base /\ entry'[e].busy /\ ~entry[e].busy
        /\ entry'[e].generation = entry[e].generation + 1
    BY <1>1, <1>3, <2>1, <2>2, ReuseUse
  <2> QED BY <1>5, <2>3, <2>4
<1>7. ASSUME Unused(e), NEW v \in SUBSET Entry, Create(r.session, r.endpoint, m, e, v)
      PROVE  /\ \A f \in active' \ {e} : f \in active /\ SameUse(f)
             /\ entry'[e].base = None
  <2>1. Create(r.session, r.endpoint, m, e, v)
    BY <1>7
  <2> HIDE DEF r, m
  <2>2. active' = (active \ (Stale(r.endpoint) \cup v)) \cup {e} /\ entry'[e].base = None
    BY <1>1, <1>3, <2>1, CreateUse
  <2>3. \A f \in active' \ {e} : SameUse(f)
    BY <1>1, <1>3, <2>1, CreateUse
  <2> QED BY <2>2, <2>3
<1> QED BY <1>4, <1>5, <1>6, <1>7

(* What reserve, or any step, leaves alone: the conversations of others.   *)
LEMMA OthersSpeakOn ==
  ASSUME LocalTypeOK, PoolFacts, CallersKnowTheirEntry, GoneForGood,
         NEW c \in Caller, Start(c) \/ CallerStep(c),
         pc[c] = "completed" /\ lease[c] \in active /\ ~IsManual(request[c])
           => Commit(c) \in Baseline,
         NEW d \in Caller \ {c}, pc[d] \in Talking
  PROVE  Undisturbed(d)
<1>1. /\ Holds(d) /\ lease[d] \in Entry
      /\ Holds(c) => lease[c] # lease[d]
  BY DEF PoolFacts, Holds, Talking, Acquiring, Opened
<1>2. CASE Reserve(c)
  <2>1. PICK e \in Entry :
           /\ lease'[c] = e
           /\ \A f \in active' \ {e} : f \in active /\ SameUse(f)
           /\ \/ /\ e \in active /\ entry'[e].base = entry[e].base
                 /\ ~entry[e].busy /\ entry'[e].busy
                 /\ entry'[e].generation = entry[e].generation + 1
              \/ Unused(e) /\ entry'[e].base = None
    BY <1>2, ReserveUse
  <2>2. lease[d] # e
    BY <1>1, <2>1 DEF PoolFacts, Unused
  <2>3. conn' = conn
    BY <1>2 DEF Reserve
  <2> QED BY <2>1, <2>2, <2>3 DEF Undisturbed, SameUse
<1>3. CASE ~Reserve(c)
  <2>1. /\ active' \subseteq active
        /\ \A f \in active' : SameUse(f) \/ (f = lease[c] /\ (PlanCompare(c) \/ CloseCompleted(c)))
    BY <1>3, StepUse
  <2>2. PlanCompare(c) \/ CloseCompleted(c) => Holds(c)
    BY DEF PlanCompare, CloseCompleted, Holds, Acquiring, Opened
  <2>3. conn'[lease[d]] = conn[lease[d]] \/ (conn'[lease[d]] = None /\ lease[d] \notin active)
    <3>1. \/ conn' = conn
          \/ pc[c] = "connecting" /\ conn' = [conn EXCEPT ![lease[c]] = NewConnection]
          \/ /\ pc[c] = "attaching" /\ conn' = [conn EXCEPT ![lease[c]] = None]
             /\ ~entry[lease[c]].valid
          \/ pc[c] = "receiving" /\ conn[lease[c]] # None
             /\ \E k \in ConnectionRecord : conn' = [conn EXCEPT ![lease[c]] = k]
          \/ \E e \in Entry \ active : conn' = Closed({e}) /\ UNCHANGED poolVars
      BY SocketUse
    <3>2. pc[c] \in {"connecting", "attaching", "receiving"} => lease[c] # lease[d]
      BY <1>1 DEF Holds, Acquiring, Opened
    <3>3. ASSUME NEW e \in Entry \ active, conn' = Closed({e})
          PROVE  conn'[lease[d]] = conn[lease[d]] \/ (conn'[lease[d]] = None /\ lease[d] \notin active)
      BY <1>1, <3>3 DEF Closed
    <3> QED BY <1>1, <3>1, <3>2, <3>3 DEF LocalTypeOK
  <2> QED BY <1>1, <2>1, <2>2, <2>3 DEF Undisturbed, SameUse
<1> QED BY <1>2, <1>3

(* Planning: what is read of the baseline, and what is sent of the input.  *)
LEMMA PlanSpeech ==
  ASSUME LocalTypeOK, LocalTypeOK', PoolFacts, CallersKnowTheirEntry, ConversationInv,
         NEW c \in Caller, PlanGuard(c) \/ PlanBody(c) \/ PlanOutput(c) \/ PlanCompare(c)
  PROVE  Speaks(c)'
<1> USE DEF LocalTypeOK, CallerTypeOK, Goto
<1>1. Speaks(c) /\ \A e \in active : Agrees(e)
  BY ConversationParts
<1>2. /\ pc[c] \in Acquiring /\ lease[c] \in Entry /\ lease' = lease /\ request' = request
      /\ conn' = conn /\ sent' = sent /\ request[c] \in Request /\ PoolTypeOK
  <2>1. /\ pc[c] \in {"planning", "comparing"} /\ lease' = lease /\ request' = request
        /\ conn' = conn /\ sent' = sent
    BY DEF PlanGuard, PlanBody, PlanOutput, PlanCompare, history
  <2>2. pc[c] \in Acquiring /\ pc[c] # "idle"
    BY <2>1 DEF Acquiring
  <2>3. request[c] \in Request
    BY <2>2 DEF CallersKnowTheirEntry
  <2>4. lease[c] \in Entry /\ PoolTypeOK
    BY <2>2 DEF PoolFacts, Holds
  <2> QED BY <2>1, <2>2, <2>3, <2>4
<1>3. active' = active
  BY <1>2, DropUse DEF PlanGuard, PlanBody, PlanOutput, PlanCompare, poolVars
(* A full frame needs nothing of the connection.                           *)
<1>4. ASSUME Framed(c, FullFrame(request[c]))
      PROVE  Speaks(c)'
  <2>1. pc'[c] = "ready" /\ frame'[c] = FullFrame(request[c]) /\ saved'[c] = None
    BY <1>4 DEF Framed
  <2>2. FullFrame(request[c]) \in FrameRecord
    BY <1>2, FrameTypes
  <2>3. IsManual(request[c]) \/ Fits(c)'
    <3>1. frame'[c].prev = request[c].manual /\ frame'[c].input = request[c].input
      BY <2>1 DEF FullFrame
    <3>2. request'[c] = request[c]
      BY <1>2
    <3> QED BY <3>1, <3>2 DEF IsManual, Fits
  <2>4. FrameFits(c)'
    BY <1>2, <2>1, <2>2, <2>3 DEF FrameFits
  <2> QED BY <2>1, <2>4 DEF Speaks, PlansFrom, ReadsWhole, IsLatest
<1>5. CASE PlanGuard(c)
  <2>1. CASE Framed(c, FullFrame(request[c]))
    BY <1>4, <2>1
  <2>2. CASE ~IsManual(request[c]) /\ entry[lease[c]].base # None /\ Goto(c, "comparing")
             /\ UNCHANGED <<saved, frame>> /\ entry' = entry
    <3>1. saved[c] = None /\ pc'[c] = "comparing"
      BY <1>1, <1>5, <2>2 DEF PlanGuard, Speaks, PlansFrom
    <3> QED BY <1>2, <2>2, <3>1 DEF Speaks, PlansFrom, FrameFits, ReadsWhole, IsLatest
  <2> QED BY <1>5, <2>1, <2>2 DEF PlanGuard, poolVars
<1>6. CASE PlanBody(c)
  <2> DEFINE base == entry[lease[c]].base
  <2>1. CASE Goto(c, "releasing") /\ UNCHANGED saved
    <3>1. saved[c] = None /\ pc'[c] = "releasing"
      BY <1>6, <2>1 DEF PlanBody
    <3> QED BY <2>1, <3>1 DEF Speaks, PlansFrom, FrameFits, ReadsWhole, IsLatest
  <2>2. CASE /\ base # None /\ pc' = pc
             /\ saved' = [saved EXCEPT ![c] =
                            [config |-> base.config, input |-> base.input, whole |-> FALSE]]
    <3>1. pc[c] = "comparing" /\ entry' = entry
      BY <1>6 DEF PlanBody, poolVars
    <3>2. /\ saved'[c].config = base.config /\ saved'[c].input = base.input
          /\ saved'[c].whole = FALSE
      BY <2>2
    <3>3. PlansFrom(c)'
      BY <1>1, <1>2, <1>3, <2>2, <3>1, <3>2 DEF Speaks, PlansFrom
    <3> QED BY <2>2, <3>1, <3>3 DEF Speaks, FrameFits, ReadsWhole, IsLatest
  <2> QED BY <1>6, <2>1, <2>2 DEF PlanBody
<1>7. CASE PlanOutput(c)
  <2> DEFINE base == entry[lease[c]].base
             read == IF base = None THEN <<>> ELSE base.output
  <2>1. /\ pc[c] = "comparing" /\ pc' = pc /\ entry' = entry
        /\ saved[c] # None /\ ~saved[c].whole
        /\ saved' = [saved EXCEPT ![c] = [config |-> saved[c].config,
                                          input |-> saved[c].input \o read, whole |-> TRUE]]
    BY <1>7 DEF PlanOutput, poolVars
  <2>2. /\ saved'[c].config = saved[c].config /\ saved'[c].input = saved[c].input \o read
        /\ saved'[c].whole
    BY <2>1
  <2>3. lease[c] \in active =>
          /\ base # None /\ saved[c].config = base.config /\ saved[c].input = base.input
    BY <1>1, <2>1 DEF Speaks, PlansFrom
  <2>4. ~IsManual(request[c])
    BY <1>1, <2>1 DEF Speaks, PlansFrom
  <2>5. lease[c] \in active => saved'[c].input = base.input \o base.output
    BY <2>2, <2>3
  <2>6. PlansFrom(c)'
    BY <1>2, <1>3, <2>1, <2>2, <2>3, <2>4, <2>5 DEF PlansFrom
  <2> QED BY <2>1, <2>6 DEF Speaks, FrameFits, ReadsWhole, IsLatest
<1>8. CASE PlanCompare(c)
  <2> DEFINE base == entry[lease[c]].base
             rest == SubSeq(request[c].input, Len(saved[c].input) + 1, Len(request[c].input))
             f == [prev |-> IF base = None THEN None ELSE base.id, input |-> rest]
  <2>1. pc[c] = "comparing" /\ saved[c] # None /\ saved[c].whole /\ saved[c] \in SavedRecord
    BY <1>8 DEF PlanCompare
  <2>2. CASE ~Continues(request[c], saved[c])
    BY <1>4, <1>8, <2>2 DEF PlanCompare
  <2>3. CASE Continues(request[c], saved[c])
    <3>1. pc'[c] = "ready" /\ frame'[c] = f /\ saved'[c] = None
      <4>1. Framed(c, f)
        BY <1>8, <2>3 DEF PlanCompare
      <4> HIDE DEF f
      <4> QED BY <4>1 DEF Framed
    <3>2. f \in FrameRecord
      <4>1. TypeOK
        BY <1>2 DEF TypeOK
      <4>2. base \in Baseline \cup {None}
        BY <1>2, BaseType
      <4> QED BY <1>2, <2>1, <2>3, <4>1, <4>2, SuffixType
    <3>3. request[c].input \in Seq(Item) /\ saved[c].input \in Seq(Item)
      BY <1>2, <2>1, RequestAssumption DEF RequestAssumption, SavedRecord
    <3>4. saved[c].input \o rest = request[c].input
      <4>1. IsPrefix(saved[c].input, request[c].input)
        BY <2>3 DEF Continues
      <4> QED BY <3>3, <4>1, PrefixAndRest
    <3>5. ASSUME lease[c] \in active PROVE Fits(c)'
      <4>1. /\ base # None /\ base \in Baseline
            /\ saved[c].config = base.config /\ saved[c].input = base.input \o base.output
        BY <1>1, <1>2, <2>1, <3>5, BaseType DEF Speaks, PlansFrom
      <4>2. ~Completing(lease[c])
        BY <2>1, <3>5 DEF Completing, PoolFacts, Holds, Acquiring, Opened
      <4>3. /\ conn[lease[c]] # None /\ conn[lease[c]].id = base.id
            /\ conn[lease[c]].config = base.config
            /\ conn[lease[c]].context = base.input \o base.output
        BY <1>1, <3>5, <4>1, <4>2 DEF Agrees, BaseMatches
      <4>4. f.prev = base.id /\ f.input = rest
        BY <4>1
      <4>5. base.id # None
        BY <4>1, BaselineAssumption DEF BaselineAssumption
      <4>6. conn[lease[c]].config = request[c].config
            /\ conn[lease[c]].context \o rest = request[c].input
        BY <2>3, <3>4, <4>1, <4>3 DEF Continues
      <4> HIDE DEF base, rest, f
      <4> QED BY <1>2, <3>1, <4>3, <4>4, <4>5, <4>6 DEF Fits
    <3> HIDE DEF base, rest, f
    <3>6. FrameFits(c)'
      BY <1>2, <1>3, <3>1, <3>2, <3>5 DEF FrameFits
    <3> QED BY <3>1, <3>6 DEF Speaks, PlansFrom, ReadsWhole, IsLatest
  <2> QED BY <2>2, <2>3
<1> QED BY <1>5, <1>6, <1>7, <1>8

(* Sending and receiving: what the server reads, and what it completes.    *)
LEMMA WireSpeech ==
  ASSUME LocalTypeOK, LocalTypeOK', PoolFacts, CallersKnowTheirEntry, ConversationInv,
         NEW c \in Caller,
         CheckValid(c) \/ Send(c) \/ ReceiveOutput(c) \/ ReceiveCompleted(c)
  PROVE  Speaks(c)'
<1> USE DEF LocalTypeOK, CallerTypeOK, Goto, Fail, history
<1>1. Speaks(c) /\ \A e \in active : Agrees(e)
  BY ConversationParts
<1>2. /\ pc[c] \in Opened /\ lease[c] \in Entry /\ lease' = lease /\ request' = request
      /\ frame' = frame /\ saved' = saved /\ entry' = entry /\ active' = active
      /\ request[c] \in Request
  BY DEF CheckValid, Send, ReceiveOutput, ReceiveCompleted, Receiving, Opened, PoolFacts, Holds,
         poolVars, CallersKnowTheirEntry
<1>3. saved[c] = None
  BY <1>1, <1>2 DEF Speaks, PlansFrom, Opened
<1>4. CASE pc'[c] = "closing"
  BY <1>2, <1>3, <1>4 DEF Speaks, PlansFrom, FrameFits, ReadsWhole, IsLatest
<1>5. CASE CheckValid(c)
  <2>1. CASE pc'[c] = "sending" /\ lease[c] \in active
    <3>1. conn' = conn /\ pc[c] = "ready"
      BY <1>5 DEF CheckValid
    <3>2. frame[c] \in FrameRecord /\ (IsManual(request[c]) \/ Fits(c))
      BY <1>1, <2>1, <3>1 DEF Speaks, FrameFits
    <3>3. IsManual(request[c]) \/ Fits(c)'
      BY <1>2, <3>1, <3>2 DEF Fits
    <3> QED BY <1>2, <1>3, <2>1, <3>1, <3>2, <3>3
            DEF Speaks, PlansFrom, FrameFits, ReadsWhole, IsLatest
  <2> QED BY <1>2, <1>4, <1>5, <2>1 DEF CheckValid, PoolFacts
<1>6. CASE Send(c)
  <2>1. CASE /\ conn[lease[c]] # None /\ pc'[c] = "receiving" /\ conn' = conn
             /\ sent'[c] = Reading(frame[c], conn[lease[c]])
    <3>1. frame[c] \in FrameRecord /\ (IsManual(request[c]) \/ Fits(c))
      BY <1>1, <1>6 DEF Send, Speaks, FrameFits
    <3>2. ReadsWhole(c)'
      BY <1>2, <2>1, <3>1 DEF ReadsWhole, Fits, Reading
    <3> QED BY <1>2, <1>3, <2>1, <3>2 DEF Speaks, PlansFrom, FrameFits, IsLatest
  <2> QED BY <1>4, <1>6, <2>1 DEF Send
<1>7. CASE ReceiveOutput(c)
  <2>1. pc' = pc /\ conn' = conn /\ sent' = sent /\ pc[c] = "receiving"
    BY <1>7 DEF ReceiveOutput, Receiving
  <2> QED BY <1>1, <1>2, <1>3, <2>1 DEF Speaks, PlansFrom, FrameFits, ReadsWhole, IsLatest
<1>8. CASE ReceiveCompleted(c)
  <2>1. CASE pc'[c] = "completed"
    <3> DEFINE k == conn[lease[c]]
    <3>1. /\ sent' = sent /\ sent[c] # None /\ pc[c] = "receiving" /\ k # None
      BY <1>8 DEF ReceiveCompleted, Receiving
    <3>2. k \in ConnectionRecord /\ k.count \in Nat /\ sent[c] \in Seq(Item)
      BY <1>2, <3>1 DEF ConnectionRecord
    <3>3. PICK o \in Output :
            conn' = [conn EXCEPT ![lease[c]] =
                       [id |-> <<lease[c], k.count + 1>>, config |-> request[c].config,
                        context |-> sent[c] \o o, count |-> k.count + 1]]
      BY <1>8 DEF ReceiveCompleted
    <3> DEFINE new == [id |-> <<lease[c], k.count + 1>>, config |-> request[c].config,
                       context |-> sent[c] \o o, count |-> k.count + 1]
    <3>4. conn'[lease[c]] = new
      BY <1>2, <3>3
    <3>5. new \in ConnectionRecord
      BY <1>2, <3>2, CompletionType
    <3>6. new # None
      BY <3>5, ConnectionAssumption DEF ConnectionAssumption
    <3>7. /\ new.id = <<lease[c], new.count>> /\ new.count > 0
          /\ new.config = request[c].config /\ new.context = sent[c] \o o
      BY <3>2
    <3>8. ~IsManual(request[c]) => sent[c] = request[c].input
      BY <1>1, <3>1 DEF Speaks, ReadsWhole
    <3> HIDE DEF new, k
    <3>9. IsLatest(c)'
      BY <1>2, <3>1, <3>4, <3>6, <3>7, <3>8 DEF IsLatest
    <3> QED BY <1>2, <1>3, <2>1, <3>9 DEF Speaks, PlansFrom, FrameFits, ReadsWhole
  <2> QED BY <1>4, <1>8, <2>1 DEF ReceiveCompleted
<1> QED BY <1>5, <1>6, <1>7, <1>8

LEMMA OwnSpeech ==
  ASSUME LocalTypeOK, LocalTypeOK', PoolFacts, CallersKnowTheirEntry, ConversationInv,
         NEW c \in Caller, Start(c) \/ CallerStep(c)
  PROVE  Speaks(c)'
<1> USE DEF LocalTypeOK, CallerTypeOK, Goto, history
<1>1. Speaks(c)
  BY ConversationParts
<1>2. ASSUME pc'[c] \notin Talking, saved' = saved, pc[c] # "comparing" PROVE Speaks(c)'
  BY <1>1, <1>2 DEF Talking, Speaks, PlansFrom, FrameFits, ReadsWhole, IsLatest
<1>3. CASE Start(c) \/ Reserve(c) \/ ReserveRefused(c)
  <2>1. pc'[c] \notin Talking /\ saved' = saved /\ pc[c] # "comparing"
    BY <1>3 DEF Talking, Start, Reserve, ReserveRefused
  <2> QED BY <1>2, <2>1
<1>6. CASE DisposeGarbage(c) \/ GarbageDisposed(c) \/ Connect(c) \/ AttachSocket(c)
  <2>1. pc'[c] \notin Talking /\ saved' = saved /\ pc[c] # "comparing"
    BY <1>6 DEF Talking, DisposeGarbage, GarbageDisposed, Connect, AttachSocket
  <2> QED BY <1>2, <2>1
<1>7. CASE ReleaseFailed(c) \/ CleanUp(c) \/ Abandon(c)
  <2>1. pc'[c] \notin Talking /\ saved' = saved /\ pc[c] # "comparing"
    BY <1>7 DEF Talking, ReleaseFailed, CleanUp, Abandon
  <2> QED BY <1>2, <2>1
<1>4. CASE ReceiveOtherwise(c) \/ ReceiveMissing(c) \/ RecoverRelease(c) \/ RecoverClose(c)
           \/ CloseFailed(c) \/ CloseDropped(c) \/ ScheduleExpiry(c) \/ Leave(c)
  <2>1. pc'[c] \notin Talking /\ saved' = saved /\ pc[c] # "comparing"
    BY <1>4 DEF Talking, ReceiveOtherwise, ReceiveMissing, Receiving, RecoverRelease,
       RecoverClose, CloseFailed, CloseDropped, ScheduleExpiry, Leave, End
  <2> QED BY <1>2, <2>1
<1>5. CASE CloseCompleted(c)
  <2>1. pc'[c] \notin Talking /\ saved' = saved /\ pc[c] # "comparing"
    BY <1>5 DEF Talking, CloseCompleted
  <2> QED BY <1>2, <2>1
<1> QED BY <1>3, <1>4, <1>5, <1>6, <1>7, PlanSpeech, WireSpeech DEF CallerStep

-----------------------------------------------------------------------------
(* Whether a response has completed on an entry and is not kept yet changes *)
(* only where a caller completes one, or closes its stream with it.        *)
LEMMA CompletingOn ==
  ASSUME LocalTypeOK, NEW c \in Caller, Start(c) \/ CallerStep(c), NEW e,
         ~(pc[c] = "completed" /\ lease[c] = e), ~(pc'[c] = "completed" /\ lease'[c] = e)
  PROVE  Completing(e)' <=> Completing(e)
<1>1. \A d \in Caller \ {c} : pc'[d] = pc[d] /\ lease'[d] = lease[d]
  BY OthersStay DEF SameCaller
<1> QED BY <1>1 DEF Completing

(* Where a response completes.                                             *)
LEMMA CompletesBy ==
  ASSUME LocalTypeOK, NEW c \in Caller, Start(c) \/ CallerStep(c), pc'[c] = "completed"
  PROVE  ReceiveCompleted(c)
<1> USE DEF LocalTypeOK, CallerTypeOK, Goto
<1>1. CASE Start(c) \/ Reserve(c) \/ ReserveRefused(c) \/ DisposeGarbage(c) \/ GarbageDisposed(c)
  BY <1>1 DEF Start, Reserve, ReserveRefused, DisposeGarbage, GarbageDisposed
<1>2. CASE Connect(c) \/ AttachSocket(c) \/ PlanBody(c) \/ PlanOutput(c)
  BY <1>2 DEF Connect, AttachSocket, PlanBody, PlanOutput
<1>3. CASE PlanGuard(c) \/ PlanCompare(c)
  BY <1>3 DEF PlanGuard, PlanCompare, Framed
<1>4. CASE ReleaseFailed(c) \/ CleanUp(c) \/ CheckValid(c) \/ Abandon(c) \/ Send(c)
  BY <1>4 DEF ReleaseFailed, CleanUp, CheckValid, Abandon, Send
<1>5. CASE ReceiveOutput(c) \/ ReceiveOtherwise(c) \/ ReceiveMissing(c)
  BY <1>5 DEF ReceiveOutput, ReceiveOtherwise, ReceiveMissing, Receiving
<1>6. CASE RecoverRelease(c) \/ RecoverClose(c) \/ CloseCompleted(c) \/ CloseFailed(c)
  BY <1>6 DEF RecoverRelease, RecoverClose, CloseCompleted, CloseFailed
<1>7. CASE CloseDropped(c) \/ ScheduleExpiry(c) \/ Leave(c)
  BY <1>7 DEF CloseDropped, ScheduleExpiry, Leave, End
<1> QED BY <1>1, <1>2, <1>3, <1>4, <1>5, <1>6, <1>7 DEF CallerStep

(* Nobody else completes on the entry a caller holds.                      *)
LEMMA OwnEntry ==
  ASSUME PoolFacts, NEW c \in Caller, Holds(c), pc[c] # "completed"
  PROVE  ~Completing(lease[c])
  BY DEF PoolFacts, Completing, Holds, Opened

(* Leasing: a used entry agreed while it was idle, a new one has nothing   *)
(* to agree with.                                                          *)
LEMMA ReserveAgrees ==
  ASSUME LocalTypeOK, LocalTypeOK', PoolFacts, CallersKnowTheirEntry, ConversationInv,
         NEW c \in Caller, Reserve(c), NEW e \in active'
  PROVE  Agrees(e)'
<1>1. \A f \in active : Agrees(f)
  BY ConversationParts
<1>2. conn' = conn /\ pc[c] = "reserving" /\ pc'[c] = "disposing"
  BY DEF Reserve, Goto, LocalTypeOK, CallerTypeOK
<1>3. \A f : Completing(f)' <=> Completing(f)
  BY <1>2, CompletingOn DEF CallerStep
<1>4. PICK f \in Entry :
        /\ lease'[c] = f
        /\ \A g \in active' \ {f} : g \in active /\ SameUse(g)
        /\ \/ /\ f \in active /\ entry'[f].base = entry[f].base
              /\ ~entry[f].busy /\ entry'[f].busy
              /\ entry'[f].generation = entry[f].generation + 1
           \/ Unused(f) /\ entry'[f].base = None
  BY ReserveUse
<1>5. CASE e # f
  BY <1>1, <1>2, <1>3, <1>4, <1>5, AgreesOn
<1>6. CASE e = f /\ Unused(f) /\ entry'[f].base = None
  BY <1>2, <1>6 DEF Agrees, BaseMatches, CountFits, Unused
<1>7. CASE /\ e = f /\ f \in active /\ entry'[f].base = entry[f].base
           /\ ~entry[f].busy /\ entry'[f].busy
           /\ entry'[f].generation = entry[f].generation + 1
  <2>1. Agrees(f)
    BY <1>1, <1>7
  <2>2. ~Completing(f)
    BY <1>7 DEF PoolFacts, Completing, Holds, Opened
  <2>3. ~Completing(f)'
    BY <1>3, <2>2
  <2>4. BaseMatches(f)'
    BY <1>2, <1>7, <2>1, <2>2 DEF Agrees, BaseMatches
  <2>5. conn[f] # None => conn[f].count <= entry[f].generation + 1
    BY <1>7, <2>1 DEF Agrees, CountFits
  <2>6. CountFits(f)'
    <3>1. conn'[f] # None => conn'[f].count <= entry'[f].generation
      BY <1>2, <1>7, <2>5
    <3>2. entry'[f].generation \in Nat
      <4>1. entry[f].generation \in Nat
        BY <1>4 DEF PoolFacts, PoolTypeOK, EntryRecord
      <4> QED BY <1>7, <4>1
    <3> QED BY <1>7, <2>3, <3>1, <3>2 DEF CountFits
  <2> QED BY <1>7, <2>4, <2>6 DEF Agrees
<1> QED BY <1>4, <1>5, <1>6, <1>7

(* The socket a caller connects is the first of its entry.                 *)
LEMMA ConnectAgrees ==
  ASSUME LocalTypeOK, LocalTypeOK', PoolFacts, SocketsAreAttached, ConversationInv,
         NEW c \in Caller, Connect(c), lease[c] \in active
  PROVE  Agrees(lease[c])'
<1> DEFINE e == lease[c]
<1>1. Agrees(e)
  BY ConversationParts
<1>2. /\ pc[c] = "connecting" /\ pc'[c] # "completed" /\ lease' = lease /\ entry' = entry
      /\ e \in Entry
      /\ conn' = conn \/ conn' = [conn EXCEPT ![e] = NewConnection]
  BY DEF Connect, Goto, LocalTypeOK, CallerTypeOK, poolVars, PoolFacts, PoolTypeOK
<1>3. Holds(c) /\ ~Completing(e)
  BY <1>2, OwnEntry DEF Holds, Acquiring
<1>4. ~Completing(e)'
  BY <1>2, <1>3, CompletingOn DEF CallerStep
<1>5. CASE conn' = conn
  BY <1>1, <1>2, <1>3, <1>4, <1>5, AgreesOn DEF SameUse
<1>6. CASE conn' = [conn EXCEPT ![e] = NewConnection]
  <2>1. ~entry[e].attached /\ ~ \E d \in Caller : pc[d] = "attaching" /\ lease[d] = e
    BY <1>2, <1>3 DEF SocketsAreAttached, PoolFacts, Holds, Acquiring
  <2>2. conn[e] = None
    BY <1>2, <2>1 DEF SocketsAreAttached
  <2>3. entry'[e].base = None
    BY <1>1, <1>2, <1>3, <2>2 DEF Agrees, BaseMatches
  <2>4. conn'[e] = NewConnection /\ NewConnection.count = 0
    BY <1>2, <1>6 DEF LocalTypeOK, NewConnection
  <2>5. entry'[e].generation \in Nat
    BY <1>2 DEF PoolFacts, PoolTypeOK, EntryRecord
  <2>6. CountFits(e)'
    BY <1>2, <2>4, <2>5 DEF CountFits
  <2> QED BY <1>2, <2>3, <2>6 DEF Agrees, BaseMatches
<1> QED BY <1>2, <1>5, <1>6

(* A response completes in a lease of its own.                             *)
LEMMA ReceiveAgrees ==
  ASSUME LocalTypeOK, LocalTypeOK', PoolFacts, ConversationInv,
         NEW c \in Caller, ReceiveCompleted(c), lease[c] \in active
  PROVE  Agrees(lease[c])'
<1> DEFINE e == lease[c]
           n == conn[e].count + 1
<1>1. Agrees(e)
  BY ConversationParts
<1>2. pc[c] = "receiving" /\ e \in Entry /\ lease' = lease /\ entry' = entry /\ conn[e] # None
  BY DEF ReceiveCompleted, Receiving, poolVars, PoolFacts, PoolTypeOK
<1>3. entry[e].valid
  BY <1>2 DEF PoolFacts
<1>4. pc'[c] = "completed"
  BY <1>2, <1>3 DEF ReceiveCompleted, Goto, LocalTypeOK, CallerTypeOK
<1>5. Completing(e)'
  BY <1>2, <1>4 DEF Completing
<1>6. Holds(c) /\ ~Completing(e)
  BY <1>2, OwnEntry DEF Holds, Opened
<1>7. entry[e].busy
  BY <1>6 DEF PoolFacts
<1>8. PICK o \in Output :
        conn' = [conn EXCEPT ![e] = [id |-> <<e, n>>, config |-> request[c].config,
                                     context |-> sent[c] \o o, count |-> n]]
  BY DEF ReceiveCompleted
<1>9. conn'[e].count = conn[e].count + 1
  BY <1>2, <1>8 DEF LocalTypeOK
<1>10. conn[e].count <= entry[e].generation
  BY <1>1, <1>2, <1>6, <1>7 DEF Agrees, CountFits, PoolFacts, PoolTypeOK, EntryRecord
<1>11. conn[e].count \in Nat /\ entry[e].generation \in Nat
  BY <1>2 DEF LocalTypeOK, ConnectionRecord, PoolFacts, PoolTypeOK, EntryRecord
<1> HIDE DEF n
<1>12. CountFits(e)'
  <2>1. entry'[e].generation = entry[e].generation /\ lease'[c] = lease[c]
    BY <1>2
  <2>2. conn'[e].count <= entry'[e].generation + 1
    BY <1>9, <1>10, <1>11, <2>1
  <2> QED BY <1>5, <2>1, <2>2 DEF CountFits
<1>13. BaseMatches(e)'
  BY <1>5 DEF BaseMatches
<1> QED BY <1>12, <1>13 DEF Agrees

(* What close leaves with an entry it keeps is what its connection holds.  *)
LEMMA CloseAgrees ==
  ASSUME TypeOK, LocalTypeOK', PoolFacts, CallersKnowTheirEntry, ConversationInv,
         NEW c \in Caller, CloseCompleted(c), lease[c] \in active'
  PROVE  Agrees(lease[c])'
<1> DEFINE e == lease[c]
           m == IsManual(request[c])
<1> USE DEF TypeOK, CallerTypeOK
<1>1. /\ pc[c] = "completed" /\ lease' = lease /\ conn' = conn /\ e \in Entry
      /\ request[c] \in Request /\ PoolTypeOK
  BY DEF CloseCompleted, PoolFacts, Holds, Opened, CallersKnowTheirEntry
<1>2. CASE ReleaseDrop(e, TRUE, m)
  <2>1. active' = active \ {e}
    BY <1>2 DEF ReleaseDrop, RemoveEntries
  <2> QED BY <2>1
<1>3. CASE ReleaseKeep(e, m, Commit(c)) /\ Goto(c, "scheduling")
  <2>1. ~m /\ m \in BOOLEAN /\ active' = active
    BY <1>3 DEF ReleaseKeep, Keeps, IsManual
  <2>2. Agrees(e) /\ CompletedIsLatest /\ OneResponsePerLease
    BY <2>1, ConversationParts DEF ConversationInv
  <2>3. /\ Commit(c) \in Baseline /\ Commit(c).id = conn[e].id
        /\ Commit(c).config = conn[e].config
        /\ conn[e].context = Commit(c).input \o Commit(c).output
    BY <1>1, <2>1, <2>2, CommitIsBaseline
  <2> HIDE DEF m
  <2>4. /\ entry'[e].base = Commit(c) /\ ~entry'[e].busy
        /\ entry'[e].generation = entry[e].generation
    BY <1>1, <1>3, <2>1, <2>3, KeepUse
  <2>5. conn[e] # None
    BY <1>1, <2>1, <2>2 DEF CompletedIsLatest, IsLatest
  <2>6. BaseMatches(e)'
    BY <1>1, <2>3, <2>4, <2>5 DEF BaseMatches
  <2>7. conn[e].count <= entry[e].generation + 1
    <3>1. entry[e].generation \in Nat
      BY <1>1 DEF PoolTypeOK, EntryRecord
    <3>2. Completing(e)
      BY <1>1 DEF Completing
    <3> QED BY <2>2, <2>5, <3>1, <3>2 DEF Agrees, CountFits
  <2>8. CountFits(e)'
    BY <1>1, <2>4, <2>7 DEF CountFits
  <2> QED BY <2>6, <2>8 DEF Agrees
<1> QED BY <1>2, <1>3 DEF CloseCompleted

(* Where a caller is once its request is sent.                             *)
LEMMA ReceivesBy ==
  ASSUME NEW c \in Caller, Start(c) \/ CallerStep(c), pc[c] = "receiving"
  PROVE  \/ ReceiveOutput(c) \/ ReceiveCompleted(c) \/ ReceiveOtherwise(c) \/ ReceiveMissing(c)
<1>1. CASE Start(c) \/ Reserve(c) \/ ReserveRefused(c) \/ DisposeGarbage(c) \/ GarbageDisposed(c)
  BY <1>1 DEF Start, Reserve, ReserveRefused, DisposeGarbage, GarbageDisposed
<1>2. CASE Connect(c) \/ AttachSocket(c) \/ PlanBody(c) \/ PlanOutput(c)
  BY <1>2 DEF Connect, AttachSocket, PlanBody, PlanOutput
<1>3. CASE PlanGuard(c) \/ PlanCompare(c)
  BY <1>3 DEF PlanGuard, PlanCompare
<1>4. CASE ReleaseFailed(c) \/ CleanUp(c) \/ CheckValid(c) \/ Abandon(c) \/ Send(c)
  BY <1>4 DEF ReleaseFailed, CleanUp, CheckValid, Abandon, Send
<1>6. CASE RecoverRelease(c) \/ RecoverClose(c) \/ CloseCompleted(c) \/ CloseFailed(c)
  BY <1>6 DEF RecoverRelease, RecoverClose, CloseCompleted, CloseFailed
<1>7. CASE CloseDropped(c) \/ ScheduleExpiry(c) \/ Leave(c)
  BY <1>7 DEF CloseDropped, ScheduleExpiry, Leave
<1> QED BY <1>1, <1>2, <1>3, <1>4, <1>6, <1>7 DEF CallerStep

(* Any other step of a caller leaves the connections of the pool's entries *)
(* alone, or closes one the pool no longer offers.                         *)
LEMMA ConnStays ==
  ASSUME LocalTypeOK, PoolFacts, CallersKnowTheirEntry, GoneForGood,
         NEW c \in Caller, Start(c) \/ CallerStep(c), NEW e \in active,
         e = lease[c] => ~Connect(c) /\ ~ReceiveCompleted(c)
  PROVE  conn'[e] = conn[e]
<1>1. CASE pc[c] = "receiving" /\ ~ReceiveCompleted(c)
  <2>1. conn' = conn
    <3>1. CASE ReceiveOutput(c) \/ ReceiveOtherwise(c) \/ ReceiveMissing(c)
      BY <3>1 DEF ReceiveOutput, ReceiveOtherwise, ReceiveMissing
    <3> QED BY <1>1, <3>1, ReceivesBy
  <2> QED BY <2>1
<1>2. CASE ~(pc[c] = "receiving" /\ ~ReceiveCompleted(c))
  <2>1. e \in Entry
    BY DEF PoolFacts, PoolTypeOK
  <2>2. \/ conn' = conn
        \/ pc[c] = "connecting" /\ conn' = [conn EXCEPT ![lease[c]] = NewConnection]
        \/ /\ pc[c] = "attaching" /\ conn' = [conn EXCEPT ![lease[c]] = None]
           /\ ~entry[lease[c]].valid
        \/ pc[c] = "receiving" /\ conn[lease[c]] # None
           /\ \E k \in ConnectionRecord : conn' = [conn EXCEPT ![lease[c]] = k]
        \/ \E f \in Entry \ active : conn' = Closed({f}) /\ UNCHANGED poolVars
    BY SocketUse
  <2>3. pc[c] = "connecting" => Connect(c)
    BY StepFrom
  <2>4. ASSUME e = lease[c] PROVE entry[lease[c]].valid
    BY <2>1, <2>4 DEF PoolFacts
  <2>5. ASSUME NEW f \in Entry \ active, conn' = Closed({f}) PROVE conn'[e] = conn[e]
    BY <2>1, <2>5 DEF Closed
  <2> QED BY <1>2, <2>1, <2>2, <2>3, <2>4, <2>5 DEF LocalTypeOK
<1> QED BY <1>1, <1>2

LEMMA CallerAgrees ==
  ASSUME TypeOK, LocalTypeOK', PoolFacts, CallersKnowTheirEntry, GoneForGood,
         SocketsAreAttached, ConversationInv,
         NEW c \in Caller, Start(c) \/ CallerStep(c), ~Reserve(c), NEW e \in active'
  PROVE  Agrees(e)'
<1>1. LocalTypeOK
  BY DEF TypeOK, LocalTypeOK
<1>2. pc[c] = "completed" /\ lease[c] \in active /\ ~IsManual(request[c])
        => Commit(c) \in Baseline
  BY CommitIsBaseline DEF ConversationInv, TypeOK, CallerTypeOK, CallersKnowTheirEntry
<1>3. /\ active' \subseteq active
      /\ SameUse(e) \/ (e = lease[c] /\ (PlanCompare(c) \/ CloseCompleted(c)))
  BY <1>1, <1>2, StepUse
<1>4. e \in active /\ Agrees(e)
  BY <1>3, ConversationParts
<1>5. CASE e = lease[c] /\ Connect(c)
  <2>1. lease'[c] = lease[c]
    BY <1>5 DEF Connect
  <2> QED BY <1>1, <1>4, <1>5, <2>1, ConnectAgrees
<1>6. CASE e = lease[c] /\ ReceiveCompleted(c)
  <2>1. lease'[c] = lease[c]
    BY <1>6 DEF ReceiveCompleted
  <2> QED BY <1>1, <1>4, <1>6, <2>1, ReceiveAgrees
<1>7. CASE e = lease[c] /\ CloseCompleted(c)
  <2>1. lease'[c] = lease[c]
    BY <1>7 DEF CloseCompleted
  <2> QED BY <1>7, <2>1, CloseAgrees
<1>8. CASE e = lease[c] => ~Connect(c) /\ ~ReceiveCompleted(c) /\ ~CloseCompleted(c)
  <2>1. conn'[e] = conn[e]
    BY <1>1, <1>4, <1>8, ConnStays
  <2>2. Completing(e)' <=> Completing(e)
    <3>1. ~(pc[c] = "completed" /\ lease[c] = e)
      BY <1>8, StepFrom
    <3>2. ~(pc'[c] = "completed" /\ lease'[c] = e)
      <4> SUFFICES ASSUME pc'[c] = "completed", lease'[c] = e PROVE FALSE
        OBVIOUS
      <4>1. ReceiveCompleted(c)
        BY <1>1, CompletesBy
      <4>2. lease'[c] = lease[c]
        BY <4>1 DEF ReceiveCompleted
      <4> QED BY <1>8, <4>1, <4>2
    <3> QED BY <1>1, <3>1, <3>2, CompletingOn
  <2>3. CASE SameUse(e)
    BY <1>4, <2>1, <2>2, <2>3, AgreesOn
  <2>4. CASE e = lease[c] /\ PlanCompare(c) /\ DropBaseline(lease[c])
    <3>1. PoolTypeOK /\ lease[c] \in Entry
      BY <1>4, <2>4 DEF PoolFacts, PoolTypeOK
    <3>2. /\ entry'[e].base = None /\ entry'[e].busy = entry[e].busy
          /\ entry'[e].generation = entry[e].generation
      BY <2>4, <3>1, DropUse
    <3> QED BY <1>4, <2>1, <2>2, <3>2 DEF Agrees, BaseMatches, CountFits
  <2>5. PlanCompare(c) => DropBaseline(lease[c]) \/ SameUse(e)
    BY DEF PlanCompare, SameUse, poolVars
  <2> QED BY <1>3, <1>8, <2>3, <2>4, <2>5
<1> QED BY <1>5, <1>6, <1>7, <1>8

(* The timers and the threads that close the client take entries from the  *)
(* pool, and close only what the pool no longer offers.                    *)
LEMMA EnvironmentUse ==
  ASSUME LocalTypeOK, PoolFacts, GoneForGood,
         \/ \E t \in Timer : TimerStep(t)
         \/ CloseSession \/ Close \/ CloseNext \/ Pass \/ UNCHANGED vars
  PROVE  /\ \A e \in active' : e \in active /\ SameUse(e) /\ conn'[e] = conn[e]
         /\ \A e \in Entry : conn'[e] = conn[e] \/ conn'[e] = None
<1>1. PoolTypeOK /\ active \subseteq Entry /\ closing \subseteq Entry
  BY DEF PoolFacts, PoolTypeOK, LocalTypeOK
<1>2. ASSUME NEW gone, RemoveEntries(gone), conn' = conn
      PROVE  /\ \A e \in active' : e \in active /\ SameUse(e) /\ conn'[e] = conn[e]
             /\ \A e \in Entry : conn'[e] = conn[e] \/ conn'[e] = None
  <2>1. active' = active \ gone /\ \A f \in active' : SameUse(f)
    BY <1>1, <1>2, RemoveUse
  <2> QED BY <1>2, <2>1
<1>3. ASSUME NEW x, x \notin active, conn' = Closed({x}), entry' = entry, active' = active
      PROVE  /\ \A e \in active' : e \in active /\ SameUse(e) /\ conn'[e] = conn[e]
             /\ \A e \in Entry : conn'[e] = conn[e] \/ conn'[e] = None
  BY <1>1, <1>3 DEF Closed, SameUse
<1>4. ASSUME NEW t \in Timer, TimerStep(t)
      PROVE  /\ \A e \in active' : e \in active /\ SameUse(e) /\ conn'[e] = conn[e]
             /\ \A e \in Entry : conn'[e] = conn[e] \/ conn'[e] = None
  <2>1. CASE (Fire(t) \/ Expire(t)) /\ UNCHANGED conn
    <3>1. active' \subseteq active /\ \A f \in active' : SameUse(f)
      BY <1>1, <2>1, TimerUse
    <3> QED BY <2>1, <3>1
  <2>2. CASE Dispose(t) /\ conn' = Closed({timers[t].entry})
    <3>1. entry' = entry /\ active' = active /\ timers[t].entry \notin active
      BY <2>2 DEF Dispose, GoneForGood
    <3> QED BY <1>3, <2>2, <3>1
  <2> QED BY <1>4, <2>1, <2>2 DEF TimerStep
<1>5. CASE CloseSession \/ Close
  BY <1>2, <1>5 DEF CloseSession, Close, ClearSession, ClearAll
<1>6. CASE CloseNext
  <2>1. PICK e \in closing : conn' = Closed({e})
    BY <1>6 DEF CloseNext
  <2>2. entry' = entry /\ active' = active /\ e \notin active
    BY <1>6 DEF CloseNext, poolVars, GoneForGood
  <2> QED BY <1>3, <2>1, <2>2
<1>7. CASE Pass
  <2>1. active' = active /\ \A f \in active' : SameUse(f)
    BY <1>1, <1>7, TickUse DEF Pass
  <2> QED BY <1>7, <2>1 DEF Pass
<1>8. CASE UNCHANGED vars
  BY <1>8 DEF vars, poolVars, SameUse
<1> QED BY <1>4, <1>5, <1>6, <1>7, <1>8

(* The conversations stay right, whoever takes the step.                   *)
LEMMA ConversationStep ==
  ASSUME TypeOK, LocalTypeOK', PoolFacts, CallersKnowTheirEntry, SocketInv, ConversationInv,
         [Next]_vars
  PROVE  ConversationInv'
<1>1. LocalTypeOK
  BY DEF TypeOK, LocalTypeOK
<1>2. /\ GoneForGood /\ SocketsAreAttached
      /\ \A d \in Caller : Speaks(d)
      /\ \A e \in active : Agrees(e)
  BY ConversationParts DEF SocketInv
<1>3. ASSUME NEW c \in Caller, Start(c) \/ CallerStep(c)
      PROVE  (\A d \in Caller : Speaks(d)') /\ (\A e \in active' : Agrees(e)')
  <2>1. pc[c] = "completed" /\ lease[c] \in active /\ ~IsManual(request[c])
          => Commit(c) \in Baseline
    BY CommitIsBaseline DEF ConversationInv, TypeOK, CallerTypeOK, CallersKnowTheirEntry
  <2>2. Speaks(c)'
    BY <1>1, <1>3, OwnSpeech
  <2>3. ASSUME NEW d \in Caller \ {c} PROVE Speaks(d)'
    <3>1. SameCaller(d)
      BY <1>1, <1>3, OthersStay
    <3>2. pc[d] \in Talking => Undisturbed(d)
      BY <1>1, <1>2, <1>3, <2>1, OthersSpeakOn
    <3> QED BY <1>2, <3>1, <3>2, SpeaksOn
  <2>4. ASSUME NEW e \in active' PROVE Agrees(e)'
    BY <1>1, <1>2, <1>3, <2>4, ReserveAgrees, CallerAgrees
  <2> QED BY <2>2, <2>3, <2>4
<1>4. ASSUME \/ \E t \in Timer : TimerStep(t)
             \/ CloseSession \/ Close \/ CloseNext \/ Pass \/ UNCHANGED vars
      PROVE  (\A d \in Caller : Speaks(d)') /\ (\A e \in active' : Agrees(e)')
  <2>1. /\ \A e \in active' : e \in active /\ SameUse(e) /\ conn'[e] = conn[e]
        /\ \A e \in Entry : conn'[e] = conn[e] \/ conn'[e] = None
    BY <1>1, <1>2, <1>4, EnvironmentUse
  <2>2. \A d \in Caller : SameCaller(d)
    BY <1>4, EnvironmentStays
  <2>3. ASSUME NEW d \in Caller PROVE Speaks(d)'
    <3>1. pc[d] \in Talking => lease[d] \in Entry
      BY DEF PoolFacts, Holds, Talking, Acquiring, Opened
    <3>2. pc[d] \in Talking => Undisturbed(d)
      BY <2>1, <3>1 DEF Undisturbed, SameUse
    <3> QED BY <1>2, <2>2, <3>2, SpeaksOn
  <2>4. ASSUME NEW e \in active' PROVE Agrees(e)'
    <3>1. Completing(e)' <=> Completing(e)
      BY <2>2 DEF Completing, SameCaller
    <3> QED BY <1>2, <2>1, <2>4, <3>1, AgreesOn
  <2> QED BY <2>3, <2>4
<1>5. (\A d \in Caller : Speaks(d)') /\ (\A e \in active' : Agrees(e)')
  BY <1>3, <1>4 DEF Next
<1>6. ConversationInv' <=> ((\A d \in Caller : Speaks(d)) /\ (\A e \in active : Agrees(e)))'
  BY ConversationParts, PTL
<1> QED BY <1>5, <1>6

-----------------------------------------------------------------------------
(* The assumptions of the contract are those of the pool.                  *)
LEMMA FiniteSessions == P!IsFiniteSet(Session)
  BY FiniteAssumption DEF P!IsFiniteSet, IsFiniteSet, FiniteAssumption

LEMMA Limits == P!LimitsAssumption /\ P!NoneAssumption
  BY LimitsAssumption, NoneAssumption
     DEF LimitsAssumption, NoneAssumption, P!LimitsAssumption, P!NoneAssumption

(* The streams begin where the contract does.                              *)
LEMMA ContractInit == Init => P!Init
<1> SUFFICES ASSUME Init PROVE P!Init
  OBVIOUS
<1>1. P!PoolInit
  BY DEF Init, PoolInit, Blank, NewEntry, FreeTimer, P!PoolInit, P!Blank, P!NewEntry, P!FreeTimer
<1>2. LeasePc = [c \in Caller |-> "idle"]
  <2>1. \A c \in Caller : pc[c] = "idle" /\ lease[c] = None
    BY DEF Init
  <2>2. LeasePlace("idle", None) = "idle"
    BY Places DEF Parted
  <2> HIDE DEF Init
  <2>3. \A c \in Caller : LeasePlace(pc[c], lease[c]) = "idle"
    BY <2>1, <2>2
  <2> QED BY <2>3 DEF LeasePc
<1>3. LeaseManual = [c \in Caller |-> FALSE]
  BY DEF Init, LeaseManual
<1> QED BY <1>1, <1>2, <1>3 DEF P!Init, Init

LEMMA StreamInit == Init => StreamInv
<1> SUFFICES ASSUME Init PROVE StreamInv
  OBVIOUS
<1>1. P!IInv
  BY ContractInit, P!InvInit, FiniteSessions, Limits
     DEF P!LimitsAssumption, P!NoneAssumption, P!FiniteAssumption
<1>2. \A c \in Caller : pc[c] = "idle"
  BY DEF Init
<1>3. P!DroppedIsGone
  BY <1>2 DEF P!DroppedIsGone, LeasePc, LeasePlace, Parted, Init
<1>4. TypeOK
  <2>1. PoolTypeOK
    BY <1>1 DEF P!IInv, P!TypeOK, P!PoolTypeOK, PoolTypeOK, P!EntryRecord, EntryRecord,
           P!TimerRecord, TimerRecord
  <2> QED BY <2>1 DEF Init, TypeOK, CallerTypeOK, Parted
<1>5. ControlInv
  BY <1>4 DEF Init, ControlInv, CallersKnowTheirEntry, SubmissionsAreCounted, Unsent, Acquiring
<1>6. SocketInv
  BY DEF Init, PoolInit, FreeTimer, SocketInv, GoneForGood, SocketsAreAttached,
         SocketsHaveACloser, PooledSocketsAreOpen
<1>7. ConversationInv
  BY DEF Init, PoolInit, ConversationInv, PlansFromItsEntry, PlansFrom, FramesFit, FrameFits,
         ServerReadsWholeInput, CompletedIsLatest, IsLatest, BaselinesMatch, OneResponsePerLease
<1> QED BY <1>1, <1>3, <1>5, <1>6, <1>7, SameInvariant DEF StreamInv

(* The pool's own invariant is kept by what the streams do, and what it    *)
(* says of them leads to the rest: types, counts, sockets, conversations.  *)
LEMMA StreamStep ==
  ASSUME StreamInv, [Next]_vars
  PROVE  StreamInv' /\ [P!Next]_P!vars
<1>1. /\ TypeOK /\ CallersKnowTheirEntry /\ SubmissionsAreCounted /\ SocketInv
      /\ ConversationInv /\ P!IInv /\ P!DroppedIsGone
  BY SameInvariant DEF StreamInv, ControlInv
<1>2. LocalTypeOK /\ CallerTypeOK /\ PoolFacts
  BY <1>1, PoolMeaning DEF TypeOK, LocalTypeOK
<1>3. [P!Next]_P!vars
  BY <1>1, <1>2, ContractStep DEF SocketInv, ConversationInv
<1>4. P!IInv'
  <2>1. P!IInv /\ [P!Next]_P!vars => P!IInv'
    BY P!InvStep, FiniteSessions, Limits
       DEF P!LimitsAssumption, P!NoneAssumption, P!FiniteAssumption
  <2> QED BY <1>1, <1>3, <2>1
<1>5. P!DroppedIsGone'
  <2>1. P!TypeOK
    BY <1>1 DEF P!IInv
  <2>2. P!TypeOK /\ P!DroppedIsGone /\ [P!Next]_P!vars => P!DroppedIsGone'
    BY P!DroppedStep, FiniteSessions, Limits
       DEF P!LimitsAssumption, P!NoneAssumption, P!FiniteAssumption
  <2> QED BY <1>1, <1>3, <2>1, <2>2
<1>6. LocalTypeOK'
  BY <1>1, <1>2, LocalTypeStep DEF ConversationInv
<1>7. PoolFacts'
  BY <1>4, <1>5, <1>6, PoolMeaningNext DEF LocalTypeOK
<1>8. TypeOK'
  BY <1>6, <1>7 DEF TypeOK, LocalTypeOK, PoolFacts
<1>9. CallersKnowTheirEntry' /\ SubmissionsAreCounted'
  BY <1>1, <1>2, <1>6, KnowStep, CountStep
<1>10. SocketInv'
  BY <1>1, <1>2, <1>6, SocketStep DEF ConversationInv
<1>11. ConversationInv'
  BY <1>1, <1>2, <1>6, ConversationStep
<1>12. (P!IInv <=> Leases!IInv)' /\ (P!DroppedIsGone <=> Leases!DroppedIsGone)'
  BY SameInvariant, PTL
<1> QED BY <1>3, <1>4, <1>5, <1>8, <1>9, <1>10, <1>11, <1>12 DEF StreamInv, ControlInv

(* The strengthened invariant of the streams holds in every reachable      *)
(* state, for any number of callers, sessions, entries and timers.         *)
THEOREM StreamInvariant == Spec => []StreamInv
<1>1. StreamInv /\ [Next]_vars => StreamInv'
  BY StreamStep
<1> QED BY <1>1, StreamInit, PTL DEF Spec

(* A stream is a caller that keeps the contract of the pool: its calls to  *)
(* reserve, attach, release and schedule, its unlocked planning and its    *)
(* recovery, interleaved with timers and close, are steps of SessionLeases *)
(* or none of its steps.                                                   *)
THEOREM StreamsKeepTheContract == Spec => PoolContract
<1>1. Init => Leases!Init
  BY ContractInit, SameInit
<1>2. StreamInv /\ [Next]_vars => [UNCHANGED Leases!vars \/ Leases!Next]_(Leases!vars)
  BY StreamStep, SameSteps
<1> QED BY <1>1, <1>2, StreamInvariant, PTL DEF Spec, PoolContract

-----------------------------------------------------------------------------
(* What follows for the streams themselves.                                *)

(* Every variable of the streams keeps its type.                           *)
THEOREM TypeInvariant == Spec => []TypeOK
<1>1. StreamInv => TypeOK
  BY DEF StreamInv, ControlInv
<1> QED BY <1>1, StreamInvariant, PTL

(* What a stream sends over a connection, the server reads as the caller's *)
(* whole conversation under the caller's configuration, although           *)
(* plan_request reads the baseline without the lock.                       *)
THEOREM ServersReadWholeInputs == Spec => []ServerReadsWholeInput
<1>1. StreamInv => ServerReadsWholeInput
  BY DEF StreamInv, ConversationInv
<1> QED BY <1>1, StreamInvariant, PTL

(* The recovery of events() and the SSE fallback of open() never submit a  *)
(* request again that may have produced output.                            *)
THEOREM NothingIsResubmitted == Spec => []NoResubmission
<1>1. StreamInv => NoResubmission
  <2> SUFFICES ASSUME SubmissionsAreCounted PROVE NoResubmission
    BY DEF StreamInv, ControlInv
  <2>1. \A c \in Caller : pc[c] = "receiving" /\ ~seen[c] => ~delivered[c]
    BY DEF SubmissionsAreCounted
  <2> QED BY <2>1 DEF SubmissionsAreCounted, NoResubmission
<1> QED BY <1>1, StreamInvariant, PTL

(* Every socket the connector opened is in the pool, or a thread refers to *)
(* it that will close it.                                                  *)
THEOREM SocketsAreNeverLost == Spec => []NoSocketLeak
<1>1. StreamInv => NoSocketLeak
  BY DEF StreamInv, SocketInv, SocketsHaveACloser, NoSocketLeak
<1> QED BY <1>1, StreamInvariant, PTL

(* Whoever leases an attached entry finds its socket open.                 *)
THEOREM PooledSocketsStayOpen == Spec => []PooledSocketsAreOpen
<1>1. StreamInv => PooledSocketsAreOpen
  BY DEF StreamInv, SocketInv
<1> QED BY <1>1, StreamInvariant, PTL

(* Two streams never speak over one connection.                            *)
THEOREM StreamsShareNoSocket == Spec => []OneStreamPerSocket
<1>1. StreamInv => OneStreamPerSocket
  <2> SUFFICES ASSUME StreamInv PROVE OneStreamPerSocket
    OBVIOUS
  <2>1. PoolFacts
    BY PoolMeaning, SameInvariant DEF StreamInv, ControlInv, TypeOK
  <2> QED BY <2>1 DEF PoolFacts, OneStreamPerSocket, Holds, Opened
<1> QED BY <1>1, StreamInvariant, PTL

(* The baseline of an idle connection is the last response the server      *)
(* completed on it.                                                        *)
THEOREM BaselinesMatchServers == Spec => []BaselineMatchesServer
<1>1. StreamInv => BaselineMatchesServer
  <2> SUFFICES ASSUME StreamInv, NEW e \in active, entry[e].base # None, ~entry[e].busy
               PROVE  /\ conn[e].id = entry[e].base.id
                      /\ conn[e].config = entry[e].base.config
                      /\ conn[e].context = entry[e].base.input \o entry[e].base.output
    BY DEF BaselineMatchesServer
  <2>1. PoolFacts
    BY PoolMeaning, SameInvariant DEF StreamInv, ControlInv, TypeOK
  <2>2. ~Completing(e)
    BY <2>1 DEF PoolFacts, Completing, Holds, Opened
  <2> QED BY <2>2 DEF StreamInv, ConversationInv, BaselinesMatch, BaseMatches
<1> QED BY <1>1, StreamInvariant, PTL

(* What is proved of every caller that keeps the contract holds of the     *)
(* streams: the pool never takes a connection in use away for capacity or  *)
(* idleness, never expires one early, keeps no one-shot lease, never holds *)
(* more sessions than its limit, and is empty once closed.                 *)
THEOREM StreamsInheritTheContract ==
  Spec => /\ [](P!LeaseExclusive /\ P!BusyMeansHeld /\ P!IdleIsReusable /\ P!Capacity)
          /\ [](P!ClosedIsEmpty /\ P!OneEndpoint /\ P!IdleIsTimed)
          /\ P!NeverExpiredEarly /\ P!BusyNeverEvicted /\ P!OneShotIsDropped
<1>1. Spec => P!Spec
  <2>1. StreamInv /\ [Next]_vars => [P!Next]_P!vars
    BY StreamStep
  <2> QED BY <2>1, ContractInit, StreamInvariant, PTL DEF Spec, P!Spec
<1>2. P!Spec => []P!IInv
  BY P!Inductive, FiniteSessions, Limits
     DEF P!LimitsAssumption, P!NoneAssumption, P!FiniteAssumption
<1>3. P!IInv => /\ P!LeaseExclusive /\ P!BusyMeansHeld /\ P!IdleIsReusable /\ P!Capacity
                /\ P!ClosedIsEmpty /\ P!OneEndpoint /\ P!IdleIsTimed
  BY DEF P!IInv
<1>4. P!Spec => P!NeverExpiredEarly
  BY P!ExpiryIsNeverEarly, FiniteSessions, Limits
     DEF P!LimitsAssumption, P!NoneAssumption, P!FiniteAssumption
<1>5. P!Spec => P!BusyNeverEvicted
  BY P!BusyIsNeverEvicted, FiniteSessions, Limits
     DEF P!LimitsAssumption, P!NoneAssumption, P!FiniteAssumption
<1>6. P!Spec => P!OneShotIsDropped
  BY P!OneShotsAreDropped, FiniteSessions, Limits
     DEF P!LimitsAssumption, P!NoneAssumption, P!FiniteAssumption
<1> QED BY <1>1, <1>2, <1>3, <1>4, <1>5, <1>6, PTL
=============================================================================
