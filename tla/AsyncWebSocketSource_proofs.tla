---------------------- MODULE AsyncWebSocketSource_proofs ----------------------
(***************************************************************************)
(* The streams of the asynchronous client keep the contract of the pool,   *)
(* although they may be cancelled at every await, and what is proved of    *)
(* every caller that keeps it holds of them; one inductive invariant gives *)
(* the safety properties of AsyncWebSocketSource.                          *)
(***************************************************************************)
EXTENDS AsyncWebSocketSource, SessionPool_proofs

(* The contract with its theorems, under the same mapping as Leases.       *)
P == INSTANCE SessionLeases_proofs WITH
       pc <- LeasePc, lease <- LeaseEntry, manual <- LeaseManual

-----------------------------------------------------------------------------
(* The operations of the pool are the contract's: they have the same       *)
(* definitions over the same variables.                                    *)

LEMMA SameReserve ==
  ASSUME NEW s, NEW x, NEW m, NEW e
  PROVE  /\ P!Reuse(s, x, m, e) <=> Reuse(s, x, m, e)
         /\ \A v : P!Create(s, x, m, e, v) <=> Create(s, x, m, e, v)
         /\ P!Unreferenced(e) <=> Unreferenced(e)
<1>1. P!Reuse(s, x, m, e) <=> Reuse(s, x, m, e)
  BY DEF
     P!Reuse, P!Stale, P!Cached, P!EntryWithout, P!Taken, P!EntriesWithout, P!Cancelled,
     P!Removed, P!FreeTimer, P!Blank, P!NewEntry, Reuse, Stale, Cached, EntryWithout, Taken,
     EntriesWithout, Cancelled, Removed, FreeTimer, Blank, NewEntry
<1>2. ASSUME NEW v PROVE P!Create(s, x, m, e, v) <=> Create(s, x, m, e, v)
  BY DEF
     P!Create, P!Stale, P!Cached, P!Evictions, P!EntryWithout, P!NewEntry, P!Persists,
     P!EntriesWithout, P!Cancelled, P!Wanted, P!Full, P!LeastRecent, P!Removed, P!FreeTimer,
     P!CachedSessions, P!Blank, P!Cardinality, P!IsFiniteSet, Create, Stale, Cached, Evictions,
     EntryWithout, NewEntry, Persists, EntriesWithout, Cancelled, Wanted, Full, LeastRecent,
     Removed, FreeTimer, CachedSessions, Blank, Cardinality, IsFiniteSet
<1>3. P!Unreferenced(e) <=> Unreferenced(e)
  BY DEF P!Unreferenced, Unreferenced
<1> QED BY <1>1, <1>2, <1>3

LEMMA SameRelease ==
  ASSUME NEW e, NEW m, NEW b
  PROVE  /\ P!Attach(e) <=> Attach(e)
         /\ P!DropBaseline(e) <=> DropBaseline(e)
         /\ P!ReleaseKeep(e, m, b) <=> ReleaseKeep(e, m, b)
         /\ P!ScheduleNothing(e) <=> ScheduleNothing(e)
  BY DEF
     P!Attach, P!DropBaseline, P!ReleaseKeep, P!Keeps, P!Returned, P!ScheduleNothing,
     P!poolVars, Attach, DropBaseline, ReleaseKeep, Keeps, Returned, ScheduleNothing, poolVars

LEMMA SameDrop ==
  ASSUME NEW e, NEW k, NEW m
  PROVE  /\ P!ReleaseDrop(e, k, m) <=> ReleaseDrop(e, k, m)
  BY DEF
     P!ReleaseDrop, P!Keeps, P!RemoveEntries, P!EntryWithout, P!EntriesWithout, P!Cancelled,
     P!Removed, P!FreeTimer, P!Blank, P!NewEntry, ReleaseDrop, Keeps, RemoveEntries,
     EntryWithout, EntriesWithout, Cancelled, Removed, FreeTimer, Blank, NewEntry

LEMMA SameTimers ==
  ASSUME NEW e, NEW t
  PROVE  /\ P!Schedule(e, t) <=> Schedule(e, t)
         /\ P!Fire(t) <=> Fire(t)
         /\ P!Expire(t) <=> Expire(t)
         /\ P!Dispose(t) <=> Dispose(t)
  BY DEF
     P!Schedule, P!Fire, P!Expire, P!Outdated, P!FreeTimer, P!EntryWithout, P!EntriesWithout,
     P!Cancelled, P!Removed, P!Blank, P!NewEntry, P!Dispose, Schedule, Fire, Expire, Outdated,
     FreeTimer, EntryWithout, EntriesWithout, Cancelled, Removed, Blank, NewEntry, Dispose

LEMMA SameClears ==
  ASSUME NEW s
  PROVE  /\ P!ClearSession(s) <=> ClearSession(s)
         /\ P!ClearAll <=> ClearAll
         /\ P!Tick <=> Tick
  BY DEF
     P!ClearSession, P!RemoveEntries, P!OfSession, P!EntryWithout, P!EntriesWithout,
     P!Cancelled, P!Removed, P!FreeTimer, P!Blank, P!NewEntry, P!ClearAll, P!Tick, P!Older,
     ClearSession, RemoveEntries, OfSession, EntryWithout, EntriesWithout, Cancelled, Removed,
     FreeTimer, Blank, NewEntry, ClearAll, Tick, Older

-----------------------------------------------------------------------------
(* What the contract says of the streams is what its theorems are about.   *)

LEMMA SameSteps == [P!Next]_P!vars <=> [Leases!Next]_Leases!vars
<1>1. ASSUME NEW c PROVE P!ReserveCached(c) <=> Leases!ReserveCached(c)
  BY DEF
     P!ReserveCached, P!Asking, P!Reuse, P!Leased, P!Stale, P!Cached, P!EntryWithout, P!Taken,
     P!EntriesWithout, P!Cancelled, P!Goto, P!Removed, P!FreeTimer, P!Blank, P!NewEntry,
     Leases!ReserveCached, Leases!Asking, Leases!Reuse, Leases!Leased, Leases!Stale,
     Leases!Cached, Leases!EntryWithout, Leases!Taken, Leases!EntriesWithout, Leases!Cancelled,
     Leases!Goto, Leases!Removed, Leases!FreeTimer, Leases!Blank, Leases!NewEntry
<1>2. ASSUME NEW c PROVE P!ReserveNew(c) <=> Leases!ReserveNew(c)
  BY DEF
     P!ReserveNew, P!Asking, P!Fresh, P!Create, P!Leased, P!Unreferenced, P!Stale, P!Cached,
     P!Evictions, P!EntryWithout, P!NewEntry, P!Persists, P!EntriesWithout, P!Cancelled,
     P!Goto, P!Wanted, P!Full, P!LeastRecent, P!Removed, P!FreeTimer, P!CachedSessions,
     P!Blank, P!Cardinality, P!IsFiniteSet, Leases!ReserveNew, Leases!Asking, Leases!Fresh,
     Leases!Create, Leases!Leased, Leases!Unreferenced, Leases!Stale, Leases!Cached,
     Leases!Evictions, Leases!EntryWithout, Leases!NewEntry, Leases!Persists,
     Leases!EntriesWithout, Leases!Cancelled, Leases!Goto, Leases!Wanted, Leases!Full,
     Leases!LeastRecent, Leases!Removed, Leases!FreeTimer, Leases!CachedSessions, Leases!Blank,
     Leases!Cardinality, Leases!IsFiniteSet
<1>3. ASSUME NEW c PROVE P!AttachSocket(c) <=> Leases!AttachSocket(c)
  BY DEF
     P!AttachSocket, P!Attach, Leases!AttachSocket, Leases!Attach
<1>4. ASSUME NEW c PROVE P!Plan(c) <=> Leases!Plan(c)
  BY DEF
     P!Plan, P!Goto, P!DropBaseline, P!poolVars, Leases!Plan, Leases!Goto, Leases!DropBaseline,
     Leases!poolVars
<1>5. ASSUME NEW c PROVE P!Keep(c) <=> Leases!Keep(c)
  BY DEF
     P!Keep, P!ReleaseKeep, P!Goto, P!Keeps, P!Returned, Leases!Keep, Leases!ReleaseKeep,
     Leases!Goto, Leases!Keeps, Leases!Returned
<1>6. ASSUME NEW c PROVE P!Drop(c) <=> Leases!Drop(c)
  BY DEF
     P!Drop, P!Holding, P!ReleaseDrop, P!Goto, P!Keeps, P!RemoveEntries, P!EntryWithout,
     P!EntriesWithout, P!Cancelled, P!Removed, P!FreeTimer, P!Blank, P!NewEntry, Leases!Drop,
     Leases!Holding, Leases!ReleaseDrop, Leases!Goto, Leases!Keeps, Leases!RemoveEntries,
     Leases!EntryWithout, Leases!EntriesWithout, Leases!Cancelled, Leases!Removed,
     Leases!FreeTimer, Leases!Blank, Leases!NewEntry
<1>7. ASSUME NEW c PROVE P!ScheduleExpiry(c) <=> Leases!ScheduleExpiry(c)
  BY DEF
     P!ScheduleExpiry, P!Schedule, P!ScheduleNothing, P!Forget, P!poolVars, P!Goto,
     Leases!ScheduleExpiry, Leases!Schedule, Leases!ScheduleNothing, Leases!Forget,
     Leases!poolVars, Leases!Goto
<1>8. ASSUME NEW c PROVE P!Finish(c) <=> Leases!Finish(c)
  BY DEF
     P!Finish, P!Forget, P!poolVars, P!Goto, Leases!Finish, Leases!Forget, Leases!poolVars,
     Leases!Goto
<1>9. ASSUME NEW c PROVE P!TimerStep(c) <=> Leases!TimerStep(c)
  BY DEF
     P!TimerStep, P!Fire, P!Expire, P!Dispose, P!Outdated, P!FreeTimer, P!EntryWithout,
     P!EntriesWithout, P!Cancelled, P!Removed, P!Blank, P!NewEntry, Leases!TimerStep,
     Leases!Fire, Leases!Expire, Leases!Dispose, Leases!Outdated, Leases!FreeTimer,
     Leases!EntryWithout, Leases!EntriesWithout, Leases!Cancelled, Leases!Removed,
     Leases!Blank, Leases!NewEntry
<1>10. P!CloseSession <=> Leases!CloseSession
  BY DEF
     P!CloseSession, P!ClearSession, P!RemoveEntries, P!OfSession, P!EntryWithout,
     P!EntriesWithout, P!Cancelled, P!Removed, P!FreeTimer, P!Blank, P!NewEntry,
     Leases!CloseSession, Leases!ClearSession, Leases!RemoveEntries, Leases!OfSession,
     Leases!EntryWithout, Leases!EntriesWithout, Leases!Cancelled, Leases!Removed,
     Leases!FreeTimer, Leases!Blank, Leases!NewEntry
<1>11. P!Close <=> Leases!Close
  BY DEF
     P!Close, P!ClearAll, P!RemoveEntries, P!EntryWithout, P!EntriesWithout, P!Cancelled,
     P!Removed, P!FreeTimer, P!Blank, P!NewEntry, Leases!Close, Leases!ClearAll,
     Leases!RemoveEntries, Leases!EntryWithout, Leases!EntriesWithout, Leases!Cancelled,
     Leases!Removed, Leases!FreeTimer, Leases!Blank, Leases!NewEntry
<1>12. P!Pass <=> Leases!Pass
  BY DEF
     P!Pass, P!Tick, P!Older, Leases!Pass, Leases!Tick, Leases!Older
<1>13. P!Next <=> Leases!Next
  BY <1>1, <1>2, <1>3, <1>4, <1>5, <1>6, <1>7, <1>8, <1>9, <1>10, <1>11, <1>12, Zenon
     DEF P!Next, Leases!Next
<1>14. (P!vars' = P!vars) <=> (Leases!vars' = Leases!vars)
  BY DEF P!vars, P!poolVars, Leases!vars, Leases!poolVars
<1> QED BY <1>13, <1>14

LEMMA SameInit == P!Init <=> Leases!Init
  BY DEF
     P!Init, P!PoolInit, P!Blank, P!FreeTimer, P!NewEntry, Leases!Init, Leases!PoolInit,
     Leases!Blank, Leases!FreeTimer, Leases!NewEntry

LEMMA SameInvariant ==
  /\ P!IInv <=> Leases!IInv
  /\ P!DroppedIsGone <=> Leases!DroppedIsGone
<1>1. P!TypeOK <=> Leases!TypeOK
  BY DEF
     P!TypeOK, P!PoolTypeOK, P!EntryRecord, P!TimerRecord, Leases!TypeOK, Leases!PoolTypeOK,
     Leases!EntryRecord, Leases!TimerRecord
<1>2. /\ P!IndexesAgree <=> Leases!IndexesAgree
      /\ P!OpenIsAttached <=> Leases!OpenIsAttached
      /\ P!LeaseExclusive <=> Leases!LeaseExclusive
      /\ P!BusyMeansHeld <=> Leases!BusyMeansHeld
  BY DEF
     P!IndexesAgree, P!OpenIsAttached, P!LeaseExclusive, P!Holding, P!BusyMeansHeld,
     Leases!IndexesAgree, Leases!OpenIsAttached, Leases!LeaseExclusive, Leases!Holding,
     Leases!BusyMeansHeld
<1>3. /\ P!IdleIsReusable <=> Leases!IdleIsReusable
      /\ P!TimerIsCurrent <=> Leases!TimerIsCurrent
      /\ P!TimersAreOlder <=> Leases!TimersAreOlder
      /\ P!IdleIsTimed <=> Leases!IdleIsTimed
      /\ P!TimersWaitLongEnough <=> Leases!TimersWaitLongEnough
  BY DEF
     P!IdleIsReusable, P!TimerIsCurrent, P!Running, P!TimersAreOlder, P!IdleIsTimed,
     P!TimersWaitLongEnough, Leases!IdleIsReusable, Leases!TimerIsCurrent, Leases!Running,
     Leases!TimersAreOlder, Leases!IdleIsTimed, Leases!TimersWaitLongEnough
<1>4. /\ P!OneEndpoint <=> Leases!OneEndpoint
      /\ P!ClosedIsEmpty <=> Leases!ClosedIsEmpty
      /\ P!RemovedHoldsNoHistory <=> Leases!RemovedHoldsNoHistory
  BY DEF
     P!OneEndpoint, P!ClosedIsEmpty, P!RemovedHoldsNoHistory, Leases!OneEndpoint,
     Leases!ClosedIsEmpty, Leases!RemovedHoldsNoHistory
<1>5. P!Capacity <=> Leases!Capacity
  BY DEF
     P!Capacity, P!Cardinality, P!IsFiniteSet, Leases!Capacity, Leases!Cardinality,
     Leases!IsFiniteSet
<1> QED BY <1>1, <1>2, <1>3, <1>4, <1>5 DEF P!IInv, Leases!IInv, P!DroppedIsGone, Leases!DroppedIsGone

-----------------------------------------------------------------------------
(* The places of a task as the contract sees them.                         *)
Holds(c) == task[c].pc \in Acquiring \cup Opened

LEMMA Places ==
  ASSUME NEW place
  PROVE  /\ place \in Unleased => LeasePlace(place) = "idle"
         /\ place \in Acquiring => LeasePlace(place) = "leased"
         /\ place \in Opened => LeasePlace(place) = "open"
         /\ place = "scheduling" => LeasePlace(place) = "scheduling"
         /\ place \in Parted => LeasePlace(place) = "dropped"
  BY DEF LeasePlace, Unleased, Acquiring, Opened, Parted

(* Which place a task is at if the contract sees it so.                    *)
LEMMA PlacesBack ==
  ASSUME TypeOK, NEW c \in Caller
  PROVE  /\ LeasePc[c] = LeasePlace(task[c].pc) /\ LeaseEntry[c] = Lease(c)
         /\ LeasePc[c] = "dropped" <=> task[c].pc \in Parted
         /\ LeasePc[c] \in {"leased", "open"} <=> Holds(c)
         /\ LeasePc[c] = "open" <=> task[c].pc \in Opened
<1>1. task[c].pc \in Unleased \cup Acquiring \cup Opened \cup {"scheduling"} \cup Parted
  BY DEF TypeOK, TaskRecord
<1>2. LeasePc[c] = LeasePlace(task[c].pc) /\ LeaseEntry[c] = Lease(c)
  BY DEF LeasePc, LeaseEntry
<1> QED BY <1>1, <1>2 DEF LeasePlace, Unleased, Acquiring, Opened, Parted, Holds

(* What the invariant of the contract says in terms of the tasks.          *)
PoolFacts ==
  /\ PoolTypeOK
  /\ \A e \in Entry : entry[e].valid <=> e \in active
  /\ \A e \in Entry \ active : entry[e].base = None
  /\ \A s \in Session : entries[s] \in active \cup {None}
  /\ \A c, d \in Caller : c # d /\ Holds(c) /\ Holds(d) => Lease(c) # Lease(d)
  /\ \A c \in Caller : task[c].pc \in Opened => entry[Lease(c)].attached
  /\ \A c \in Caller : task[c].pc \in Parted => Lease(c) \notin active

LEMMA PoolMeaning ==
  TypeOK /\ P!IInv /\ P!DroppedIsGone => PoolFacts
<1> SUFFICES ASSUME TypeOK, P!IInv, P!DroppedIsGone PROVE PoolFacts
  OBVIOUS
<1>1. \A c \in Caller : P!Holding(c) <=> Holds(c)
  BY PlacesBack DEF P!Holding
<1>2. PoolTypeOK
  BY DEF TypeOK
<1>3. \A e \in Entry : entry[e].valid <=> e \in active
  BY DEF P!IInv, P!IndexesAgree
<1>4. \A e \in Entry \ active : entry[e].base = None
  BY DEF P!IInv, P!RemovedHoldsNoHistory
<1>5. \A s \in Session : entries[s] \in active \cup {None}
  BY DEF P!IInv, P!IndexesAgree
<1>6. \A c, d \in Caller : c # d /\ Holds(c) /\ Holds(d) => Lease(c) # Lease(d)
  BY <1>1, PlacesBack DEF P!IInv, P!LeaseExclusive
<1>7. \A c \in Caller : task[c].pc \in Opened => entry[Lease(c)].attached
  BY PlacesBack DEF P!IInv, P!OpenIsAttached
<1>8. \A c \in Caller : task[c].pc \in Parted => Lease(c) \notin active
  BY PlacesBack DEF P!DroppedIsGone
<1> QED BY <1>2, <1>3, <1>4, <1>5, <1>6, <1>7, <1>8 DEF PoolFacts

LEMMA PoolMeaningNext ==
  TypeOK' /\ P!IInv' /\ P!DroppedIsGone' => PoolFacts'
  BY PoolMeaning, PTL

-----------------------------------------------------------------------------
(* How a step of one task moves it in the eyes of the contract.            *)
LEMMA MapMoves ==
  ASSUME TypeOK, NEW c \in Caller, NEW r \in TaskRecord, Become(c, r)
  PROVE  /\ LeasePc' = [LeasePc EXCEPT ![c] = LeasePlace(r.pc)]
         /\ LeaseEntry' = [LeaseEntry EXCEPT ![c] = r.lease]
         /\ LeaseManual' = [LeaseManual EXCEPT ![c] = r.lease # None /\ r.request.manual]
  BY DEF TypeOK, Become, LeasePc, LeaseEntry, LeaseManual, Lease, IsManual

LEMMA MapStays ==
  ASSUME TypeOK, NEW c \in Caller, NEW r \in TaskRecord, Become(c, r),
         LeasePlace(r.pc) = LeasePlace(task[c].pc),
         r.lease = Lease(c), r.request = task[c].request \/ Lease(c) = None
  PROVE  LeasePc' = LeasePc /\ LeaseEntry' = LeaseEntry /\ LeaseManual' = LeaseManual
  BY DEF TypeOK, Become, LeasePc, LeaseEntry, LeaseManual, Lease, IsManual

LEMMA MapFrame ==
  ASSUME task' = task
  PROVE  LeasePc' = LeasePc /\ LeaseEntry' = LeaseEntry /\ LeaseManual' = LeaseManual
  BY DEF LeasePc, LeaseEntry, LeaseManual, Lease, IsManual

-----------------------------------------------------------------------------
(* A step of a task gives it another record, and leaves the others alone.  *)
Place == Unleased \cup Acquiring \cup Opened \cup {"scheduling"} \cup Parted

Error == {None, "StreamError", "ConnectFailure", "APIStatusError", "CancelledError"}

LEMMA MovedType ==
  ASSUME NEW r \in TaskRecord, NEW p \in Place
  PROVE  /\ [r EXCEPT !.pc = p] \in TaskRecord
         /\ [r EXCEPT !.pc = p, !.io = FALSE] \in TaskRecord
         /\ [r EXCEPT !.pc = p, !.io = TRUE] \in TaskRecord
         /\ \A error \in Error : [r EXCEPT !.pc = p, !.failure = error] \in TaskRecord
<1>1. [r EXCEPT !.pc = p] \in TaskRecord
  BY DEF TaskRecord, Place
<1>2. [r EXCEPT !.pc = p, !.io = FALSE] \in TaskRecord
  BY DEF TaskRecord, Place
<1>3. [r EXCEPT !.pc = p, !.io = TRUE] \in TaskRecord
  BY DEF TaskRecord, Place
<1>4. ASSUME NEW error \in Error PROVE [r EXCEPT !.pc = p, !.failure = error] \in TaskRecord
  BY DEF TaskRecord, Place, Error
<1> QED BY <1>1, <1>2, <1>3, <1>4

LEMMA NoTaskType ==
  /\ NoTask \in TaskRecord
  /\ \A r \in Request : [NoTask EXCEPT !.pc = "reserving", !.request = r] \in TaskRecord
  /\ \A r \in TaskRecord :
       [NoTask EXCEPT !.pc = "closing", !.lease = r.lease, !.request = r.request] \in TaskRecord
<1>1. NoTask \in TaskRecord
  BY DEF NoTask, TaskRecord, Unleased
<1>2. ASSUME NEW r \in Request
      PROVE  [NoTask EXCEPT !.pc = "reserving", !.request = r] \in TaskRecord
  BY DEF NoTask, TaskRecord, Unleased
<1>3. ASSUME NEW r \in TaskRecord
      PROVE  [NoTask EXCEPT !.pc = "closing", !.lease = r.lease, !.request = r.request] \in TaskRecord
  BY DEF NoTask, TaskRecord, Parted
<1> QED BY <1>1, <1>2, <1>3

(* The types of the variables of the tasks.                                *)
LocalTypeOK ==
  /\ task \in [Caller -> TaskRecord]
  /\ conn \in [Entry -> Baseline \cup {FullFrame, None}]
  /\ closer \in [Closer -> CloserRecord]
  /\ submits \in [Caller -> 0..2]

LEMMA ClosedType ==
  ASSUME LocalTypeOK, NEW es
  PROVE  Closed(es) \in [Entry -> Baseline \cup {FullFrame, None}]
  BY DEF LocalTypeOK, Closed

LEMMA TaskStep ==
  ASSUME TypeOK, TasksKnowTheirEntry,
         NEW c \in Caller, Start(c) \/ CallerStep(c) \/ Continue(c) \/ CancelStep(c)
  PROVE  \E r \in TaskRecord : Become(c, r)
<1>1. task[c] \in TaskRecord
  BY DEF TypeOK
<1>2. ASSUME NEW p \in Place, Goto(c, p) \/ StopIo(c, p) PROVE \E r \in TaskRecord : Become(c, r)
  BY <1>1, <1>2, MovedType DEF Goto, StopIo
<1>3. ASSUME NEW p \in Place, NEW error \in Error, Fail(c, error, p)
      PROVE  \E r \in TaskRecord : Become(c, r)
  BY <1>1, <1>3, MovedType DEF Fail
<1>4. ASSUME End(c) \/ Finish(c) PROVE \E r \in TaskRecord : Become(c, r)
  BY <1>1, <1>4, NoTaskType DEF End, Finish, Forget, Lease
<1> USE DEF Place, Error, Unleased, Acquiring, Opened, Parted
<1>5. CASE Start(c)
  BY <1>5, NoTaskType DEF Start
<1>6. CASE Reserve(c)
  <2>1. PICK e \in Entry, es \in SUBSET Entry : Reserved(c, e, es)
    <3>1. Stale(task[c].request.endpoint) \subseteq Entry
      BY DEF TypeOK, PoolTypeOK, Stale
    <3> QED BY <1>6, <3>1 DEF Reserve
  <2>2. WithSocket(es) \subseteq Entry
    BY DEF WithSocket
  <2> QED BY <1>1, <2>1, <2>2 DEF Reserved, TaskRecord
<1>7. CASE ReserveRefused(c) \/ Connect(c) \/ Rejected(c) \/ AcquireFailed(c) \/ Raise(c)
  BY <1>2, <1>3, <1>4, <1>7 DEF ReserveRefused, Connect, Rejected, AcquireFailed, Raise
<1>8. CASE Sweep(c)
  <2>1. ASSUME NEW e \in task[c].garbage,
               Become(c, [task[c] EXCEPT !.pc = "swept", !.garbage = @ \ {e}])
        PROVE  \E r \in TaskRecord : Become(c, r)
    <3>1. task[c].garbage \ {e} \subseteq Entry
      BY <1>1 DEF TaskRecord
    <3> QED BY <1>1, <2>1, <3>1 DEF TaskRecord
  <2> QED BY <1>2, <1>8, <2>1 DEF Sweep
<1>9. CASE Plan(c)
  <2>1. PICK f \in Baseline \cup {FullFrame} : Planned(c, f)
    <3>1. entry[Lease(c)].base # None => entry[Lease(c)].base \in Baseline
      <4>1. Lease(c) \in Entry
        BY <1>1, <1>9 DEF Plan, TasksKnowTheirEntry, At, Lease, TaskRecord
      <4> QED BY <4>1 DEF TypeOK, PoolTypeOK, EntryRecord
    <3> QED BY <1>9, <3>1 DEF Plan
  <2>2. \A place \in {"checking", "ready"} :
          [task[c] EXCEPT !.frame = f, !.pc = place] \in TaskRecord
    BY <1>1 DEF TaskRecord
  <2> QED BY <2>1, <2>2 DEF Planned
<1>10. CASE CheckValid(c)
  BY <1>1, <1>2, <1>10 DEF CheckValid, TaskRecord
<1>11. CASE \/ Leave(c) \/ Sent(c) \/ Interrupted(c) \/ Timeout(c) \/ Drained(c)
            \/ ReceiveCompleted(c) \/ CancelRaise(c) \/ CancelStream(c)
  BY <1>2, <1>4, <1>11 DEF Leave, Sent, Interrupted, Timeout, Drained, ReceiveCompleted,
     CancelRaise, CancelStream
<1>12. CASE Receive(c) \/ Continue(c) \/ ReceiveMissing(c)
  <2>1. CASE StopIo(c, "finishing")
    BY <1>2, <2>1
  <2>2. ASSUME NEW output \in BOOLEAN,
               Become(c, [task[c] EXCEPT !.pc = "yielded", !.io = FALSE,
                                         !.seen = @ \/ output, !.delivered = @ \/ output])
        PROVE  \E r \in TaskRecord : Become(c, r)
    <3>1. ASSUME NEW s \in BOOLEAN, NEW d \in BOOLEAN
          PROVE  [task[c] EXCEPT !.pc = "yielded", !.io = FALSE, !.seen = s, !.delivered = d] \in TaskRecord
      BY <1>1, <3>1 DEF TaskRecord
    <3>2. (task[c].seen \/ output) \in BOOLEAN /\ (task[c].delivered \/ output) \in BOOLEAN
      OBVIOUS
    <3> QED BY <2>2, <3>1, <3>2
  <2>3. CASE Become(c, [task[c] EXCEPT !.pc = "receiving", !.io = TRUE])
    BY <1>1, <2>3, MovedType
  <2>4. CASE Become(c, [task[c] EXCEPT !.pc = "recovering", !.io = FALSE, !.recovered = TRUE])
    BY <1>1, <2>4 DEF TaskRecord
  <2> QED BY <1>12, <2>1, <2>2, <2>3, <2>4 DEF Receive, Continue, ReceiveMissing
<1>13. CASE CloseCompleted(c) \/ CloseFailed(c) \/ ScheduleExpiry(c) \/ Ended(c)
  BY <1>2, <1>4, <1>13 DEF CloseCompleted, CloseFailed, ScheduleExpiry, Ended
<1>14. CASE CancelAcquire(c)
  BY <1>1, <1>14 DEF CancelAcquire, TaskRecord
<1> QED BY <1>5, <1>6, <1>7, <1>8, <1>9, <1>10, <1>11, <1>12, <1>13, <1>14
    DEF CallerStep, CancelStep

LEMMA OthersStay ==
  ASSUME TypeOK, TasksKnowTheirEntry,
         NEW c \in Caller, Start(c) \/ CallerStep(c) \/ Continue(c) \/ CancelStep(c)
  PROVE  \A d \in Caller \ {c} : task'[d] = task[d]
  BY TaskStep DEF Become, TypeOK

LEMMA LocalTypeStep ==
  ASSUME TypeOK, TasksKnowTheirEntry, SubmissionsAreCounted, [Next]_vars
  PROVE  LocalTypeOK'
<1>1. LocalTypeOK /\ PoolTypeOK
  BY DEF TypeOK, LocalTypeOK
<1>2. ASSUME NEW c \in Caller, Start(c) \/ CallerStep(c) \/ Continue(c) \/ CancelStep(c)
      PROVE  LocalTypeOK'
  <2>1. task' \in [Caller -> TaskRecord]
    BY <1>1, <1>2, TaskStep DEF LocalTypeOK, Become
  <2>2. closer' = closer
    BY <1>2 DEF CallerStep, CancelStep, Start, Reserve, ReserveRefused, Sweep, Connect, Rejected,
       Plan, AcquireFailed, Raise, CheckValid, Leave, Sent, Interrupted, Timeout, Drained,
       Receive, Continue, ReceiveCompleted, ReceiveMissing, CloseCompleted, CloseFailed,
       ScheduleExpiry, Ended, CancelAcquire, CancelRaise, CancelStream
  <2>3. conn' \in [Entry -> Baseline \cup {FullFrame, None}]
    <3>1. CASE \/ Start(c) \/ Reserve(c) \/ ReserveRefused(c) \/ Rejected(c) \/ Plan(c)
               \/ Raise(c) \/ CheckValid(c) \/ Leave(c) \/ Sent(c) \/ Interrupted(c)
               \/ Timeout(c) \/ Drained(c) \/ Receive(c) \/ Continue(c) \/ ScheduleExpiry(c)
               \/ Ended(c) \/ CancelStep(c)
      BY <1>1, <3>1 DEF LocalTypeOK, Start, Reserve, ReserveRefused, Rejected, Plan, Raise,
         CheckValid, Leave, Sent, Interrupted, Timeout, Drained, Receive, Continue,
         ScheduleExpiry, Ended, CancelStep, CancelAcquire, CancelRaise, CancelStream
    <3>2. CASE Sweep(c) \/ AcquireFailed(c) \/ ReceiveMissing(c) \/ CloseCompleted(c) \/ CloseFailed(c)
      <4>1. conn' = conn \/ \E es : conn' = Closed(es)
        BY <3>2 DEF Sweep, AcquireFailed, ReceiveMissing, CloseCompleted, CloseFailed
      <4> QED BY <1>1, <4>1, ClosedType DEF LocalTypeOK
    <3>3. CASE Connect(c)
      BY <1>1, <3>3 DEF LocalTypeOK, Connect, FullFrame
    <3>4. CASE ReceiveCompleted(c)
      BY <1>1, <3>4 DEF LocalTypeOK, ReceiveCompleted, CanComplete
    <3> QED BY <1>2, <3>1, <3>2, <3>3, <3>4 DEF CallerStep
  <2>4. submits' \in [Caller -> 0..2]
    <3>1. CASE CheckValid(c)
      <4>1. submits[c] + 1 \in 0..2
        BY <1>1, <3>1 DEF LocalTypeOK, CheckValid, SubmissionsAreCounted, Unsent
      <4> QED BY <1>1, <3>1, <4>1 DEF LocalTypeOK, CheckValid
    <3>2. CASE ~CheckValid(c)
      <4>1. submits' = submits \/ submits' = [submits EXCEPT ![c] = 0]
        BY <1>2, <3>2 DEF CallerStep, CancelStep, Start, Reserve, ReserveRefused, Sweep, Connect,
           Rejected, Plan, AcquireFailed, Raise, Leave, Sent, Interrupted, Timeout, Drained,
           Receive, Continue, ReceiveCompleted, ReceiveMissing, CloseCompleted, CloseFailed,
           ScheduleExpiry, Ended, CancelAcquire, CancelRaise, CancelStream, End, Finish, Forget
      <4> QED BY <1>1, <4>1 DEF LocalTypeOK
    <3> QED BY <3>1, <3>2
  <2> QED BY <2>1, <2>2, <2>3, <2>4, <1>1 DEF LocalTypeOK
<1>3. ASSUME NEW t \in Timer, TimerStep(t) PROVE LocalTypeOK'
  BY <1>1, <1>3, ClosedType DEF LocalTypeOK, TimerStep
<1>4. ASSUME NEW k \in Closer, Clear(k) PROVE LocalTypeOK'
  <2>1. WithSocket(active) \subseteq Entry /\ \A s : WithSocket(OfSession(s)) \subseteq Entry
    BY <1>1 DEF PoolTypeOK, WithSocket, OfSession
  <2>2. \A es \in SUBSET Entry, b \in BOOLEAN :
          [pc |-> "clearing", todo |-> es, all |-> b] \in CloserRecord
    BY DEF CloserRecord
  <2>3. \E r \in CloserRecord : closer' = [closer EXCEPT ![k] = r]
    BY <1>4, <2>1, <2>2 DEF Clear
  <2>4. closer' \in [Closer -> CloserRecord] /\ UNCHANGED <<task, conn, submits>>
    BY <1>1, <1>4, <2>3 DEF LocalTypeOK, Clear
  <2> QED BY <1>1, <2>4 DEF LocalTypeOK
<1>5. ASSUME NEW k \in Closer, CloseNext(k) PROVE LocalTypeOK'
  <2>1. closer[k] \in CloserRecord /\ NoCloser \in CloserRecord
    BY <1>1 DEF LocalTypeOK, NoCloser, CloserRecord
  <2>2. closer' \in [Closer -> CloserRecord]
    <3>1. ASSUME NEW e \in closer[k].todo,
                 closer' = [closer EXCEPT ![k].pc = "closing", ![k].todo = @ \ {e}]
          PROVE  closer' \in [Closer -> CloserRecord]
      BY <1>1, <2>1, <3>1 DEF LocalTypeOK, CloserRecord
    <3>2. [closer[k] EXCEPT !.pc = "gathering"] \in CloserRecord
      BY <2>1 DEF CloserRecord
    <3> QED BY <1>1, <1>5, <2>1, <3>1, <3>2 DEF LocalTypeOK, CloseNext
  <2>3. conn' = conn \/ \E es : conn' = Closed(es)
    BY <1>5 DEF CloseNext
  <2> QED BY <1>1, <1>5, <2>2, <2>3, ClosedType DEF LocalTypeOK, CloseNext
<1>6. ASSUME NEW k \in Closer, Gathered(k) \/ CancelClose(k) \/ CancelCleanup(k) PROVE LocalTypeOK'
  <2>1. closer[k] \in CloserRecord /\ NoCloser \in CloserRecord
    BY <1>1 DEF LocalTypeOK, NoCloser, CloserRecord
  <2>2. [closer[k] EXCEPT !.pc = "cancelling"] \in CloserRecord
    BY <2>1 DEF CloserRecord
  <2> QED BY <1>1, <1>6, <2>1, <2>2 DEF LocalTypeOK, Gathered, CancelClose, CancelCleanup
<1>7. CASE Pass \/ UNCHANGED vars
  BY <1>1, <1>7 DEF LocalTypeOK, Pass, vars
<1> QED BY <1>2, <1>3, <1>4, <1>5, <1>6, <1>7 DEF Next, CloserStep

-----------------------------------------------------------------------------
(* Every step of a task is a step of the contract, or none of it.          *)
TaskMove(c) == Start(c) \/ CallerStep(c) \/ Continue(c) \/ CancelStep(c)

LEMMA TaskMoves ==
  ASSUME TypeOK, TasksKnowTheirEntry, NEW c \in Caller, TaskMove(c)
  PROVE  /\ task'[c] \in TaskRecord /\ Become(c, task'[c])
         /\ LeasePc' = [LeasePc EXCEPT ![c] = LeasePlace(task'[c].pc)]
         /\ LeaseEntry' = [LeaseEntry EXCEPT ![c] = task'[c].lease]
         /\ LeaseManual' = [LeaseManual EXCEPT ![c] = task'[c].lease # None /\ task'[c].request.manual]
<1>1. PICK r \in TaskRecord : Become(c, r)
  BY TaskStep DEF TaskMove
<1>2. r = task'[c]
  BY <1>1 DEF TypeOK, Become
<1> QED BY <1>1, <1>2, MapMoves

(* A step that keeps the lease and the request moves the place at most.    *)
LEMMA MoveKeeps ==
  ASSUME TypeOK, TasksKnowTheirEntry, NEW c \in Caller, TaskMove(c),
         task'[c].lease = Lease(c), task'[c].request = task[c].request
  PROVE  /\ LeasePc' = [LeasePc EXCEPT ![c] = LeasePlace(task'[c].pc)]
         /\ LeaseEntry' = LeaseEntry /\ LeaseManual' = LeaseManual
<1>1. /\ LeasePc' = [LeasePc EXCEPT ![c] = LeasePlace(task'[c].pc)]
      /\ LeaseEntry' = [LeaseEntry EXCEPT ![c] = task'[c].lease]
      /\ LeaseManual' = [LeaseManual EXCEPT ![c] = task'[c].lease # None /\ task'[c].request.manual]
  BY TaskMoves
<1>2. LeaseEntry' = LeaseEntry
  BY <1>1 DEF LeaseEntry
<1>3. LeaseManual[c] = (task'[c].lease # None /\ task'[c].request.manual)
  BY DEF LeaseManual, IsManual
<1>4. LeaseManual = [LeaseManual EXCEPT ![c] = LeaseManual[c]]
  BY DEF LeaseManual
<1> QED BY <1>1, <1>2, <1>3, <1>4

(* Steps after which the contract still sees the task as before.           *)
LEMMA MoveWithin ==
  ASSUME TypeOK, TasksKnowTheirEntry, NEW c \in Caller, TaskMove(c),
         LeasePlace(task'[c].pc) = LeasePlace(task[c].pc),
         task'[c].lease = Lease(c), task'[c].request = task[c].request \/ Lease(c) = None
  PROVE  LeasePc' = LeasePc /\ LeaseEntry' = LeaseEntry /\ LeaseManual' = LeaseManual
  BY TaskMoves, MapStays

(* What each way to move a task leaves of it.                              *)
SameLocals(c) ==
  /\ task'[c].lease = task[c].lease /\ task'[c].request = task[c].request
  /\ task'[c].garbage = task[c].garbage /\ task'[c].frame = task[c].frame
  /\ task'[c].recovered = task[c].recovered /\ task'[c].seen = task[c].seen
  /\ task'[c].delivered = task[c].delivered

LEMMA MovedFields ==
  ASSUME TypeOK, NEW c \in Caller, NEW p
  PROVE  /\ Goto(c, p) => /\ task'[c].pc = p /\ SameLocals(c)
                          /\ task'[c].failure = task[c].failure /\ task'[c].io = task[c].io
         /\ StopIo(c, p) => /\ task'[c].pc = p /\ SameLocals(c)
                            /\ task'[c].failure = task[c].failure /\ ~task'[c].io
         /\ \A error : Fail(c, error, p) =>
              /\ task'[c].pc = p /\ SameLocals(c)
              /\ task'[c].failure = error /\ task'[c].io = task[c].io
<1> USE DEF TypeOK, TaskRecord, Become, SameLocals
<1>1. ASSUME Goto(c, p)
      PROVE  /\ task'[c].pc = p /\ SameLocals(c)
             /\ task'[c].failure = task[c].failure /\ task'[c].io = task[c].io
  BY <1>1 DEF Goto
<1>2. ASSUME StopIo(c, p)
      PROVE  /\ task'[c].pc = p /\ SameLocals(c)
             /\ task'[c].failure = task[c].failure /\ ~task'[c].io
  BY <1>2 DEF StopIo
<1>3. ASSUME NEW error, Fail(c, error, p)
      PROVE  /\ task'[c].pc = p /\ SameLocals(c)
             /\ task'[c].failure = error /\ task'[c].io = task[c].io
  BY <1>3 DEF Fail
<1> QED BY <1>1, <1>2, <1>3

LEMMA EndFields ==
  ASSUME TypeOK, NEW c \in Caller
  PROVE  /\ End(c) => task'[c] = NoTask /\ submits' = [submits EXCEPT ![c] = 0]
         /\ Finish(c) => /\ task'[c].pc = "closing" /\ task'[c].lease = Lease(c)
                         /\ task'[c].request = task[c].request /\ task'[c].garbage = {}
                         /\ ~task'[c].recovered /\ ~task'[c].io
                         /\ submits' = [submits EXCEPT ![c] = 0]
<1>1. End(c) => task'[c] = NoTask /\ submits' = [submits EXCEPT ![c] = 0]
  BY DEF TypeOK, End, Forget, Become
<1>2. ASSUME Finish(c)
      PROVE  /\ task'[c] = [NoTask EXCEPT !.pc = "closing", !.lease = Lease(c),
                                          !.request = task[c].request]
             /\ submits' = [submits EXCEPT ![c] = 0]
  BY <1>2 DEF TypeOK, Finish, Forget, Become
<1>3. ASSUME Finish(c)
      PROVE  /\ task'[c].pc = "closing" /\ task'[c].lease = Lease(c)
             /\ task'[c].request = task[c].request /\ task'[c].garbage = {}
             /\ ~task'[c].recovered /\ ~task'[c].io
  BY <1>2, <1>3 DEF NoTask
<1> QED BY <1>1, <1>2, <1>3

(* reserve leases an entry to a task that holds none.                      *)
LEMMA ReserveContract ==
  ASSUME TypeOK, TasksKnowTheirEntry, NEW c \in Caller, Reserve(c)
  PROVE  P!ReserveCached(c) \/ P!ReserveNew(c)
<1> DEFINE r == task[c].request
<1>1. r \in Request
  BY DEF TypeOK, TaskRecord, TasksKnowTheirEntry, Reserve, Reserving, At
<1>2. r.session \in Session \cup {None} /\ r.endpoint \in Endpoint /\ r.manual \in BOOLEAN
  BY <1>1, TaskAssumption DEF TaskAssumption
<1>3. PICK e \in Entry :
        /\ \/ Reuse(r.session, r.endpoint, r.manual, e)
           \/ Unused(e) /\ \E v \in SUBSET Entry : Create(r.session, r.endpoint, r.manual, e, v)
        /\ \E es : Reserved(c, e, es)
  BY DEF Reserve
<1>4. e # None
  BY NoneAssumption DEF NoneAssumption
<1>5. task'[c].pc = "sweeping" /\ task'[c].lease = e /\ task'[c].request = r
  BY <1>3 DEF Reserved, Become, TypeOK, TaskRecord
<1>6. /\ LeasePc' = [LeasePc EXCEPT ![c] = LeasePlace(task'[c].pc)]
      /\ LeaseEntry' = [LeaseEntry EXCEPT ![c] = task'[c].lease]
      /\ LeaseManual' = [LeaseManual EXCEPT ![c] = task'[c].lease # None /\ task'[c].request.manual]
  BY TaskMoves DEF TaskMove, CallerStep
<1>7. LeasePlace("sweeping") = "leased"
  BY Places DEF Acquiring
<1>8. (task'[c].lease # None /\ task'[c].request.manual) = r.manual
  BY <1>2, <1>4, <1>5
<1>9. LeasePc[c] \in {"idle", "dropped"}
  BY Places DEF Reserve, Reserving, LeasePc, Unleased, Parted
<1> HIDE DEF r
<1>10. P!Leased(c, e, r.manual)
  BY <1>5, <1>6, <1>7, <1>8 DEF P!Leased, P!Goto
<1>11. P!Asking(c)
  BY <1>9 DEF P!Asking
<1>12. CASE Reuse(r.session, r.endpoint, r.manual, e)
  <2>1. ~r.manual /\ r.session \in Session
    BY <1>2, <1>4, <1>12 DEF Reuse, Cached
  <2>2. r.manual = FALSE
    BY <1>2, <2>1
  <2>3. P!Reuse(r.session, r.endpoint, FALSE, e)
    BY <1>12, <2>2, SameReserve
  <2> QED BY <1>2, <1>10, <1>11, <2>1, <2>2, <2>3 DEF P!ReserveCached
<1>13. CASE Unused(e) /\ \E v \in SUBSET Entry : Create(r.session, r.endpoint, r.manual, e, v)
  <2>1. P!Fresh(e)
    <3>1. \A d \in Caller : LeaseEntry[d] # e
      BY <1>13 DEF Unused, LeaseEntry
    <3> QED BY <1>13, <3>1, SameReserve DEF Unused, P!Fresh
  <2>2. \E v \in SUBSET Entry : P!Create(r.session, r.endpoint, r.manual, e, v)
    BY <1>13, SameReserve
  <2> QED BY <1>2, <1>10, <1>11, <2>1, <2>2 DEF P!ReserveNew
<1> QED BY <1>3, <1>12, <1>13

(* attach and plan_request act on the leased entry.                        *)
LEMMA SocketContract ==
  ASSUME TypeOK, TasksKnowTheirEntry, SocketsAreAttached, NEW c \in Caller, Connect(c) \/ Plan(c)
  PROVE  P!AttachSocket(c) \/ P!Plan(c) \/ UNCHANGED P!vars
<1>1. TaskMove(c)
  BY DEF TaskMove, CallerStep
<1>2. LeasePc[c] = "leased" /\ LeaseEntry[c] = Lease(c)
  BY Places DEF Connect, Plan, At, LeasePc, LeaseEntry, Acquiring
<1>3. CASE Connect(c)
  <2>1. task'[c].pc \in {"planning", "rejecting", "failing"} /\ SameLocals(c)
    BY <1>3, MovedFields DEF Connect
  <2>2. LeasePc' = LeasePc /\ LeaseEntry' = LeaseEntry /\ LeaseManual' = LeaseManual
    <3>1. LeasePlace(task'[c].pc) = LeasePlace(task[c].pc)
      BY <1>3, <2>1, Places DEF Connect, At, Acquiring
    <3> QED BY <1>1, <2>1, <3>1, MoveWithin DEF SameLocals, Lease
  <2>3. CASE Attach(Lease(c))
    <3>1. ~entry[LeaseEntry[c]].attached
      BY <1>2, <1>3 DEF Connect, SocketsAreAttached
    <3>2. P!Attach(LeaseEntry[c])
      BY <1>2, <2>3, SameRelease
    <3> QED BY <1>2, <2>2, <3>1, <3>2 DEF P!AttachSocket
  <2>4. CASE UNCHANGED poolVars
    BY <2>2, <2>4 DEF P!vars, P!poolVars, poolVars
  <2> QED BY <1>3, <2>3, <2>4 DEF Connect
<1>4. CASE Plan(c)
  <2>1. PICK f : Planned(c, f)
    BY <1>4 DEF Plan
  <2>2. task'[c].pc \in {"checking", "ready"} /\ task'[c].lease = Lease(c)
        /\ task'[c].request = task[c].request
    BY <2>1 DEF Planned, Become, TypeOK, TaskRecord, Lease
  <2>3. LeasePlace(task'[c].pc) = "open"
    BY <2>2, Places DEF Opened
  <2>4. /\ LeasePc' = [LeasePc EXCEPT ![c] = "open"]
        /\ LeaseEntry' = LeaseEntry /\ LeaseManual' = LeaseManual
    BY <1>1, <2>2, <2>3, MoveKeeps
  <2>5. entry[LeaseEntry[c]].attached
    BY <1>2, <1>4 DEF Plan, At, SocketsAreAttached
  <2>6. P!DropBaseline(LeaseEntry[c]) \/ UNCHANGED P!poolVars
    BY <1>2, <1>4, SameRelease DEF Plan, P!poolVars, poolVars
  <2> QED BY <1>2, <2>4, <2>5, <2>6 DEF P!Plan, P!Goto
<1> QED BY <1>3, <1>4

(* Giving the entry back, completed or not.                                *)
LEMMA ReleaseContract ==
  ASSUME TypeOK, TasksKnowTheirEntry, CompletedIsLatest, PoolFacts, NEW c \in Caller,
         AcquireFailed(c) \/ ReceiveMissing(c) \/ CloseCompleted(c) \/ CloseFailed(c)
  PROVE  P!Keep(c) \/ P!Drop(c) \/ UNCHANGED P!vars
<1>1. TaskMove(c)
  BY DEF TaskMove, CallerStep
<1>2. Lease(c) \in Entry /\ Lease(c) # None /\ LeaseEntry[c] = Lease(c)
  BY DEF AcquireFailed, ReceiveMissing, CloseCompleted, CloseFailed, TasksKnowTheirEntry, At,
     Unleased, Lease, TypeOK, TaskRecord, LeaseEntry
<1>3. LeaseManual[c] = IsManual(c) /\ task[c].request \in Request
  <2>1. task[c].request \in Request
    BY DEF AcquireFailed, ReceiveMissing, CloseCompleted, CloseFailed, TasksKnowTheirEntry, At,
       TypeOK, TaskRecord
  <2> QED BY <1>2, <2>1, TaskAssumption DEF TaskAssumption, LeaseManual, IsManual
<1>4. ASSUME task'[c].pc \in Parted, task'[c].lease = Lease(c), task'[c].request = task[c].request,
             LeasePc[c] \in {"leased", "open", "dropped"},
             NEW completed \in {FALSE, LeasePc[c] = "open"},
             ReleaseDrop(Lease(c), completed, IsManual(c))
      PROVE  P!Drop(c)
  <2>1. /\ LeasePc' = [LeasePc EXCEPT ![c] = "dropped"]
        /\ LeaseEntry' = LeaseEntry /\ LeaseManual' = LeaseManual
    BY <1>1, <1>4, MoveKeeps, Places
  <2>2. P!ReleaseDrop(LeaseEntry[c], completed, LeaseManual[c])
    BY <1>2, <1>3, <1>4, SameDrop
  <2> QED BY <1>4, <2>1, <2>2 DEF P!Drop, P!Holding, P!Goto
<1>5. CASE AcquireFailed(c)
  <2>1. LeasePc[c] = "leased"
    BY <1>5, Places DEF AcquireFailed, At, LeasePc, Acquiring
  <2>2. task'[c].pc \in Parted /\ SameLocals(c)
    BY <1>5, MovedFields DEF AcquireFailed, Parted
  <2>3. ReleaseDrop(Lease(c), FALSE, IsManual(c))
    BY <1>5 DEF AcquireFailed
  <2> QED BY <1>4, <2>1, <2>2, <2>3 DEF SameLocals, Lease
<1>6. CASE ReceiveMissing(c)
  <2>1. LeasePc[c] = "open"
    BY <1>6, Places DEF ReceiveMissing, At, LeasePc, Opened
  <2>2. CASE /\ Recoverable(c) /\ ReleaseDrop(Lease(c), FALSE, FALSE)
             /\ Become(c, [task[c] EXCEPT !.pc = "recovering", !.io = FALSE, !.recovered = TRUE])
    <3>1. IsManual(c) = FALSE
      BY <1>3, <2>2, TaskAssumption DEF TaskAssumption, Recoverable, IsManual
    <3>2. task'[c].pc \in Parted /\ task'[c].lease = Lease(c) /\ task'[c].request = task[c].request
      BY <2>2 DEF Become, TypeOK, TaskRecord, Lease, Parted
    <3> QED BY <1>4, <2>1, <2>2, <3>1, <3>2
  <2>3. CASE StopIo(c, "finishing") /\ UNCHANGED poolVars
    <3>1. task'[c].pc = "finishing" /\ SameLocals(c)
      BY <2>3, MovedFields
    <3>2. LeasePlace(task'[c].pc) = LeasePlace(task[c].pc)
      BY <1>6, <3>1, Places DEF ReceiveMissing, At, Opened
    <3>3. LeasePc' = LeasePc /\ LeaseEntry' = LeaseEntry /\ LeaseManual' = LeaseManual
      BY <1>1, <3>1, <3>2, MoveWithin DEF SameLocals, Lease
    <3> QED BY <2>3, <3>3 DEF P!vars, P!poolVars, poolVars
  <2> QED BY <1>6, <2>2, <2>3 DEF ReceiveMissing
<1>7. CASE CloseFailed(c)
  <2>1. LeasePc[c] \in {"open", "dropped"}
    BY <1>7, Places DEF CloseFailed, LeasePc, Opened, Parted
  <2>2. task'[c].pc \in Parted /\ task'[c].lease = Lease(c) /\ task'[c].request = task[c].request
    BY <1>7, EndFields DEF CloseFailed, Parted
  <2>3. ReleaseDrop(Lease(c), FALSE, IsManual(c))
    BY <1>7 DEF CloseFailed
  <2> QED BY <1>4, <2>1, <2>2, <2>3
<1>8. CASE CloseCompleted(c)
  <2>1. LeasePc[c] = "open" /\ At(c, "completed")
    BY <1>8, Places DEF CloseCompleted, At, LeasePc, Opened
  <2>2. CASE ReleaseDrop(Lease(c), TRUE, IsManual(c)) /\ Finish(c)
    <3>1. task'[c].pc \in Parted /\ task'[c].lease = Lease(c) /\ task'[c].request = task[c].request
      BY <2>2, EndFields DEF Parted
    <3>2. TRUE \in {FALSE, LeasePc[c] = "open"}
      BY <2>1
    <3> QED BY <1>4, <2>1, <2>2, <3>1, <3>2
  <2>3. CASE ReleaseKeep(Lease(c), IsManual(c), conn[Lease(c)]) /\ Goto(c, "scheduling")
    <3>1. conn[Lease(c)] \in Baseline
      BY <1>2, <2>1, <2>3 DEF ReleaseKeep, Keeps, PoolFacts, CompletedIsLatest
    <3>2. P!ReleaseKeep(LeaseEntry[c], LeaseManual[c], conn[Lease(c)])
      BY <1>2, <1>3, <2>3, SameRelease
    <3>3. task'[c].pc = "scheduling" /\ SameLocals(c)
      BY <2>3, MovedFields
    <3>4. /\ LeasePc' = [LeasePc EXCEPT ![c] = "scheduling"]
          /\ LeaseEntry' = LeaseEntry /\ LeaseManual' = LeaseManual
      BY <1>1, <3>3, MoveKeeps, Places DEF SameLocals, Lease
    <3> QED BY <2>1, <3>1, <3>2, <3>4 DEF P!Keep, P!Goto
  <2> QED BY <1>8, <2>2, <2>3 DEF CloseCompleted
<1> QED BY <1>5, <1>6, <1>7, <1>8

(* The end of a stream forgets its entry.                                  *)
LEMMA EndContract ==
  ASSUME TypeOK, TasksKnowTheirEntry, NEW c \in Caller,
         \/ ScheduleExpiry(c)
         \/ End(c) /\ TaskMove(c) /\ UNCHANGED poolVars /\ task[c].pc \in Parted \cup Unleased
  PROVE  P!ScheduleExpiry(c) \/ P!Finish(c) \/ UNCHANGED P!vars
<1>1. TaskMove(c) /\ End(c)
  BY DEF TaskMove, CallerStep, ScheduleExpiry
<1>2. task'[c].pc = "idle" /\ task'[c].lease = None
  BY <1>1, EndFields DEF NoTask
<1>3. /\ LeasePc' = [LeasePc EXCEPT ![c] = "idle"]
      /\ LeaseEntry' = [LeaseEntry EXCEPT ![c] = None]
  BY <1>1, <1>2, TaskMoves, Places DEF Unleased
<1>4. LeaseManual' = [LeaseManual EXCEPT ![c] = FALSE]
  <2>1. LeaseManual' = [LeaseManual EXCEPT ![c] = task'[c].lease # None /\ task'[c].request.manual]
    BY <1>1, TaskMoves
  <2>2. (task'[c].lease # None /\ task'[c].request.manual) = FALSE
    BY <1>2
  <2> QED BY <2>1, <2>2
<1>5. P!Forget(c)
  BY <1>3, <1>4 DEF P!Forget, P!Goto
<1>6. CASE ScheduleExpiry(c)
  <2>1. LeasePc[c] = "scheduling" /\ LeaseEntry[c] = Lease(c)
    BY <1>6, Places DEF ScheduleExpiry, At, LeasePc, LeaseEntry
  <2>2. (\E t \in Timer : P!Schedule(LeaseEntry[c], t)) \/ P!ScheduleNothing(LeaseEntry[c])
    BY <1>6, <2>1, SameTimers, SameRelease DEF ScheduleExpiry
  <2> QED BY <1>5, <2>1, <2>2 DEF P!ScheduleExpiry
<1>7. CASE UNCHANGED poolVars /\ task[c].pc \in Parted
  <2>1. LeasePc[c] = "dropped"
    BY <1>7, Places DEF LeasePc
  <2> QED BY <1>5, <1>7, <2>1 DEF P!Finish, P!poolVars, poolVars
<1>8. CASE UNCHANGED poolVars /\ task[c].pc \in Unleased
  <2>1. Lease(c) = None /\ task'[c].lease = Lease(c)
    BY <1>2, <1>8 DEF TasksKnowTheirEntry, Lease
  <2>2. LeasePlace(task'[c].pc) = LeasePlace(task[c].pc)
    BY <1>2, <1>8, Places DEF Unleased
  <2>3. LeasePc' = LeasePc /\ LeaseEntry' = LeaseEntry /\ LeaseManual' = LeaseManual
    BY <1>1, <2>1, <2>2, MoveWithin
  <2> QED BY <1>8, <2>3 DEF P!vars, P!poolVars, poolVars
<1> QED BY <1>6, <1>7, <1>8

(* All other steps of a task are none of the pool's business.              *)
Quiet(c) ==
  \/ Start(c) \/ ReserveRefused(c) \/ Sweep(c) \/ Rejected(c) \/ Raise(c)
  \/ CheckValid(c) \/ Leave(c) \/ Sent(c) \/ Interrupted(c) \/ Timeout(c) \/ Drained(c)
  \/ Receive(c) \/ Continue(c) \/ ReceiveCompleted(c) \/ Ended(c) \/ CancelStep(c)

LEMMA QuietContract ==
  ASSUME TypeOK, TasksKnowTheirEntry, NEW c \in Caller, Quiet(c)
  PROVE  P!ScheduleExpiry(c) \/ P!Finish(c) \/ UNCHANGED P!vars
<1>1. TaskMove(c)
  BY DEF Quiet, TaskMove, CallerStep
<1>2. UNCHANGED poolVars
  BY DEF Quiet, Start, ReserveRefused, Sweep, Rejected, Raise, CheckValid, Leave, Sent,
     Interrupted, Timeout, Drained, Receive, Continue, ReceiveCompleted, Ended, CancelStep,
     CancelAcquire, CancelRaise, CancelStream
<1>3. ASSUME task'[c].lease = Lease(c), task'[c].request = task[c].request \/ Lease(c) = None,
             \/ task[c].pc \in Unleased /\ task'[c].pc \in Unleased
             \/ task[c].pc \in Acquiring /\ task'[c].pc \in Acquiring
             \/ task[c].pc \in Opened /\ task'[c].pc \in Opened
             \/ task[c].pc \in Parted /\ task'[c].pc \in Parted
      PROVE  UNCHANGED P!vars
  <2>1. LeasePlace(task'[c].pc) = LeasePlace(task[c].pc)
    BY <1>3, Places
  <2>2. LeasePc' = LeasePc /\ LeaseEntry' = LeaseEntry /\ LeaseManual' = LeaseManual
    BY <1>1, <1>3, <2>1, MoveWithin
  <2> QED BY <1>2, <2>2 DEF P!vars, P!poolVars, poolVars
<1>4. ASSUME NEW p, Goto(c, p) \/ StopIo(c, p) \/ \E error : Fail(c, error, p),
             \/ task[c].pc \in Acquiring /\ p \in Acquiring
             \/ task[c].pc \in Opened /\ p \in Opened
             \/ task[c].pc \in Parted /\ p \in Parted
      PROVE  UNCHANGED P!vars
  <2>1. task'[c].pc = p /\ SameLocals(c)
    BY <1>4, MovedFields
  <2> QED BY <1>3, <1>4, <2>1 DEF SameLocals, Lease
<1>5. CASE End(c) /\ task[c].pc \in Parted \cup Unleased
  BY <1>1, <1>2, <1>5, EndContract
<1>6. CASE Start(c)
  <2>1. task'[c].pc = "reserving" /\ task'[c].lease = None
    BY <1>6 DEF Start, Become, NoTask, TypeOK
  <2> QED BY <1>3, <1>6, <2>1 DEF Start, At, TasksKnowTheirEntry, Unleased, Lease
<1>7. CASE ReserveRefused(c)
  <2>1. CASE task[c].recovered
    <3>1. task[c].pc \in Parted
      BY <1>7, <2>1 DEF ReserveRefused, Reserving, TasksKnowTheirEntry, Unleased, Parted
    <3> QED BY <1>4, <1>7, <2>1, <3>1 DEF ReserveRefused, Parted
  <2>2. CASE ~task[c].recovered
    BY <1>5, <1>7, <2>2 DEF ReserveRefused, Reserving, Unleased, Parted
  <2> QED BY <2>1, <2>2
<1>8. CASE Sweep(c)
  <2>1. ASSUME NEW e \in task[c].garbage,
               Become(c, [task[c] EXCEPT !.pc = "swept", !.garbage = @ \ {e}])
        PROVE  UNCHANGED P!vars
    <3>1. task'[c].pc = "swept" /\ task'[c].lease = Lease(c) /\ task'[c].request = task[c].request
      BY <2>1 DEF Become, TypeOK, TaskRecord, Lease
    <3> QED BY <1>3, <1>8, <3>1 DEF Sweep, Acquiring
  <2> QED BY <1>4, <1>8, <2>1 DEF Sweep, Acquiring
<1>9. CASE Rejected(c)
  BY <1>4, <1>9 DEF Rejected, At, Acquiring
<1>10. CASE Raise(c) \/ Ended(c)
  BY <1>4, <1>5, <1>10 DEF Raise, Ended, Parted
<1>11. CASE CheckValid(c)
  <2>1. ASSUME Become(c, [task[c] EXCEPT !.pc = "sending", !.io = TRUE, !.seen = FALSE])
        PROVE  UNCHANGED P!vars
    <3>1. task'[c].pc = "sending" /\ task'[c].lease = Lease(c) /\ task'[c].request = task[c].request
      BY <2>1 DEF Become, TypeOK, TaskRecord, Lease
    <3> QED BY <1>3, <1>11, <3>1 DEF CheckValid, Opened
  <2> QED BY <1>4, <1>11, <2>1 DEF CheckValid, Opened
<1>12. CASE Leave(c) \/ Sent(c) \/ Interrupted(c) \/ Timeout(c) \/ Drained(c) \/ ReceiveCompleted(c)
  BY <1>4, <1>12 DEF Leave, Sent, Interrupted, Timeout, Drained, ReceiveCompleted, At, Opened
<1>13. CASE Receive(c)
  <2>1. ASSUME NEW output \in BOOLEAN,
               Become(c, [task[c] EXCEPT !.pc = "yielded", !.io = FALSE,
                                         !.seen = @ \/ output, !.delivered = @ \/ output])
        PROVE  UNCHANGED P!vars
    <3>1. task'[c].pc = "yielded" /\ task'[c].lease = Lease(c) /\ task'[c].request = task[c].request
      BY <2>1 DEF Become, TypeOK, TaskRecord, Lease
    <3> QED BY <1>3, <1>13, <3>1 DEF Receive, At, Opened
  <2> QED BY <1>4, <1>13, <2>1 DEF Receive, At, Opened
<1>14. CASE Continue(c)
  <2>1. task'[c].pc = "receiving" /\ task'[c].lease = Lease(c) /\ task'[c].request = task[c].request
    BY <1>14 DEF Continue, Become, TypeOK, TaskRecord, Lease
  <2> QED BY <1>3, <1>14, <2>1 DEF Continue, At, Opened
<1>15. CASE CancelAcquire(c)
  <2>1. task'[c].pc = "failing" /\ task'[c].lease = Lease(c) /\ task'[c].request = task[c].request
    BY <1>15 DEF CancelAcquire, Become, TypeOK, TaskRecord, Lease
  <2> QED BY <1>3, <1>15, <2>1 DEF CancelAcquire, Acquiring
<1>16. CASE CancelRaise(c)
  BY <1>4, <1>5, <1>16 DEF CancelRaise, Parted
<1>17. CASE CancelStream(c)
  BY <1>4, <1>17 DEF CancelStream, At, Opened, Parted
<1> QED BY <1>6, <1>7, <1>8, <1>9, <1>10, <1>11, <1>12, <1>13, <1>14, <1>15, <1>16, <1>17
    DEF Quiet, CancelStep

(* The steps of the timers and of closing tasks are the contract's.        *)
CloserMove(k) == Clear(k) \/ CloserStep(k) \/ CancelClose(k) \/ CancelCleanup(k)

LEMMA EnvironmentContract ==
  ASSUME (\E t \in Timer : TimerStep(t)) \/ (\E k \in Closer : CloserMove(k)) \/ Pass
  PROVE  \/ \E t \in Timer : P!TimerStep(t)
         \/ P!CloseSession \/ P!Close \/ P!Pass \/ UNCHANGED P!vars
<1>1. task' = task
  BY DEF TimerStep, CloserMove, CloserStep, Clear, CloseNext, Gathered, CancelClose,
     CancelCleanup, Pass
<1>2. LeasePc' = LeasePc /\ LeaseEntry' = LeaseEntry /\ LeaseManual' = LeaseManual
  BY <1>1, MapFrame
<1>3. ASSUME NEW t \in Timer, TimerStep(t) PROVE P!TimerStep(t)
  BY <1>2, <1>3, SameTimers DEF TimerStep, P!TimerStep
<1>4. ASSUME NEW k \in Closer, Clear(k) PROVE P!CloseSession \/ P!Close
  BY <1>2, <1>4, SameClears DEF Clear, P!CloseSession, P!Close
<1>5. ASSUME NEW k \in Closer, CloserStep(k) \/ CancelClose(k) PROVE UNCHANGED P!vars
  BY <1>2, <1>5 DEF CloserStep, CloseNext, Gathered, CancelClose, P!vars, P!poolVars, poolVars
<1>6. ASSUME NEW k \in Closer, CancelCleanup(k)
      PROVE  (\E t \in Timer : P!TimerStep(t)) \/ UNCHANGED P!vars
  BY <1>2, <1>6, SameTimers
     DEF CancelCleanup, P!TimerStep, P!vars, P!poolVars, poolVars
<1>7. CASE Pass
  BY <1>2, <1>7, SameClears DEF Pass, P!Pass
<1> QED BY <1>3, <1>4, <1>5, <1>6, <1>7 DEF CloserMove

LEMMA NextCases ==
  ASSUME [Next]_vars
  PROVE  \/ \E c \in Caller : TaskMove(c)
         \/ \E t \in Timer : TimerStep(t)
         \/ \E k \in Closer : CloserMove(k)
         \/ Pass \/ UNCHANGED vars
  BY DEF Next, TaskMove, CloserMove

LEMMA ContractStep ==
  ASSUME TypeOK, TasksKnowTheirEntry, SocketsAreAttached, CompletedIsLatest, PoolFacts, [Next]_vars
  PROVE  [P!Next]_P!vars
<1>1. ASSUME NEW c \in Caller, TaskMove(c)
      PROVE  \/ P!ReserveCached(c) \/ P!ReserveNew(c) \/ P!AttachSocket(c) \/ P!Plan(c)
             \/ P!Keep(c) \/ P!Drop(c) \/ P!ScheduleExpiry(c) \/ P!Finish(c)
             \/ UNCHANGED P!vars
  <2>1. \/ Reserve(c) \/ Connect(c) \/ Plan(c) \/ AcquireFailed(c) \/ ReceiveMissing(c)
        \/ CloseCompleted(c) \/ CloseFailed(c) \/ ScheduleExpiry(c) \/ Quiet(c)
    BY <1>1 DEF TaskMove, CallerStep, CancelStep, Quiet
  <2> QED BY <2>1, ReserveContract, SocketContract, ReleaseContract, EndContract, QuietContract, Zenon
<1>2. CASE (\E t \in Timer : TimerStep(t)) \/ (\E k \in Closer : CloserMove(k)) \/ Pass
  BY <1>2, EnvironmentContract DEF P!Next
<1>3. CASE UNCHANGED vars
  BY <1>3, MapFrame DEF vars, poolVars, P!vars, P!poolVars
<1> QED BY <1>1, <1>2, <1>3, NextCases DEF P!Next

-----------------------------------------------------------------------------
(* Who runs.                                                               *)

(* What a step of a task does to the pool and the sockets.                 *)
LEMMA PoolMoves ==
  ASSUME NEW c \in Caller, TaskMove(c)
  PROVE  \/ Reserve(c) /\ conn' = conn
         \/ UNCHANGED <<poolVars, conn>>
         \/ UNCHANGED poolVars /\ \E f \in task[c].garbage : conn' = Closed({f})
         \/ UNCHANGED poolVars /\ ReceiveCompleted(c)
         \/ Attach(Lease(c)) /\ Connect(c)
         \/ DropBaseline(Lease(c)) /\ Plan(c)
         \/ /\ ReleaseKeep(Lease(c), IsManual(c), conn[Lease(c)]) /\ CloseCompleted(c)
            /\ conn' = conn
         \/ (\E completed, m : ReleaseDrop(Lease(c), completed, m)) /\ conn' = Closed({Lease(c)})
         \/ \E t \in Timer : Schedule(Lease(c), t) /\ ScheduleExpiry(c)
<1>1. CASE Reserve(c) \/ Sweep(c) \/ ReceiveCompleted(c)
  BY <1>1 DEF Reserve, Sweep, ReceiveCompleted, poolVars
<1>2. CASE Quiet(c) /\ ~Sweep(c) /\ ~ReceiveCompleted(c)
  BY <1>2 DEF Quiet, Start, ReserveRefused, Rejected, Raise, CheckValid, Leave, Sent,
     Interrupted, Timeout, Drained, Receive, Continue, Ended, CancelStep,
     CancelAcquire, CancelRaise, CancelStream
<1>3. CASE Connect(c) \/ Plan(c) \/ ScheduleExpiry(c)
  BY <1>3 DEF Connect, Plan, ScheduleExpiry, ScheduleNothing
<1>4. CASE AcquireFailed(c) \/ ReceiveMissing(c) \/ CloseCompleted(c) \/ CloseFailed(c)
  BY <1>4 DEF AcquireFailed, ReceiveMissing, CloseCompleted, CloseFailed
<1> QED BY <1>1, <1>2, <1>3, <1>4 DEF TaskMove, CallerStep, CancelStep, Quiet

(* No step of a task makes a timer due.                                    *)
LEMMA NoNewDue ==
  ASSUME PoolTypeOK, NEW c \in Caller, TaskMove(c), NEW t \in Timer, timers'[t].state = "due"
  PROVE  timers[t].state = "due"
<1>1. ASSUME NEW es, timers' = Cancelled(es) PROVE timers[t].state = "due"
  BY <1>1 DEF Cancelled, FreeTimer
<1>2. CASE Reserve(c)
  BY <1>1, <1>2 DEF Reserve, Reuse, Create
<1>3. CASE UNCHANGED poolVars \/ Attach(Lease(c)) \/ DropBaseline(Lease(c))
           \/ ReleaseKeep(Lease(c), IsManual(c), conn[Lease(c)])
  BY <1>3 DEF poolVars, Attach, DropBaseline, ReleaseKeep
<1>4. CASE \E completed, m : ReleaseDrop(Lease(c), completed, m)
  BY <1>1, <1>4 DEF ReleaseDrop, RemoveEntries
<1>5. ASSUME NEW u \in Timer, Schedule(Lease(c), u) PROVE timers[t].state = "due"
  BY <1>5 DEF PoolTypeOK, Schedule
<1> QED BY <1>2, <1>3, <1>4, <1>5, PoolMoves

(* A task goes on if it runs, or if nobody does; only one that has not     *)
(* asked yet may begin at any time.                                        *)
LEMMA MoverRuns ==
  ASSUME NEW c \in Caller, TaskMove(c)
  PROVE  Running(c) \/ LoopFree \/ Start(c)
<1> USE DEF Running, RunPoint, Scheduled, At
<1>1. CASE Reserve(c) \/ ReserveRefused(c) \/ Sweep(c) \/ Connect(c) \/ Rejected(c) \/ Plan(c)
           \/ AcquireFailed(c) \/ Raise(c)
  BY <1>1 DEF Reserve, ReserveRefused, Reserving, Sweep, Connect, Rejected, Plan, AcquireFailed, Raise
<1>2. CASE CheckValid(c) \/ Leave(c) \/ Sent(c) \/ Interrupted(c) \/ Timeout(c) \/ Drained(c)
           \/ Receive(c) \/ Continue(c) \/ ReceiveCompleted(c) \/ ReceiveMissing(c)
  BY <1>2 DEF CheckValid, Leave, Sent, Interrupted, Timeout, Drained, Receive, Continue,
     ReceiveCompleted, ReceiveMissing
<1>3. CASE CloseCompleted(c) \/ CloseFailed(c) \/ ScheduleExpiry(c) \/ Ended(c) \/ CancelStep(c)
  BY <1>3 DEF CloseCompleted, CloseFailed, ScheduleExpiry, Ended, CancelStep, CancelAcquire,
     CancelRaise, CancelStream
<1> QED BY <1>1, <1>2, <1>3 DEF TaskMove, CallerStep

(* Timers and closing tasks never run while a task does.                   *)
LEMMA EnvironmentWaits ==
  ASSUME RunsAlone,
         (\E t \in Timer : TimerStep(t)) \/ (\E k \in Closer : CloserMove(k)) \/ Pass
  PROVE  /\ task' = task /\ submits' = submits /\ \A c \in Caller : ~Running(c)
<1>1. task' = task /\ submits' = submits
  BY DEF TimerStep, CloserMove, CloserStep, Clear, CloseNext, Gathered, CancelClose,
     CancelCleanup, Pass
<1>2. ASSUME NEW t \in Timer, TimerStep(t) PROVE \A c \in Caller : ~Running(c)
  BY <1>2 DEF TimerStep, Expire, LoopFree, RunsAlone
<1>3. ASSUME NEW k \in Closer, CloserMove(k) PROVE \A c \in Caller : ~Running(c)
  BY <1>3 DEF CloserMove, CloserStep, Clear, CloseNext, Gathered, CancelClose, CancelCleanup,
     LoopFree, RunsAlone
<1>4. CASE Pass
  BY <1>4 DEF Pass, LoopFree
<1> QED BY <1>1, <1>2, <1>3, <1>4

LEMMA OthersKeep ==
  ASSUME TypeOK, TasksKnowTheirEntry, NEW c \in Caller, TaskMove(c)
  PROVE  /\ \A d \in Caller \ {c} : task'[d] = task[d] /\ submits'[d] = submits[d]
         /\ closer' = closer
<1>1. \A d \in Caller \ {c} : task'[d] = task[d]
  BY OthersStay DEF TaskMove
<1>2. \A d \in Caller \ {c} : submits'[d] = submits[d]
  <2>1. CASE CheckValid(c)
    BY <2>1 DEF CheckValid, TypeOK
  <2>2. CASE ~CheckValid(c)
    <3>1. submits' = submits \/ submits' = [submits EXCEPT ![c] = 0]
      BY <2>2 DEF TaskMove, CallerStep, CancelStep, Start, Reserve, ReserveRefused, Sweep, Connect,
         Rejected, Plan, AcquireFailed, Raise, Leave, Sent, Interrupted, Timeout, Drained,
         Receive, Continue, ReceiveCompleted, ReceiveMissing, CloseCompleted, CloseFailed,
         ScheduleExpiry, Ended, CancelAcquire, CancelRaise, CancelStream, End, Finish, Forget
    <3> QED BY <3>1 DEF TypeOK
  <2> QED BY <2>1, <2>2
<1>3. closer' = closer
  BY DEF TaskMove, CallerStep, CancelStep, Start, Reserve, ReserveRefused, Sweep, Connect, Rejected,
     Plan, AcquireFailed, Raise, CheckValid, Leave, Sent, Interrupted, Timeout, Drained,
     Receive, Continue, ReceiveCompleted, ReceiveMissing, CloseCompleted, CloseFailed,
     ScheduleExpiry, Ended, CancelAcquire, CancelRaise, CancelStream
<1> QED BY <1>1, <1>2, <1>3

LEMMA RunsAloneStep ==
  ASSUME TypeOK, TasksKnowTheirEntry, RunsAlone, [Next]_vars
  PROVE  RunsAlone'
<1>1. ASSUME NEW c \in Caller, TaskMove(c) PROVE RunsAlone'
  <2>1. /\ \A d \in Caller \ {c} : Running(d)' <=> Running(d)
        /\ closer' = closer
    BY <1>1, OthersKeep DEF Running
  <2>2. \A t \in Timer : timers'[t].state = "due" => timers[t].state = "due"
    BY <1>1, NoNewDue DEF TypeOK
  <2>3. CASE Running(c) \/ LoopFree
    <3>1. /\ \A d \in Caller \ {c} : ~Running(d)
          /\ \A t \in Timer : timers[t].state # "due"
          /\ \A k \in Closer : closer[k].pc \notin {"clearing", "cancelling"}
      BY <2>3 DEF RunsAlone, LoopFree
    <3> QED BY <2>1, <2>2, <3>1 DEF RunsAlone
  <2>4. CASE Start(c)
    <3>1. ~Running(c)'
      BY <2>4 DEF Start, Become, NoTask, Running, RunPoint, TypeOK
    <3> QED BY <2>1, <2>2, <3>1 DEF RunsAlone
  <2> QED BY <1>1, <2>3, <2>4, MoverRuns
<1>2. CASE (\E t \in Timer : TimerStep(t)) \/ (\E k \in Closer : CloserMove(k)) \/ Pass
  BY <1>2, EnvironmentWaits DEF RunsAlone, Running
<1>3. CASE UNCHANGED vars
  BY <1>3 DEF vars, poolVars, RunsAlone, Running
<1> QED BY <1>1, <1>2, <1>3, NextCases

-----------------------------------------------------------------------------
(* What a task knows of its entry, and how often it has submitted.         *)
Knows(c) ==
  /\ task[c].request = None <=> At(c, "idle")
  /\ task[c].lease = None <=> task[c].pc \in Unleased
  /\ task[c].pc \in Unleased => ~task[c].recovered
  /\ At(c, "recovering") => task[c].recovered
  /\ task[c].garbage # {} => task[c].pc \in {"sweeping", "swept"}
  /\ task[c].io => task[c].pc \in {"sending", "receiving", "draining"}

Counts(c) ==
  /\ submits[c] <= (IF task[c].recovered THEN 1 ELSE 0)
                     + (IF task[c].pc \in Unsent THEN 0 ELSE 1)
  /\ task[c].pc \in Unsent \cup {"sending"} => ~task[c].delivered
  /\ task[c].pc \in {"receiving", "yielded"} /\ task[c].delivered => task[c].seen
  /\ At(c, "sse") => ~task[c].recovered /\ task[c].failure = "ConnectFailure"

LEMMA KnowsOwn ==
  ASSUME TypeOK, TasksKnowTheirEntry, NEW c \in Caller, TaskMove(c)
  PROVE  Knows(c)'
<1> USE DEF Knows, At, Unleased
<1>1. Knows(c) /\ task[c] \in TaskRecord
  BY DEF TasksKnowTheirEntry, TypeOK
<1>2. ASSUME NEW p, Goto(c, p) \/ \E error : Fail(c, error, p),
             task[c].pc \notin Unleased, p \notin Unleased,
             p = "recovering" => task[c].recovered,
             p \in {"sweeping", "swept"} \/ task[c].garbage = {},
             p \in {"sending", "receiving", "draining"} \/ ~task[c].io
      PROVE  Knows(c)'
  <2>1. task'[c].pc = p /\ SameLocals(c) /\ task'[c].io = task[c].io
    BY <1>2, MovedFields
  <2> QED BY <1>1, <1>2, <2>1 DEF SameLocals
<1>3. ASSUME NEW p, StopIo(c, p), task[c].pc \notin Unleased \cup {"sweeping", "swept"},
             p \notin Unleased \cup {"recovering"}
      PROVE  Knows(c)'
  <2>1. task'[c].pc = p /\ SameLocals(c) /\ ~task'[c].io
    BY <1>3, MovedFields
  <2> QED BY <1>1, <1>3, <2>1 DEF SameLocals
<1>4. CASE End(c)
  <2>1. task'[c] = NoTask
    BY <1>4, EndFields
  <2> QED BY <2>1 DEF NoTask
<1>5. CASE Finish(c) /\ task[c].pc \notin Unleased
  <2>1. /\ task'[c].pc = "closing" /\ task'[c].lease = Lease(c)
        /\ task'[c].request = task[c].request /\ task'[c].garbage = {}
        /\ ~task'[c].recovered /\ ~task'[c].io
    BY <1>5, EndFields
  <2> QED BY <1>1, <1>5, <2>1 DEF Lease
<1>6. CASE Start(c)
  <2>1. PICK r \in Request : task'[c] = [NoTask EXCEPT !.pc = "reserving", !.request = r]
    BY <1>6 DEF Start, Become, TypeOK
  <2>2. r # None
    BY TaskAssumption DEF TaskAssumption
  <2> QED BY <2>1, <2>2 DEF NoTask
<1>7. CASE Reserve(c)
  <2>1. PICK e, es : e \in Entry /\ Reserved(c, e, es)
    BY <1>7 DEF Reserve
  <2>2. /\ task'[c].pc = "sweeping" /\ task'[c].lease = e /\ task'[c].request = task[c].request
        /\ task'[c].io = task[c].io
    BY <1>1, <2>1 DEF Reserved, Become, TypeOK, TaskRecord
  <2>3. e # None
    BY <2>1, NoneAssumption DEF NoneAssumption
  <2> QED BY <1>1, <1>7, <2>2, <2>3 DEF Reserve, Reserving
<1>8. CASE ReserveRefused(c)
  BY <1>1, <1>2, <1>4, <1>8 DEF ReserveRefused, Reserving
<1>9. CASE Sweep(c)
  <2>1. ASSUME NEW e \in task[c].garbage,
               Become(c, [task[c] EXCEPT !.pc = "swept", !.garbage = @ \ {e}])
        PROVE  Knows(c)'
    <3>1. /\ task'[c].pc = "swept" /\ task'[c].lease = task[c].lease
          /\ task'[c].request = task[c].request /\ task'[c].io = task[c].io
      BY <1>1, <2>1 DEF Become, TypeOK, TaskRecord
    <3> QED BY <1>1, <1>9, <3>1 DEF Sweep
  <2>2. CASE task[c].garbage = {} /\ \E p \in {"planning", "connecting"} : Goto(c, p)
    BY <1>1, <1>2, <1>9, <2>2 DEF Sweep
  <2>3. CASE task[c].garbage = {} /\ Goto(c, IF entry[Lease(c)].attached THEN "planning" ELSE "connecting")
    BY <2>2, <2>3
  <2> QED BY <1>9, <2>1, <2>3 DEF Sweep
<1>10. CASE Connect(c) \/ Rejected(c) \/ AcquireFailed(c)
  <2>1. task[c].garbage = {} /\ ~task[c].io /\ task[c].pc \notin Unleased
    BY <1>1, <1>10 DEF Connect, Rejected, AcquireFailed
  <2>2. \E p \in {"planning", "rejecting", "failing", "failed", "refused"} :
          Goto(c, p) \/ \E error : Fail(c, error, p)
    BY <1>10 DEF Connect, Rejected, AcquireFailed
  <2> QED BY <1>2, <2>1, <2>2
<1>11. CASE Raise(c)
  BY <1>1, <1>2, <1>4, <1>11 DEF Raise
<1>12. CASE Plan(c)
  <2>1. PICK f : Planned(c, f)
    BY <1>12 DEF Plan
  <2>2. /\ task'[c].pc \in {"checking", "ready"} /\ task'[c].lease = task[c].lease
        /\ task'[c].request = task[c].request /\ task'[c].io = task[c].io
        /\ task'[c].garbage = task[c].garbage
    BY <1>1, <2>1 DEF Planned, Become, TypeOK, TaskRecord
  <2> QED BY <1>1, <1>12, <2>2 DEF Plan
<1>13. CASE CheckValid(c)
  <2>1. ASSUME Become(c, [task[c] EXCEPT !.pc = "sending", !.io = TRUE, !.seen = FALSE])
        PROVE  Knows(c)'
    <3>1. /\ task'[c].pc = "sending" /\ task'[c].lease = task[c].lease
          /\ task'[c].request = task[c].request /\ task'[c].garbage = task[c].garbage
      BY <1>1, <2>1 DEF Become, TypeOK, TaskRecord
    <3> QED BY <1>1, <1>13, <3>1 DEF CheckValid
  <2> QED BY <1>1, <1>2, <1>13, <2>1 DEF CheckValid
<1>14. CASE Leave(c) \/ Sent(c) \/ Timeout(c) \/ CancelStream(c)
  BY <1>1, <1>2, <1>14 DEF Leave, Sent, Timeout, CancelStream
<1>15. CASE Interrupted(c) \/ Drained(c) \/ ReceiveCompleted(c)
  BY <1>1, <1>3, <1>15 DEF Interrupted, Drained, ReceiveCompleted
<1>16. CASE Receive(c)
  <2>1. ASSUME NEW output \in BOOLEAN,
               Become(c, [task[c] EXCEPT !.pc = "yielded", !.io = FALSE,
                                         !.seen = @ \/ output, !.delivered = @ \/ output])
        PROVE  Knows(c)'
    <3>1. /\ task'[c].pc = "yielded" /\ task'[c].lease = task[c].lease /\ ~task'[c].io
          /\ task'[c].request = task[c].request /\ task'[c].garbage = task[c].garbage
      BY <1>1, <2>1 DEF Become, TypeOK, TaskRecord
    <3> QED BY <1>1, <1>16, <3>1 DEF Receive
  <2> QED BY <1>1, <1>3, <1>16, <2>1 DEF Receive
<1>17. CASE Continue(c)
  <2>1. /\ task'[c].pc = "receiving" /\ task'[c].lease = task[c].lease
        /\ task'[c].request = task[c].request /\ task'[c].garbage = task[c].garbage
    BY <1>1, <1>17 DEF Continue, Become, TypeOK, TaskRecord
  <2> QED BY <1>1, <1>17, <2>1 DEF Continue
<1>18. CASE ReceiveMissing(c)
  <2>1. ASSUME Become(c, [task[c] EXCEPT !.pc = "recovering", !.io = FALSE, !.recovered = TRUE])
        PROVE  Knows(c)'
    <3>1. /\ task'[c].pc = "recovering" /\ task'[c].lease = task[c].lease /\ ~task'[c].io
          /\ task'[c].request = task[c].request /\ task'[c].garbage = task[c].garbage
          /\ task'[c].recovered
      BY <1>1, <2>1 DEF Become, TypeOK, TaskRecord
    <3> QED BY <1>1, <1>18, <3>1 DEF ReceiveMissing
  <2> QED BY <1>1, <1>3, <1>18, <2>1 DEF ReceiveMissing
<1>19. CASE CloseCompleted(c) \/ CloseFailed(c)
  BY <1>1, <1>2, <1>5, <1>19 DEF CloseCompleted, CloseFailed
<1>20. CASE ScheduleExpiry(c) \/ Ended(c)
  BY <1>4, <1>20 DEF ScheduleExpiry, Ended
<1>21. CASE CancelAcquire(c)
  <2>1. /\ task'[c].pc = "failing" /\ task'[c].lease = task[c].lease
        /\ task'[c].request = task[c].request /\ task'[c].garbage = {} /\ task'[c].io = task[c].io
    BY <1>1, <1>21 DEF CancelAcquire, Become, TypeOK, TaskRecord
  <2> QED BY <1>1, <1>21, <2>1 DEF CancelAcquire
<1>22. CASE CancelRaise(c)
  BY <1>1, <1>2, <1>4, <1>22 DEF CancelRaise
<1> QED BY <1>6, <1>7, <1>8, <1>9, <1>10, <1>11, <1>12, <1>13, <1>14, <1>15, <1>16, <1>17, <1>18,
           <1>19, <1>20, <1>21, <1>22 DEF TaskMove, CallerStep, CancelStep

LEMMA KnowStep ==
  ASSUME TypeOK, RunsAlone, TasksKnowTheirEntry, [Next]_vars
  PROVE  TasksKnowTheirEntry'
<1>1. ASSUME NEW c \in Caller, TaskMove(c) PROVE \A d \in Caller : Knows(d)'
  <2>1. \A d \in Caller \ {c} : Knows(d)' <=> Knows(d)
    BY <1>1, OthersKeep DEF Knows, At
  <2> QED BY <1>1, <2>1, KnowsOwn DEF TasksKnowTheirEntry, Knows
<1>2. CASE task' = task
  BY <1>2 DEF TasksKnowTheirEntry, Knows, At
<1>3. (\E c \in Caller : TaskMove(c)) \/ task' = task
  BY NextCases, EnvironmentWaits DEF vars
<1> QED BY <1>1, <1>2, <1>3 DEF TasksKnowTheirEntry, Knows

LEMMA CountsOwn ==
  ASSUME TypeOK, TasksKnowTheirEntry, SubmissionsAreCounted, NEW c \in Caller, TaskMove(c)
  PROVE  Counts(c)'
<1> USE DEF Counts, At, Unsent, Unleased, Acquiring
<1>1. /\ Counts(c) /\ task[c] \in TaskRecord /\ submits[c] \in 0..2
      /\ task[c].pc \in Unleased => ~task[c].recovered
  BY DEF SubmissionsAreCounted, TypeOK, TasksKnowTheirEntry
<1>unsent. ASSUME NEW p \in Unsent \ {"sse"}, Goto(c, p) \/ StopIo(c, p) \/ \E error : Fail(c, error, p),
             submits' = submits, task[c].pc \in Unsent
      PROVE  Counts(c)'
  <2>1. task'[c].pc = p /\ SameLocals(c)
    BY <1>unsent, MovedFields
  <2> QED BY <1>1, <1>unsent, <2>1 DEF SameLocals
<1>ending. ASSUME NEW p \in {"draining", "finishing", "refinishing", "completed", "scheduling"},
              Goto(c, p) \/ StopIo(c, p) \/ \E error : Fail(c, error, p), submits' = submits
       PROVE  Counts(c)'
  <2>1. task'[c].pc = p /\ SameLocals(c)
    BY <1>ending, MovedFields
  <2> QED BY <1>1, <1>ending, <2>1 DEF SameLocals
<1>3. CASE End(c)
  <2>1. task'[c] = NoTask /\ submits'[c] = 0
    BY <1>3, EndFields DEF TypeOK
  <2> QED BY <2>1 DEF NoTask
<1>4. CASE Finish(c)
  <2>1. task'[c].pc = "closing" /\ submits'[c] = 0
    BY <1>4, EndFields DEF TypeOK
  <2> QED BY <2>1
<1>5. CASE Start(c)
  <2>1. PICK r \in Request : task'[c] = [NoTask EXCEPT !.pc = "reserving", !.request = r]
    BY <1>5 DEF Start, Become, TypeOK
  <2> QED BY <1>1, <1>5, <2>1 DEF Start, NoTask
<1>6. CASE Reserve(c)
  <2>1. PICK e, es : e \in Entry /\ Reserved(c, e, es)
    BY <1>6 DEF Reserve
  <2>2. /\ task'[c].pc = "sweeping"
        /\ task'[c].recovered = task[c].recovered /\ task'[c].delivered = task[c].delivered
    BY <1>1, <2>1 DEF Reserved, Become, TypeOK, TaskRecord
  <2> QED BY <1>1, <1>6, <2>2 DEF Reserve, Reserving
<1>7. CASE ReserveRefused(c)
  BY <1>1, <1>3, <1>7, <1>ending DEF ReserveRefused, Reserving
<1>8. CASE Sweep(c)
  <2>1. ASSUME NEW e \in task[c].garbage,
               Become(c, [task[c] EXCEPT !.pc = "swept", !.garbage = @ \ {e}])
        PROVE  Counts(c)'
    <3>1. /\ task'[c].pc = "swept"
          /\ task'[c].recovered = task[c].recovered /\ task'[c].delivered = task[c].delivered
      BY <1>1, <2>1 DEF Become, TypeOK, TaskRecord
    <3> QED BY <1>1, <1>8, <3>1 DEF Sweep
  <2>2. \A p \in {"planning", "connecting"} : Goto(c, p) /\ submits' = submits => Counts(c)'
    BY <1>unsent, <1>8 DEF Sweep
  <2> QED BY <1>8, <2>1, <2>2 DEF Sweep
<1>9. CASE Connect(c) \/ Rejected(c) \/ AcquireFailed(c)
  <2>1. task[c].pc \in Unsent /\ submits' = submits
    BY <1>9 DEF Connect, Rejected, AcquireFailed
  <2>2. \E p \in {"planning", "rejecting", "failing", "failed", "refused"} :
          Goto(c, p) \/ \E error : Fail(c, error, p)
    BY <1>9 DEF Connect, Rejected, AcquireFailed
  <2> QED BY <1>unsent, <2>1, <2>2
<1>10. CASE Raise(c)
  <2>1. CASE /\ Goto(c, "sse") /\ submits' = submits
             /\ task[c].failure = "ConnectFailure" /\ ~task[c].recovered
    <3>1. task'[c].pc = "sse" /\ task'[c].failure = task[c].failure /\ SameLocals(c)
      BY <2>1, MovedFields
    <3> QED BY <1>1, <1>10, <2>1, <3>1 DEF Raise, SameLocals
  <2> QED BY <1>3, <1>10, <1>ending, <2>1 DEF Raise
<1>11. CASE Plan(c)
  <2>1. PICK f : Planned(c, f)
    BY <1>11 DEF Plan
  <2>2. /\ task'[c].pc \in {"checking", "ready"}
        /\ task'[c].recovered = task[c].recovered /\ task'[c].delivered = task[c].delivered
    BY <1>1, <2>1 DEF Planned, Become, TypeOK, TaskRecord
  <2> QED BY <1>1, <1>11, <2>2 DEF Plan
<1>12. CASE CheckValid(c)
  <2>1. ASSUME Become(c, [task[c] EXCEPT !.pc = "sending", !.io = TRUE, !.seen = FALSE]),
               submits' = [submits EXCEPT ![c] = @ + 1]
        PROVE  Counts(c)'
    <3>1. /\ task'[c].pc = "sending"
          /\ task'[c].recovered = task[c].recovered /\ task'[c].delivered = task[c].delivered
      BY <1>1, <2>1 DEF Become, TypeOK, TaskRecord
    <3>2. submits'[c] = submits[c] + 1
      BY <2>1 DEF TypeOK
    <3> QED BY <1>1, <1>12, <3>1, <3>2 DEF CheckValid
  <2> QED BY <1>12, <1>ending, <2>1 DEF CheckValid
<1>13. CASE Leave(c) \/ Sent(c) \/ Timeout(c) \/ CancelStream(c) \/ Interrupted(c) \/ Drained(c)
            \/ ReceiveCompleted(c)
  <2>1. CASE Sent(c)
    <3>1. task'[c].pc = "receiving" /\ SameLocals(c)
      BY <2>1, MovedFields DEF Sent
    <3> QED BY <1>1, <2>1, <3>1 DEF Sent, SameLocals
  <2> QED BY <1>13, <1>ending, <2>1 DEF Leave, Timeout, CancelStream, Interrupted, Drained, ReceiveCompleted
<1>14. CASE Receive(c)
  <2>1. ASSUME NEW output \in BOOLEAN,
               Become(c, [task[c] EXCEPT !.pc = "yielded", !.io = FALSE,
                                         !.seen = @ \/ output, !.delivered = @ \/ output])
        PROVE  Counts(c)'
    <3>1. /\ task'[c].pc = "yielded" /\ task'[c].recovered = task[c].recovered
          /\ task'[c].delivered = (task[c].delivered \/ output) /\ task'[c].seen = (task[c].seen \/ output)
      BY <1>1, <2>1 DEF Become, TypeOK, TaskRecord
    <3> QED BY <1>1, <1>14, <3>1 DEF Receive
  <2> QED BY <1>14, <1>ending, <2>1 DEF Receive
<1>15. CASE Continue(c)
  <2>1. /\ task'[c].pc = "receiving" /\ task'[c].recovered = task[c].recovered
        /\ task'[c].delivered = task[c].delivered /\ task'[c].seen = task[c].seen
    BY <1>1, <1>15 DEF Continue, Become, TypeOK, TaskRecord
  <2> QED BY <1>1, <1>15, <2>1 DEF Continue
<1>16. CASE ReceiveMissing(c)
  <2>1. ASSUME Become(c, [task[c] EXCEPT !.pc = "recovering", !.io = FALSE, !.recovered = TRUE]),
               Recoverable(c)
        PROVE  Counts(c)'
    <3>1. /\ task'[c].pc = "recovering" /\ task'[c].recovered /\ ~task[c].recovered
          /\ task'[c].delivered = task[c].delivered /\ ~task[c].seen
      BY <1>1, <2>1 DEF Recoverable, Become, TypeOK, TaskRecord
    <3> QED BY <1>1, <1>16, <3>1 DEF ReceiveMissing
  <2> QED BY <1>16, <1>ending, <2>1 DEF ReceiveMissing
<1>17. CASE CloseCompleted(c) \/ CloseFailed(c)
  BY <1>4, <1>17, <1>ending DEF CloseCompleted, CloseFailed
<1>18. CASE ScheduleExpiry(c) \/ Ended(c)
  BY <1>3, <1>18 DEF ScheduleExpiry, Ended
<1>19. CASE CancelAcquire(c)
  <2>1. /\ task'[c].pc = "failing"
        /\ task'[c].recovered = task[c].recovered /\ task'[c].delivered = task[c].delivered
    BY <1>1, <1>19 DEF CancelAcquire, Become, TypeOK, TaskRecord
  <2> QED BY <1>1, <1>19, <2>1 DEF CancelAcquire
<1>20. CASE CancelRaise(c)
  BY <1>3, <1>20, <1>ending DEF CancelRaise
<1> QED BY <1>5, <1>6, <1>7, <1>8, <1>9, <1>10, <1>11, <1>12, <1>13, <1>14, <1>15, <1>16, <1>17,
           <1>18, <1>19, <1>20 DEF TaskMove, CallerStep, CancelStep

LEMMA CountStep ==
  ASSUME TypeOK, RunsAlone, TasksKnowTheirEntry, SubmissionsAreCounted, [Next]_vars
  PROVE  SubmissionsAreCounted'
<1>1. ASSUME NEW c \in Caller, TaskMove(c) PROVE \A d \in Caller : Counts(d)'
  <2>1. \A d \in Caller \ {c} : Counts(d)' <=> Counts(d)
    BY <1>1, OthersKeep DEF Counts, At
  <2> QED BY <1>1, <2>1, CountsOwn DEF SubmissionsAreCounted, Counts
<1>2. CASE task' = task /\ submits' = submits
  BY <1>2 DEF SubmissionsAreCounted, Counts, At
<1>3. (\E c \in Caller : TaskMove(c)) \/ (task' = task /\ submits' = submits)
  BY NextCases, EnvironmentWaits DEF vars
<1> QED BY <1>1, <1>2, <1>3 DEF SubmissionsAreCounted, Counts

-----------------------------------------------------------------------------
(* Sockets.  What a step of a task other than a reserve does to the pool   *)
(* and the connections, as far as sockets and conversations go.            *)
LEMMA ClosedIsNone ==
  ASSUME TypeOK, SocketsAreAttached, NEW es, NEW f \in Entry
  PROVE  /\ f \in es => Closed(es)[f] = None
         /\ f \notin es => Closed(es)[f] = conn[f]
  BY DEF TypeOK, SocketsAreAttached, Closed, WithSocket

Opens(c, f) ==
  /\ f = Lease(c) /\ entry'[f].attached
  /\ \/ At(c, "connecting") /\ conn'[f] = 0 /\ f \in active /\ task'[c].pc = "planning"
     \/ At(c, "receiving") /\ conn[f] # None

RemovesOwn(c) ==
  /\ active' \subseteq active
  /\ \A f \in active \ active' : f = Lease(c) /\ conn'[f] = None

AttachesOwn(c) ==
  \A f \in Entry : \/ entry'[f].attached = entry[f].attached
                   \/ Opens(c, f) /\ At(c, "connecting")

ConnectsOwn(c) ==
  \A f \in Entry : \/ conn'[f] = conn[f] \/ Opens(c, f)
                   \/ conn'[f] = None /\ f \notin active'

PlansOwn(c) ==
  \A f \in active' : \/ entry'[f].base = entry[f].base
                     \/ f = Lease(c) /\ entry'[f].base = None
                     \/ f = Lease(c) /\ At(c, "completed") /\ entry'[f].base = conn'[f]

LEMMA MoveUse ==
  ASSUME TypeOK, PoolFacts, TasksKnowTheirEntry, GoneForGood, SocketsAreAttached,
         CompletedIsLatest, NEW c \in Caller, TaskMove(c), ~Reserve(c)
  PROVE  DisposingStays /\ RemovesOwn(c) /\ AttachesOwn(c) /\ ConnectsOwn(c) /\ PlansOwn(c)
<1> DEFINE e == Lease(c)
<1>1. PoolTypeOK /\ active \subseteq Entry
  BY DEF PoolFacts, PoolTypeOK
<1>2. task[c].pc \notin Unleased => e \in Entry
  BY DEF TasksKnowTheirEntry, TypeOK, TaskRecord, Lease
<1>active. ASSUME active' = active PROVE RemovesOwn(c)
  BY <1>active DEF RemovesOwn
<1>attached. ASSUME AttachedStays PROVE AttachesOwn(c)
  BY <1>attached DEF AttachedStays, AttachesOwn
<1>conn. ASSUME conn' = conn PROVE ConnectsOwn(c)
  BY <1>conn DEF ConnectsOwn
<1>bases. ASSUME \A f \in active' : entry'[f].base = entry[f].base PROVE PlansOwn(c)
  BY <1>bases DEF PlansOwn
<1>pool. ASSUME UNCHANGED poolVars
      PROVE  DisposingStays /\ RemovesOwn(c) /\ AttachesOwn(c) /\ PlansOwn(c)
  BY <1>pool, <1>active, <1>attached, <1>bases DEF poolVars, DisposingStays, AttachedStays
<1>3. CASE UNCHANGED <<poolVars, conn>>
  BY <1>3, <1>conn, <1>pool
<1>4. ASSUME NEW f \in task[c].garbage, UNCHANGED poolVars, conn' = Closed({f})
      PROVE  ConnectsOwn(c)
  <2>1. f \notin active /\ active' = active
    BY <1>4 DEF GoneForGood, poolVars
  <2>2. \A g \in Entry : conn'[g] = conn[g] \/ (conn'[g] = None /\ g \notin active')
    BY <1>4, <2>1, ClosedIsNone
  <2> QED BY <2>2 DEF ConnectsOwn
<1>5. CASE UNCHANGED poolVars /\ \E f \in task[c].garbage : conn' = Closed({f})
  BY <1>4, <1>5, <1>pool
<1>6. CASE UNCHANGED poolVars /\ ReceiveCompleted(c)
  <2>1. e \in Entry /\ At(c, "receiving") /\ conn[e] # None /\ entry[e].attached
    BY <1>2, <1>6 DEF ReceiveCompleted, At, Unleased, SocketsAreAttached
  <2>2. \A f \in Entry \ {e} : conn'[f] = conn[f]
    BY <1>6 DEF ReceiveCompleted, TypeOK
  <2>3. Opens(c, e)
    BY <1>6, <2>1 DEF Opens, poolVars
  <2> HIDE DEF e
  <2>4. ConnectsOwn(c)
    BY <2>2, <2>3 DEF ConnectsOwn
  <2> QED BY <1>6, <1>pool, <2>4
<1>7. CASE Attach(e) /\ Connect(c)
  <2>1. e \in Entry /\ At(c, "connecting") /\ ~entry[e].attached
    BY <1>2, <1>7 DEF Connect, At, Unleased, SocketsAreAttached
  <2>2. /\ entry'[e].attached /\ SameUse(e)
        /\ \A f \in Entry \ {e} : entry'[f] = entry[f]
        /\ active' = active /\ DisposingStays /\ entry[e].valid
    BY <1>1, <1>7, <2>1, AttachUse
  <2>3. conn' = [conn EXCEPT ![e] = 0] /\ Goto(c, "planning")
    <3>1. entry' # entry /\ entry[e].valid
      BY <2>1, <2>2
    <3> QED BY <1>7, <3>1 DEF Connect, poolVars
  <2>4. conn'[e] = 0 /\ \A f \in Entry \ {e} : conn'[f] = conn[f]
    BY <2>1, <2>3 DEF TypeOK
  <2>5. task'[c].pc = "planning" /\ e \in active
    BY <2>1, <2>2, <2>3, MovedFields DEF PoolFacts
  <2>6. Opens(c, e)
    BY <2>1, <2>2, <2>4, <2>5 DEF Opens
  <2> HIDE DEF e
  <2>7. AttachesOwn(c)
    BY <2>1, <2>2, <2>6 DEF AttachesOwn
  <2>8. ConnectsOwn(c)
    BY <2>4, <2>6 DEF ConnectsOwn
  <2>9. \A f \in active' : entry'[f].base = entry[f].base
    BY <1>1, <2>2 DEF SameUse
  <2> QED BY <1>active, <1>bases, <2>2, <2>7, <2>8, <2>9
<1>8. CASE DropBaseline(e) /\ Plan(c)
  <2>1. e \in Entry
    BY <1>2, <1>8 DEF Plan, At, Unleased
  <2>2. /\ entry'[e].base = None /\ \A f \in Entry \ {e} : entry'[f] = entry[f]
        /\ active' = active /\ AttachedStays /\ DisposingStays
    BY <1>1, <1>8, <2>1, DropUse
  <2>3. conn' = conn
    BY <1>8 DEF Plan
  <2>4. PlansOwn(c)
    <3> HIDE DEF e
    <3>1. \A f \in active' : f = e \/ entry'[f].base = entry[f].base
      BY <1>1, <2>2
    <3> QED BY <2>2, <3>1 DEF PlansOwn, e
  <2> QED BY <1>active, <1>attached, <1>conn, <2>2, <2>3, <2>4
<1>9. CASE ReleaseKeep(e, IsManual(c), conn[e]) /\ CloseCompleted(c) /\ conn' = conn
  <2>1. e \in Entry /\ At(c, "completed")
    BY <1>2, <1>9 DEF CloseCompleted, At, Unleased
  <2>2. e \in active /\ IsManual(c) \in BOOLEAN
    <3>1. task[c].request \in Request
      BY <2>1 DEF TasksKnowTheirEntry, At, TypeOK, TaskRecord
    <3> QED BY <1>9, <2>1, <3>1, TaskAssumption DEF ReleaseKeep, Keeps, PoolFacts, IsManual,
          TaskAssumption
  <2>3. conn[e] \in Baseline
    BY <2>1, <2>2 DEF CompletedIsLatest
  <2>4. /\ entry'[e].base = conn[e] /\ \A f \in Entry \ {e} : entry'[f] = entry[f]
        /\ active' = active /\ AttachedStays /\ DisposingStays
    BY <1>1, <1>9, <2>1, <2>2, <2>3, KeepUse
  <2>5. PlansOwn(c)
    <3> HIDE DEF e
    <3>1. \A f \in active' : f = e \/ entry'[f].base = entry[f].base
      BY <1>1, <2>4
    <3>2. entry'[e].base = conn'[e]
      BY <1>9, <2>4
    <3> QED BY <2>1, <3>1, <3>2 DEF PlansOwn, e
  <2> QED BY <1>9, <1>active, <1>attached, <1>conn, <2>4, <2>5
<1>10. CASE (\E completed, m : ReleaseDrop(e, completed, m)) /\ conn' = Closed({e})
  <2>1. RemoveEntries({e})
    BY <1>10 DEF ReleaseDrop
  <2>2. /\ active' = active \ {e} /\ AttachedStays /\ DisposingStays
        /\ \A f \in active' : SameUse(f)
    BY <1>1, <2>1, RemoveUse
  <2>3. \A f \in Entry : IF f = e THEN conn'[f] = None ELSE conn'[f] = conn[f]
    BY <1>10, ClosedIsNone
  <2>4. RemovesOwn(c)
    BY <1>1, <2>2, <2>3 DEF RemovesOwn
  <2>5. ConnectsOwn(c)
    BY <2>2, <2>3 DEF ConnectsOwn
  <2>6. PlansOwn(c)
    BY <1>bases, <2>2 DEF SameUse
  <2> QED BY <1>attached, <2>2, <2>4, <2>5, <2>6
<1>11. ASSUME NEW t \in Timer, Schedule(e, t), ScheduleExpiry(c)
       PROVE  /\ active' = active /\ AttachedStays /\ DisposingStays
              /\ \A f \in active' : SameUse(f)
              /\ conn' = conn
  <2>1. e \in Entry
    BY <1>2, <1>11 DEF ScheduleExpiry, At, Unleased
  <2> QED BY <1>1, <1>11, <2>1, ScheduleUse DEF ScheduleExpiry
<1>12. CASE \E t \in Timer : Schedule(e, t) /\ ScheduleExpiry(c)
  <2>1. /\ active' = active /\ AttachedStays /\ DisposingStays
        /\ \A f \in active' : entry'[f].base = entry[f].base
        /\ conn' = conn
    BY <1>11, <1>12 DEF SameUse
  <2> QED BY <1>active, <1>attached, <1>conn, <1>bases, <2>1
<1> QED BY <1>3, <1>5, <1>6, <1>7, <1>8, <1>9, <1>10, <1>12, PoolMoves

(* What a reserve does: it removes entries to sweep, and leases one that   *)
(* keeps its socket and baseline, or a new one without either.             *)
Reuses == AttachedStays /\ active' \subseteq active /\ \A f \in active' : entry'[f].base = entry[f].base

Creates(e) ==
  /\ Unused(e) /\ ~entry'[e].attached /\ entry'[e].base = None
  /\ \A f \in Entry \ {e} : entry'[f].attached = entry[f].attached
  /\ \A f \in active' \ {e} : entry'[f].base = entry[f].base

LEMMA ReserveUse ==
  ASSUME TypeOK, PoolFacts, TasksKnowTheirEntry, NEW c \in Caller, Reserve(c)
  PROVE  \E e \in Entry, g \in SUBSET Entry :
           /\ task'[c].pc = "sweeping" /\ task'[c].lease = e /\ task'[c].garbage = WithSocket(g)
           /\ active \ g \subseteq active' /\ active' \subseteq (active \ g) \cup {e}
           /\ g \cap active' = {} /\ DisposingStays
           /\ Reuses \/ Creates(e)
<1> DEFINE r == task[c].request
<1>1. PoolTypeOK /\ active \subseteq Entry
  BY DEF PoolFacts, PoolTypeOK
<1>2. r \in Request
  BY DEF TypeOK, TaskRecord, TasksKnowTheirEntry, Reserve, Reserving, At
<1>3. r.session \in Session \cup {None} /\ r.endpoint \in Endpoint /\ r.manual \in BOOLEAN
  BY <1>2, TaskAssumption DEF TaskAssumption
<1>4. Stale(r.endpoint) \subseteq active
  BY DEF Stale
<1>5. ASSUME NEW e, NEW g, Reserved(c, e, g)
      PROVE  task'[c].pc = "sweeping" /\ task'[c].lease = e /\ task'[c].garbage = WithSocket(g)
  BY <1>5 DEF Reserved, Become, TypeOK, TaskRecord
<1>6. ASSUME NEW e \in Entry, Reuse(r.session, r.endpoint, r.manual, e)
      PROVE  /\ active' = active \ Stale(r.endpoint) /\ DisposingStays /\ Reuses
  <2>1. ~r.manual /\ r.session \in Session
    BY <1>3, <1>6, NoneAssumption DEF NoneAssumption, Reuse, Cached
  <2>2. r.manual = FALSE
    BY <1>3, <2>1
  <2>3. Reuse(r.session, r.endpoint, FALSE, e)
    BY <1>6, <2>2
  <2> HIDE DEF r
  <2>4. /\ active' = active \ Stale(r.endpoint) /\ AttachedStays /\ DisposingStays
        /\ \A f \in active' \ {e} : SameUse(f)
        /\ entry'[e].base = entry[e].base
    BY <1>1, <1>3, <2>1, <2>3, ReuseUse
  <2>5. \A f \in active' : entry'[f].base = entry[f].base
    BY <2>4 DEF SameUse
  <2> QED BY <2>4, <2>5 DEF Reuses
<1>7. ASSUME NEW e \in Entry, Unused(e), NEW v \in SUBSET Entry,
             Create(r.session, r.endpoint, r.manual, e, v)
      PROVE  /\ active' = (active \ (Stale(r.endpoint) \cup v)) \cup {e}
             /\ e \notin Stale(r.endpoint) \cup v /\ DisposingStays /\ Creates(e)
  <2> HIDE DEF r
  <2>1. /\ active' = (active \ (Stale(r.endpoint) \cup v)) \cup {e} /\ DisposingStays
        /\ \A f \in Entry \ {e} : entry'[f].attached = entry[f].attached
        /\ \A f \in active' \ {e} : SameUse(f)
        /\ ~entry'[e].attached /\ entry'[e].base = None
    BY <1>1, <1>3, <1>7, CreateUse
  <2>2. v \subseteq active
    <3>1. v \in Evictions(r.session, r.manual, Stale(r.endpoint))
      BY <1>7 DEF Create
    <3>2. v \subseteq {f \in Entry : \E s \in Session : EntriesWithout(Stale(r.endpoint))[s] = f}
      BY <3>1 DEF Evictions, LeastRecent
    <3> QED BY <3>2, NoneAssumption DEF NoneAssumption, EntriesWithout, PoolFacts
  <2>3. e \notin active
    BY <1>7 DEF Unused, Unreferenced
  <2>4. \A f \in active' \ {e} : entry'[f].base = entry[f].base
    BY <2>1 DEF SameUse
  <2>5. Creates(e)
    BY <1>7, <2>1, <2>4 DEF Creates
  <2> QED BY <1>4, <2>1, <2>2, <2>3, <2>5
<1>8. ASSUME NEW e \in Entry, Reuse(r.session, r.endpoint, r.manual, e),
             Reserved(c, e, Stale(r.endpoint))
      PROVE  \E g \in SUBSET Entry :
               /\ Reserved(c, e, g) /\ active \ g \subseteq active'
               /\ active' \subseteq (active \ g) \cup {e}
               /\ g \cap active' = {} /\ DisposingStays /\ (Reuses \/ Creates(e))
  <2> DEFINE g == Stale(r.endpoint)
  <2>1. active' = active \ g /\ DisposingStays /\ Reuses /\ g \in SUBSET Entry
    BY <1>1, <1>4, <1>6, <1>8
  <2> HIDE DEF g
  <2> QED BY <1>8, <2>1 DEF g
<1>9. ASSUME NEW e \in Entry, Unused(e), NEW v \in SUBSET Entry,
             Create(r.session, r.endpoint, r.manual, e, v),
             Reserved(c, e, Stale(r.endpoint) \cup v)
      PROVE  \E g \in SUBSET Entry :
               /\ Reserved(c, e, g) /\ active \ g \subseteq active'
               /\ active' \subseteq (active \ g) \cup {e}
               /\ g \cap active' = {} /\ DisposingStays /\ (Reuses \/ Creates(e))
  <2> DEFINE g == Stale(r.endpoint) \cup v
  <2>1. active' = (active \ g) \cup {e} /\ e \notin g /\ DisposingStays /\ Creates(e)
    BY <1>7, <1>9
  <2>2. g \in SUBSET Entry /\ Reserved(c, e, g)
    BY <1>1, <1>4, <1>9
  <2> HIDE DEF g
  <2> QED BY <2>1, <2>2
<1>10. \E e \in Entry :
         \/ /\ Reuse(r.session, r.endpoint, r.manual, e)
            /\ Reserved(c, e, Stale(r.endpoint))
         \/ /\ Unused(e)
            /\ \E v \in SUBSET Entry :
                 /\ Create(r.session, r.endpoint, r.manual, e, v)
                 /\ Reserved(c, e, Stale(r.endpoint) \cup v)
  BY DEF Reserve
<1> HIDE DEF r
<1>11. \E e \in Entry, g \in SUBSET Entry :
         /\ Reserved(c, e, g) /\ active \ g \subseteq active'
         /\ active' \subseteq (active \ g) \cup {e}
         /\ g \cap active' = {} /\ DisposingStays /\ (Reuses \/ Creates(e))
  BY <1>8, <1>9, <1>10
<1> QED BY <1>5, <1>11

(* How a task comes to the places the invariants speak of.                 *)
Drops(c) == (\E completed, m : ReleaseDrop(Lease(c), completed, m)) /\ conn' = Closed({Lease(c)})

ArrivesToAttach(c) ==
  /\ task'[c].pc = "connecting" =>
       UNCHANGED poolVars /\ conn' = conn /\ ~entry[Lease(c)].attached
  /\ task'[c].pc = "planning" =>
       (UNCHANGED poolVars /\ conn' = conn /\ entry[Lease(c)].attached) \/ Attach(Lease(c))
  /\ task'[c].pc = "scheduling" =>
       CloseCompleted(c) /\ ReleaseKeep(Lease(c), IsManual(c), conn[Lease(c)])

ArrivesParted(c) ==
  task'[c].pc \in Parted => (task[c].pc \in Parted /\ conn' = conn) \/ Drops(c)

ArrivesToSpeak(c) ==
  /\ task'[c].pc \in Framed =>
       Plan(c) \/ (task[c].pc \in Framed /\ task'[c].frame = task[c].frame /\ conn' = conn)
  /\ task'[c].pc = "completed" => ReceiveCompleted(c)

LEMMA Arrivals ==
  ASSUME TypeOK, TasksKnowTheirEntry, NEW c \in Caller, TaskMove(c), ~Reserve(c)
  PROVE  /\ ArrivesToAttach(c) /\ ArrivesParted(c) /\ ArrivesToSpeak(c)
         /\ task'[c].lease \in {Lease(c), None}
         /\ task'[c].pc \notin Unleased => task'[c].lease = Lease(c)
         /\ task'[c].garbage \subseteq task[c].garbage
<1> DEFINE Elsewhere(p) == p \notin {"connecting", "planning", "scheduling", "completed"}
                                      \cup Parted \cup Framed
           Stays == /\ task'[c].lease \in {Lease(c), None}
                    /\ task'[c].pc \notin Unleased => task'[c].lease = Lease(c)
                    /\ task'[c].garbage \subseteq task[c].garbage
           Arrives == ArrivesToAttach(c) /\ ArrivesParted(c) /\ ArrivesToSpeak(c)
           Goal == Arrives /\ Stays
<1> SUFFICES Goal
  OBVIOUS
<1>1. ASSUME Elsewhere(task'[c].pc) PROVE Arrives
  BY <1>1 DEF ArrivesToAttach, ArrivesParted, ArrivesToSpeak
<1>2. ASSUME SameLocals(c) PROVE Stays
  BY <1>2 DEF SameLocals, Lease
<1>3. ASSUME task'[c].pc \in Parted, (task[c].pc \in Parted /\ conn' = conn) \/ Drops(c) PROVE Arrives
  BY <1>3 DEF ArrivesToAttach, ArrivesParted, ArrivesToSpeak, Parted, Framed
<1>4. ASSUME task'[c].pc \in Framed, task[c].pc \in Framed, task'[c].frame = task[c].frame,
             conn' = conn
      PROVE  Arrives
  BY <1>4 DEF ArrivesToAttach, ArrivesParted, ArrivesToSpeak, Parted, Framed
<1>5. CASE End(c)
  <2>1. task'[c] = NoTask
    BY <1>5, EndFields
  <2> QED BY <1>1, <2>1 DEF NoTask, Parted, Framed, Unleased
<1>6. CASE Finish(c) /\ Drops(c)
  <2>1. /\ task'[c].pc = "closing" /\ task'[c].lease = Lease(c) /\ task'[c].garbage = {}
    BY <1>6, EndFields
  <2> QED BY <1>3, <1>6, <2>1 DEF Parted
<1>7. ASSUME NEW p, Goto(c, p) \/ StopIo(c, p) \/ \E error : Fail(c, error, p),
             \/ Elsewhere(p)
             \/ p \in Parted /\ ((task[c].pc \in Parted /\ conn' = conn) \/ Drops(c))
             \/ p \in Framed /\ task[c].pc \in Framed /\ conn' = conn
      PROVE  Goal
  <2>1. task'[c].pc = p /\ SameLocals(c)
    BY <1>7, MovedFields
  <2>2. task'[c].frame = task[c].frame
    BY <2>1 DEF SameLocals
  <2> HIDE DEF Arrives, Stays, Elsewhere
  <2> QED BY <1>1, <1>2, <1>3, <1>4, <1>7, <2>1, <2>2
<1>8. CASE Start(c)
  <2>1. PICK r \in Request : task'[c] = [NoTask EXCEPT !.pc = "reserving", !.request = r]
    BY <1>8 DEF Start, Become, TypeOK
  <2>2. /\ task'[c].pc = "reserving" /\ task'[c].lease = None /\ task'[c].garbage = {}
    BY <2>1 DEF NoTask
  <2> QED BY <1>1, <2>2 DEF Parted, Framed, Unleased
<1>9. CASE ReserveRefused(c)
  <2>1. CASE task[c].recovered
    <3>1. task[c].pc \in Parted
      BY <1>9, <2>1 DEF ReserveRefused, Reserving, TasksKnowTheirEntry, Unleased, Parted
    <3>2. Fail(c, "StreamError", "refinishing") /\ conn' = conn
      BY <1>9, <2>1 DEF ReserveRefused
    <3> QED BY <1>7, <3>1, <3>2 DEF Parted
  <2> QED BY <1>5, <1>9, <2>1 DEF ReserveRefused
<1>10. CASE Sweep(c)
  <2>1. ASSUME NEW e \in task[c].garbage,
               Become(c, [task[c] EXCEPT !.pc = "swept", !.garbage = @ \ {e}])
        PROVE  Goal
    <3>1. /\ task'[c].pc = "swept" /\ task'[c].lease = Lease(c)
          /\ task'[c].garbage \subseteq task[c].garbage
      BY <2>1 DEF Become, TypeOK, TaskRecord, Lease
    <3> QED BY <1>1, <3>1 DEF Parted, Framed
  <2> DEFINE p == IF entry[Lease(c)].attached THEN "planning" ELSE "connecting"
  <2>2. ASSUME Goto(c, p), UNCHANGED poolVars, conn' = conn
        PROVE  Goal
    <3>1. task'[c].pc = p /\ SameLocals(c)
      BY <2>2, MovedFields
    <3>2. Arrives
      BY <2>2, <3>1 DEF ArrivesToAttach, ArrivesParted, ArrivesToSpeak, Parted, Framed
    <3> QED BY <1>2, <3>1, <3>2
  <2> HIDE DEF Goal
  <2> QED BY <1>10, <2>1, <2>2 DEF Sweep
<1>11. CASE Connect(c)
  <2>1. CASE Attach(Lease(c)) /\ Goto(c, "planning")
    <3>1. task'[c].pc = "planning" /\ SameLocals(c)
      BY <2>1, MovedFields
    <3>2. Arrives
      BY <2>1, <3>1 DEF ArrivesToAttach, ArrivesParted, ArrivesToSpeak, Parted, Framed
    <3> QED BY <1>2, <3>1, <3>2
  <2>2. CASE \E error, p : p \in {"rejecting", "failing"} /\ Fail(c, error, p)
    <3>1. \A p \in {"rejecting", "failing"} : Elsewhere(p)
      BY DEF Parted, Framed
    <3> HIDE DEF Goal, Elsewhere
    <3> QED BY <1>7, <2>2, <3>1
  <2> HIDE DEF Goal
  <2> QED BY <1>11, <2>1, <2>2 DEF Connect
<1>12. CASE Rejected(c)
  <2>1. Goto(c, "failing") /\ Elsewhere("failing")
    BY <1>12 DEF Rejected, Parted, Framed
  <2> HIDE DEF Elsewhere
  <2> QED BY <1>7, <2>1
<1>13. CASE Plan(c)
  <2>1. PICK f : Planned(c, f)
    BY <1>13 DEF Plan
  <2>2. /\ task'[c].pc \in {"checking", "ready"} /\ task'[c].lease = Lease(c)
        /\ task'[c].garbage = task[c].garbage
    BY <2>1 DEF Planned, Become, TypeOK, TaskRecord, Lease
  <2>3. Arrives
    BY <1>13, <2>2 DEF ArrivesToAttach, ArrivesParted, ArrivesToSpeak, Parted, Framed
  <2> QED BY <2>2, <2>3
<1>14. CASE AcquireFailed(c)
  <2>1. Drops(c) /\ \E p \in {"failed", "refused"} : Goto(c, p)
    BY <1>14 DEF AcquireFailed, Drops
  <2>2. {"failed", "refused"} \subseteq Parted
    BY DEF Parted
  <2> HIDE DEF Goal, Elsewhere
  <2> QED BY <1>7, <2>1, <2>2
<1>15. CASE Raise(c) \/ Ended(c) \/ CancelRaise(c)
  <2>1. task[c].pc \in Parted /\ conn' = conn
    BY <1>15 DEF Raise, Ended, CancelRaise, Parted
  <2>2. End(c) \/ \E p \in {"refinishing", "sse"} : Goto(c, p)
    BY <1>15 DEF Raise, Ended, CancelRaise
  <2>3. {"refinishing", "sse"} \subseteq Parted
    BY DEF Parted
  <2> HIDE DEF Goal, Elsewhere
  <2> QED BY <1>5, <1>7, <2>1, <2>2, <2>3
<1>16. CASE CheckValid(c)
  <2>1. task[c].pc \in Framed /\ conn' = conn
    BY <1>16 DEF CheckValid, Framed
  <2>2. CASE Goto(c, "finishing")
    <3>1. Elsewhere("finishing")
      BY DEF Parted, Framed
    <3> HIDE DEF Elsewhere
    <3> QED BY <1>7, <2>2, <3>1
  <2>3. CASE Become(c, [task[c] EXCEPT !.pc = "sending", !.io = TRUE, !.seen = FALSE])
    <3>1. /\ task'[c].pc = "sending" /\ task'[c].lease = Lease(c)
          /\ task'[c].garbage = task[c].garbage /\ task'[c].frame = task[c].frame
      BY <2>3 DEF Become, TypeOK, TaskRecord, Lease
    <3> QED BY <1>4, <2>1, <3>1 DEF Framed
  <2> HIDE DEF Goal
  <2> QED BY <1>16, <2>2, <2>3 DEF CheckValid
<1>17. CASE Leave(c) \/ Sent(c) \/ Interrupted(c) \/ Timeout(c) \/ Drained(c)
  <2>1. task[c].pc \in Framed /\ conn' = conn
    BY <1>17 DEF Leave, Sent, Interrupted, Timeout, Drained, At, Framed
  <2>2. \E p \in {"finishing", "receiving", "draining"} : Goto(c, p) \/ StopIo(c, p)
    BY <1>17 DEF Leave, Sent, Interrupted, Timeout, Drained
  <2>3. \A p \in {"finishing", "receiving", "draining"} : Elsewhere(p) \/ p \in Framed
    BY DEF Parted, Framed
  <2> HIDE DEF Goal, Elsewhere
  <2> QED BY <1>7, <2>1, <2>2, <2>3
<1>18. CASE Receive(c) \/ Continue(c)
  <2>1. task[c].pc \in Framed /\ conn' = conn
    BY <1>18 DEF Receive, Continue, At, Framed
  <2>2. CASE StopIo(c, "finishing")
    <3>1. Elsewhere("finishing")
      BY DEF Parted, Framed
    <3> HIDE DEF Elsewhere
    <3> QED BY <1>7, <2>2, <3>1
  <2>3. ASSUME NEW output \in BOOLEAN,
               Become(c, [task[c] EXCEPT !.pc = "yielded", !.io = FALSE,
                                         !.seen = @ \/ output, !.delivered = @ \/ output])
        PROVE  Goal
    <3>1. /\ task'[c].pc = "yielded" /\ task'[c].lease = Lease(c)
          /\ task'[c].garbage = task[c].garbage /\ task'[c].frame = task[c].frame
      BY <2>3 DEF Become, TypeOK, TaskRecord, Lease
    <3> QED BY <1>4, <2>1, <3>1 DEF Framed
  <2>4. CASE Become(c, [task[c] EXCEPT !.pc = "receiving", !.io = TRUE])
    <3>1. /\ task'[c].pc = "receiving" /\ task'[c].lease = Lease(c)
          /\ task'[c].garbage = task[c].garbage /\ task'[c].frame = task[c].frame
      BY <2>4 DEF Become, TypeOK, TaskRecord, Lease
    <3> QED BY <1>4, <2>1, <3>1 DEF Framed
  <2> HIDE DEF Goal
  <2> QED BY <1>18, <2>2, <2>3, <2>4 DEF Receive, Continue
<1>19. CASE ReceiveCompleted(c)
  <2>1. \E p \in {"completed", "finishing"} : StopIo(c, p)
    BY <1>19 DEF ReceiveCompleted
  <2>2. task'[c].pc \in {"completed", "finishing"} /\ SameLocals(c)
    BY <2>1, MovedFields
  <2>3. Arrives
    BY <1>19, <2>2 DEF ArrivesToAttach, ArrivesParted, ArrivesToSpeak, Parted, Framed
  <2> QED BY <1>2, <2>2, <2>3
<1>20. CASE ReceiveMissing(c)
  <2>1. CASE StopIo(c, "finishing")
    <3>1. Elsewhere("finishing")
      BY DEF Parted, Framed
    <3> HIDE DEF Elsewhere
    <3> QED BY <1>7, <2>1, <3>1
  <2>2. CASE /\ Drops(c)
             /\ Become(c, [task[c] EXCEPT !.pc = "recovering", !.io = FALSE, !.recovered = TRUE])
    <3>1. /\ task'[c].pc = "recovering" /\ task'[c].lease = Lease(c)
          /\ task'[c].garbage = task[c].garbage
      BY <2>2 DEF Become, TypeOK, TaskRecord, Lease
    <3> QED BY <1>3, <2>2, <3>1 DEF Parted
  <2> HIDE DEF Goal
  <2> QED BY <1>20, <2>1, <2>2 DEF ReceiveMissing, Drops
<1>21. CASE CloseCompleted(c)
  <2>1. CASE ReleaseKeep(Lease(c), IsManual(c), conn[Lease(c)]) /\ Goto(c, "scheduling")
    <3>1. task'[c].pc = "scheduling" /\ SameLocals(c)
      BY <2>1, MovedFields
    <3>2. Arrives
      BY <1>21, <2>1, <3>1 DEF ArrivesToAttach, ArrivesParted, ArrivesToSpeak, Parted, Framed
    <3> QED BY <1>2, <3>1, <3>2
  <2> HIDE DEF Goal
  <2> QED BY <1>6, <1>21, <2>1 DEF CloseCompleted, Drops, Goal
<1>22. CASE CloseFailed(c)
  BY <1>6, <1>22 DEF CloseFailed, Drops
<1>23. CASE ScheduleExpiry(c)
  BY <1>5, <1>23 DEF ScheduleExpiry
<1>24. CASE CancelAcquire(c)
  <2>1. task'[c].pc = "failing" /\ task'[c].lease = Lease(c) /\ task'[c].garbage = {}
    BY <1>24 DEF CancelAcquire, Become, TypeOK, TaskRecord, Lease
  <2> QED BY <1>1, <2>1 DEF Parted, Framed
<1>25. CASE CancelStream(c)
  <2>1. CASE Goto(c, "finishing")
    <3>1. Elsewhere("finishing")
      BY DEF Parted, Framed
    <3> HIDE DEF Elsewhere
    <3> QED BY <1>7, <2>1, <3>1
  <2>2. CASE At(c, "recovering") /\ Goto(c, "refinishing") /\ conn' = conn
    BY <1>7, <2>2 DEF At, Parted
  <2>3. CASE task[c].pc \in {"sending", "receiving"} /\ Goto(c, "draining") /\ conn' = conn
    BY <1>7, <2>3 DEF Framed
  <2> HIDE DEF Goal
  <2> QED BY <1>25, <2>1, <2>2, <2>3 DEF CancelStream
<1> HIDE DEF Goal
<1> QED BY <1>8, <1>9, <1>10, <1>11, <1>12, <1>13, <1>14, <1>15, <1>16, <1>17, <1>18, <1>19, <1>20,
           <1>21, <1>22, <1>23, <1>24, <1>25 DEF TaskMove, CallerStep, CancelStep

(* What SocketsAreAttached says of one task.                               *)
Placed(d) ==
  /\ At(d, "connecting") => ~entry[Lease(d)].attached
  /\ At(d, "planning") => entry[Lease(d)].attached
  /\ At(d, "scheduling") => Lease(d) \in active
  /\ task[d].pc \in Parted => conn[Lease(d)] = None

LEMMA LeaseType ==
  ASSUME TypeOK, TasksKnowTheirEntry, NEW c \in Caller, task[c].pc \notin Unleased
  PROVE  Lease(c) \in Entry
  BY DEF TasksKnowTheirEntry, TypeOK, TaskRecord, Lease

LEMMA OwnPlaced ==
  ASSUME TypeOK, PoolFacts, TasksKnowTheirEntry, GoneForGood, SocketsAreAttached,
         CompletedIsLatest, NEW c \in Caller, TaskMove(c), ~Reserve(c)
  PROVE  Placed(c)'
<1>1. /\ ArrivesToAttach(c) /\ ArrivesParted(c)
      /\ task'[c].pc \notin Unleased => task'[c].lease = Lease(c)
  BY Arrivals
<1>2. task'[c].pc \in {"connecting", "planning", "scheduling"} => task[c].pc \notin Unleased
  <2>1. Knows(c)' /\ Knows(c)
    BY KnowsOwn DEF TasksKnowTheirEntry, Knows
  <2> QED BY <1>1, <2>1 DEF Knows, Unleased, Lease
<1>3. ASSUME At(c, "connecting")' PROVE ~entry'[Lease(c)].attached /\ Lease(c)' = Lease(c)
  BY <1>1, <1>3 DEF ArrivesToAttach, At, Unleased, Lease, poolVars
<1>4. ASSUME At(c, "planning")' PROVE entry'[Lease(c)].attached /\ Lease(c)' = Lease(c)
  <2>1. Lease(c) \in Entry /\ Lease(c)' = Lease(c)
    BY <1>1, <1>2, <1>4, LeaseType DEF At, Unleased, Lease
  <2>2. CASE Attach(Lease(c))
    BY <2>1, <2>2, AttachUse DEF PoolFacts
  <2>3. CASE UNCHANGED poolVars /\ entry[Lease(c)].attached
    BY <2>1, <2>3 DEF poolVars
  <2> QED BY <1>1, <1>4, <2>2, <2>3 DEF ArrivesToAttach, At
<1>5. ASSUME At(c, "scheduling")' PROVE Lease(c) \in active' /\ Lease(c)' = Lease(c)
  <2>1. Lease(c) \in Entry /\ Lease(c)' = Lease(c)
    BY <1>1, <1>2, <1>5, LeaseType DEF At, Unleased, Lease
  <2>2. ReleaseKeep(Lease(c), IsManual(c), conn[Lease(c)])
    BY <1>1, <1>5 DEF ArrivesToAttach, At
  <2> QED BY <2>1, <2>2 DEF ReleaseKeep, Keeps, PoolFacts
<1>6. ASSUME task'[c].pc \in Parted PROVE conn'[Lease(c)] = None /\ Lease(c)' = Lease(c)
  <2>1. Lease(c)' = Lease(c) /\ task'[c].pc \notin Unleased
    BY <1>1, <1>6 DEF Lease, Parted, Unleased
  <2>2. CASE task[c].pc \in Parted /\ conn' = conn
    BY <2>1, <2>2 DEF SocketsAreAttached
  <2>3. CASE Drops(c)
    <3>1. Lease(c) \in Entry
      <4>1. Knows(c)' /\ TypeOK
        BY KnowsOwn
      <4>2. Lease(c) # None
        BY <2>1, <4>1 DEF Knows, Lease
      <4> QED BY <4>2 DEF TypeOK, TaskRecord, Lease
    <3> QED BY <2>1, <2>3, <3>1, ClosedIsNone DEF Drops
  <2> QED BY <1>1, <1>6, <2>2, <2>3 DEF ArrivesParted
<1> QED BY <1>3, <1>4, <1>5, <1>6 DEF Placed, At

(* Another task's step takes nothing from a task at one of these places.   *)
LEMMA OthersPlaced ==
  ASSUME TypeOK, PoolFacts, RunsAlone, TasksKnowTheirEntry, GoneForGood, SocketsAreAttached,
         CompletedIsLatest, NEW c \in Caller, TaskMove(c), NEW d \in Caller \ {c}
  PROVE  Placed(d)'
<1>1. Placed(d) /\ (task[d].pc \notin Unleased => Lease(d) \in Entry)
  BY LeaseType DEF SocketsAreAttached, Placed
<1>2. task'[d] = task[d] /\ Lease(d)' = Lease(d)
  BY OthersKeep DEF Lease
<1>3. At(d, "scheduling") => active' = active
  <2>1. ASSUME At(d, "scheduling") PROVE Start(c)
    BY <2>1, MoverRuns DEF RunsAlone, LoopFree, Running, RunPoint, At
  <2> QED BY <2>1 DEF Start, poolVars
<1>4. CASE Reserve(c)
  <2>1. PICK e \in Entry : (AttachedStays \/ Creates(e)) /\ conn' = conn
    BY <1>4, ReserveUse DEF Reuses, Reserve
  <2>2. task[d].pc \notin Unleased => entry'[Lease(d)].attached = entry[Lease(d)].attached
    BY <1>1, <2>1 DEF AttachedStays, Creates, Unused
  <2> QED BY <1>1, <1>2, <1>3, <2>1, <2>2 DEF Placed, At, Unleased
<1>5. CASE ~Reserve(c)
  <2>1. AttachesOwn(c) /\ ConnectsOwn(c)
    BY <1>5, MoveUse
  <2>2. ASSUME Opens(c, Lease(d)) PROVE ~Holds(d) /\ task[d].pc \notin Parted
    <3>1. Holds(c) /\ Lease(d) = Lease(c)
      BY <2>2 DEF Opens, At, Holds, Acquiring, Opened
    <3>2. ~Holds(d)
      BY <3>1 DEF PoolFacts
    <3>3. task[d].pc \in Parted => Lease(d) \notin active /\ conn[Lease(d)] = None
      BY DEF PoolFacts, SocketsAreAttached
    <3> QED BY <2>2, <3>2, <3>3 DEF Opens
  <2>3. Holds(d) => entry'[Lease(d)].attached = entry[Lease(d)].attached
    BY <1>1, <2>1, <2>2 DEF AttachesOwn, Holds, Acquiring, Opened, Unleased
  <2>4. task[d].pc \in Parted => conn'[Lease(d)] \in {None, conn[Lease(d)]}
    BY <1>1, <2>1, <2>2 DEF ConnectsOwn, Parted, Unleased
  <2> QED BY <1>1, <1>2, <1>3, <2>3, <2>4 DEF Placed, At, Holds, Acquiring
<1> QED BY <1>4, <1>5

LEMMA TaskSockets ==
  ASSUME TypeOK, PoolFacts, RunsAlone, TasksKnowTheirEntry, SocketInv, CompletedIsLatest,
         NEW c \in Caller, TaskMove(c)
  PROVE  SocketInv'
<1>1. /\ GoneForGood /\ SocketsAreAttached /\ closer' = closer
      /\ ClosersLoop'
  BY OthersKeep DEF SocketInv, ClosersLoop
<1>2. \A d \in Caller \ {c} : task'[d] = task[d]
  BY OthersKeep
<1>3. CASE Reserve(c)
  <2>1. PICK e \in Entry, g \in SUBSET Entry :
          /\ task'[c].pc = "sweeping" /\ task'[c].lease = e /\ task'[c].garbage = WithSocket(g)
          /\ active \ g \subseteq active' /\ active' \subseteq (active \ g) \cup {e}
          /\ g \cap active' = {} /\ DisposingStays
          /\ Reuses \/ Creates(e)
    BY <1>3, ReserveUse
  <2>2. conn' = conn
    BY <1>3 DEF Reserve
  <2>3. active' \subseteq active \/ (Unused(e) /\ active' \subseteq active \cup {e})
    BY <2>1 DEF Reuses, Creates
  <2>4. Unused(e) => /\ conn[e] = None /\ \A k \in Closer : e \notin closer[k].todo
                     /\ \A d \in Caller : e \notin task[d].garbage
                     /\ \A t \in Timer : timers[t].entry # e
    BY DEF Unused, Unreferenced
  <2>5. GoneForGood'
    <3>1. \A d \in Caller : task'[d].garbage \cap active' = {}
      BY <1>1, <1>2, <2>1, <2>3, <2>4 DEF GoneForGood, WithSocket
    <3>2. \A k \in Closer : closer'[k].todo \cap active' = {}
      BY <1>1, <2>3, <2>4 DEF GoneForGood
    <3>3. \A t \in Timer : timers'[t].state = "disposing" => timers'[t].entry \notin active'
      BY <1>1, <2>1, <2>3, <2>4 DEF GoneForGood, Cleaning, DisposingStays
    <3> QED BY <3>1, <3>2, <3>3 DEF GoneForGood, Cleaning
  <2>6. \A f \in Entry : conn'[f] # None => entry'[f].attached
    <3>1. Unused(e) => conn[e] = None
      BY <2>4
    <3>2. \A f \in Entry : conn[f] # None => entry'[f].attached = entry[f].attached
      BY <2>1, <3>1 DEF Reuses, Creates, AttachedStays
    <3> QED BY <1>1, <2>2, <3>2 DEF SocketsAreAttached
  <2>7. Placed(c)'
    BY <2>1 DEF Placed, At, Parted
  <2> QED BY <1>1, <2>5, <2>6, <2>7, OthersPlaced DEF SocketInv, SocketsAreAttached, Placed
<1>4. CASE ~Reserve(c)
  <2>1. DisposingStays /\ RemovesOwn(c) /\ AttachesOwn(c) /\ ConnectsOwn(c)
    BY <1>1, <1>4, MoveUse
  <2>2. active' \subseteq active
    BY <2>1 DEF RemovesOwn
  <2>3. GoneForGood'
    <3>1. task'[c].garbage \subseteq task[c].garbage
      BY <1>4, Arrivals
    <3>2. \A d \in Caller : task'[d].garbage \cap active' = {}
      BY <1>1, <1>2, <2>2, <3>1 DEF GoneForGood
    <3>3. \A k \in Closer : closer'[k].todo \cap active' = {}
      BY <1>1, <2>2 DEF GoneForGood
    <3>4. \A t \in Timer : timers'[t].state = "disposing" => timers'[t].entry \notin active'
      BY <1>1, <2>1, <2>2 DEF GoneForGood, Cleaning, DisposingStays
    <3> QED BY <3>2, <3>3, <3>4 DEF GoneForGood, Cleaning
  <2>4. \A f \in Entry : conn'[f] # None => entry'[f].attached
    BY <1>1, <2>1 DEF AttachesOwn, ConnectsOwn, Opens, SocketsAreAttached
  <2> QED BY <1>1, <1>4, <2>3, <2>4, OwnPlaced, OthersPlaced DEF SocketInv, SocketsAreAttached, Placed
<1> QED BY <1>3, <1>4

(* A step of the environment: entries only leave the pool, and what it     *)
(* disposes of or closes has left it.                                      *)
EnvironmentMove ==
  (\E t \in Timer : TimerStep(t)) \/ (\E k \in Closer : CloserMove(k)) \/ Pass

(* Who disposes goes on, or is done or cancelled.                          *)
DisposesOn ==
  \A t \in Timer : timers'[t].state = "disposing" =>
    \/ timers[t].state = "disposing" /\ timers'[t].entry = timers[t].entry
    \/ timers'[t].entry \notin active'

ClosesGone ==
  \A f \in Entry : conn'[f] = conn[f] \/ (conn'[f] = None /\ f \notin active)

LEMMA EnvironmentUse ==
  ASSUME TypeOK, PoolFacts, RunsAlone, GoneForGood, SocketsAreAttached, EnvironmentMove
  PROVE  /\ active' \subseteq active /\ AttachedStays /\ DisposesOn /\ ClosesGone
         /\ \A f \in active' : entry'[f].base = entry[f].base
<1> DEFINE SameBases == \A f \in active' : entry'[f].base = entry[f].base
           Goal == active' \subseteq active /\ AttachedStays /\ DisposesOn /\ ClosesGone /\ SameBases
<1> SUFFICES Goal
  OBVIOUS
<1>1. PoolTypeOK /\ active \subseteq Entry
  BY DEF PoolFacts, PoolTypeOK
<1>2. ASSUME UNCHANGED poolVars
      PROVE  active' \subseteq active /\ AttachedStays /\ DisposesOn /\ SameBases
  BY <1>2 DEF poolVars, AttachedStays, DisposesOn
<1>3. ASSUME conn' = conn PROVE ClosesGone
  BY <1>3 DEF ClosesGone
<1>4. ASSUME NEW f, f \notin active, conn' = Closed({f}) PROVE ClosesGone
  BY <1>4, ClosedIsNone DEF ClosesGone
<1>5. ASSUME NEW gone, RemoveEntries(gone)
      PROVE  active' \subseteq active /\ AttachedStays /\ DisposesOn /\ SameBases
  <2>1. /\ active' = active \ gone /\ AttachedStays /\ DisposingStays
        /\ \A f \in active' : SameUse(f)
    BY <1>1, <1>5, RemoveUse
  <2> QED BY <2>1 DEF DisposingStays, DisposesOn, SameUse
<1>6. ASSUME NEW t \in Timer, Dispose(t)
      PROVE  active' \subseteq active /\ AttachedStays /\ DisposesOn /\ SameBases
  BY <1>1, <1>6 DEF Dispose, FreeTimer, PoolTypeOK, AttachedStays, DisposesOn
<1>7. ASSUME NEW t \in Timer, TimerStep(t) PROVE Goal
  <2>1. CASE Fire(t) \/ Expire(t)
    <3>1. /\ active' \subseteq active /\ AttachedStays
          /\ \A f \in active' : SameUse(f)
          /\ \A u \in Timer : timers[u].state = "disposing" =>
               timers'[u].state = "disposing" /\ timers'[u].entry = timers[u].entry
          /\ \A u \in Timer : timers'[u].state = "disposing" /\ timers[u].state # "disposing" =>
               timers'[u].entry \notin active'
      BY <1>1, <2>1, TimerUse
    <3>2. conn' = conn
      BY <1>7, <2>1 DEF TimerStep, Dispose, Fire, Expire
    <3>3. DisposesOn
      BY <3>1 DEF DisposesOn
    <3>4. SameBases
      BY <3>1 DEF SameUse
    <3> QED BY <1>3, <3>1, <3>2, <3>3, <3>4
  <2>2. CASE Dispose(t) /\ conn' = Closed({timers[t].entry})
    <3>1. timers[t].entry \notin active
      BY <2>2 DEF Dispose, GoneForGood, Cleaning
    <3> QED BY <1>4, <1>6, <2>2, <3>1
  <2> QED BY <1>7, <2>1, <2>2 DEF TimerStep
<1>8. ASSUME NEW k \in Closer, CloserMove(k) PROVE Goal
  <2>1. CASE Clear(k)
    <3>1. conn' = conn /\ \E gone : RemoveEntries(gone)
      BY <2>1 DEF Clear, ClearSession, ClearAll
    <3> QED BY <1>3, <1>5, <3>1
  <2>2. CASE CloseNext(k)
    <3>1. ASSUME NEW e \in closer[k].todo PROVE e \notin active
      BY <3>1 DEF GoneForGood
    <3>2. ClosesGone
      BY <1>3, <1>4, <2>2, <3>1 DEF CloseNext
    <3> QED BY <1>2, <2>2, <3>2 DEF CloseNext
  <2>3. CASE Gathered(k) \/ CancelClose(k)
    BY <1>2, <1>3, <2>3 DEF Gathered, CancelClose
  <2>4. CASE CancelCleanup(k)
    BY <1>2, <1>3, <1>6, <2>4 DEF CancelCleanup
  <2> QED BY <1>8, <2>1, <2>2, <2>3, <2>4 DEF CloserMove, CloserStep
<1>9. CASE Pass
  <2>1. /\ active' = active /\ AttachedStays /\ DisposingStays
        /\ \A f \in active' : SameUse(f)
    BY <1>1, <1>9, TickUse DEF Pass
  <2>2. DisposesOn /\ SameBases
    BY <2>1 DEF DisposingStays, DisposesOn, SameUse
  <2> QED BY <1>3, <1>9, <2>1, <2>2 DEF Pass
<1> HIDE DEF Goal
<1> QED BY <1>7, <1>8, <1>9 DEF EnvironmentMove

(* What a closing task has to close has left the pool.                     *)
LEMMA CloserUse ==
  ASSUME TypeOK, PoolFacts, GoneForGood, ClosersLoop, EnvironmentMove, NEW k \in Closer
  PROVE  /\ closer'[k].todo \cap active' = {}
         /\ closer'[k].todo # {} => closer'[k].pc \in {"clearing", "closing"}
<1> DEFINE Goal == /\ closer'[k].todo \cap active' = {}
                   /\ closer'[k].todo # {} => closer'[k].pc \in {"clearing", "closing"}
<1> SUFFICES Goal
  OBVIOUS
<1>1. PoolTypeOK /\ closer[k] \in CloserRecord
  BY DEF PoolFacts, TypeOK
<1>2. /\ closer[k].todo \cap active = {}
      /\ closer[k].todo # {} => closer[k].pc \in {"clearing", "closing"}
  BY DEF GoneForGood, ClosersLoop
<1>3. ASSUME active' \subseteq active, closer'[k] = closer[k] PROVE Goal
  BY <1>2, <1>3
<1>4. ASSUME closer'[k].todo = {} PROVE Goal
  BY <1>4
<1>5. ASSUME NEW t \in Timer, TimerStep(t) PROVE Goal
  <2>1. closer' = closer /\ active' \subseteq active
    BY <1>1, <1>5, TimerUse DEF TimerStep, Dispose
  <2> QED BY <1>3, <2>1
<1>6. ASSUME NEW j \in Closer, Clear(j) PROVE Goal
  <2>1. PICK gone, b : /\ RemoveEntries(gone)
                       /\ closer' = [closer EXCEPT ![j] =
                            [pc |-> "clearing", todo |-> WithSocket(gone), all |-> b]]
    BY <1>6 DEF Clear, ClearSession, ClearAll
  <2>2. active' = active \ gone
    BY <2>1 DEF RemoveEntries
  <2>3. CASE j = k
    <3>1. closer'[k].pc = "clearing" /\ closer'[k].todo = WithSocket(gone)
      BY <2>1, <2>3 DEF TypeOK
    <3> QED BY <2>2, <3>1 DEF WithSocket
  <2>4. CASE j # k
    BY <1>3, <2>1, <2>2, <2>4 DEF TypeOK
  <2> QED BY <2>3, <2>4
<1>7. ASSUME NEW j \in Closer, CloseNext(j) PROVE Goal
  <2>1. active' = active
    BY <1>7 DEF CloseNext, poolVars
  <2>2. CASE j # k
    BY <1>3, <1>7, <2>1, <2>2 DEF CloseNext, TypeOK
  <2>3. ASSUME j = k, NEW e \in closer[j].todo,
               closer' = [closer EXCEPT ![j].pc = "closing", ![j].todo = @ \ {e}]
        PROVE  Goal
    <3>1. closer'[k].pc = "closing" /\ closer'[k].todo \subseteq closer[k].todo
      BY <1>1, <2>3 DEF TypeOK, CloserRecord
    <3> QED BY <1>2, <2>1, <3>1
  <2>4. CASE /\ j = k /\ closer[j].todo = {}
             /\ closer' = [closer EXCEPT ![j] = IF @.all /\ Cleaning # {}
                             THEN [@ EXCEPT !.pc = "gathering"] ELSE NoCloser]
    <3>1. closer'[k].todo = {}
      BY <1>1, <2>4 DEF TypeOK, CloserRecord, NoCloser
    <3> QED BY <1>4, <3>1
  <2> QED BY <1>7, <2>2, <2>3, <2>4 DEF CloseNext
<1>8. ASSUME NEW j \in Closer, Gathered(j) \/ CancelClose(j) \/ CancelCleanup(j) PROVE Goal
  <2>1. active' = active
    BY <1>8 DEF Gathered, CancelClose, CancelCleanup, Dispose, poolVars
  <2>2. CASE closer'[k] = closer[k]
    BY <1>3, <2>1, <2>2
  <2>3. CASE j = k /\ closer'[k] = NoCloser
    BY <1>4, <2>3 DEF NoCloser
  <2>4. CASE closer[k].pc = "gathering" /\ closer'[k] = [closer[k] EXCEPT !.pc = "cancelling"]
    <3>1. closer[k].todo = {}
      BY <1>2, <2>4
    <3>2. closer'[k].todo = {}
      BY <1>1, <2>4, <3>1 DEF CloserRecord
    <3> QED BY <1>4, <3>2
  <2>5. \/ closer'[k] = closer[k] \/ (j = k /\ closer'[k] = NoCloser)
        \/ closer[k].pc = "gathering" /\ closer'[k] = [closer[k] EXCEPT !.pc = "cancelling"]
    BY <1>8 DEF Gathered, CancelClose, CancelCleanup, TypeOK
  <2> QED BY <2>2, <2>3, <2>4, <2>5
<1>9. CASE Pass
  BY <1>3, <1>9 DEF Pass, Tick
<1> HIDE DEF Goal
<1> QED BY <1>5, <1>6, <1>7, <1>8, <1>9 DEF EnvironmentMove, CloserMove, CloserStep

LEMMA SocketStep ==
  ASSUME TypeOK, PoolFacts, RunsAlone, TasksKnowTheirEntry, SocketInv, CompletedIsLatest,
         [Next]_vars
  PROVE  SocketInv'
<1>1. GoneForGood /\ ClosersLoop /\ SocketsAreAttached
  BY DEF SocketInv
<1>2. CASE EnvironmentMove
  <2>1. task' = task /\ \A c \in Caller : ~Running(c)
    BY <1>2, EnvironmentWaits DEF EnvironmentMove
  <2>2. active' \subseteq active /\ AttachedStays /\ DisposesOn /\ ClosesGone
    BY <1>1, <1>2, EnvironmentUse
  <2>3. GoneForGood'
    <3>1. \A c \in Caller : task'[c].garbage \cap active' = {}
      BY <1>1, <2>1, <2>2 DEF GoneForGood
    <3>2. \A t \in Timer : timers'[t].state = "disposing" => timers'[t].entry \notin active'
      BY <1>1, <2>2 DEF GoneForGood, Cleaning, DisposesOn
    <3>3. \A k \in Closer : closer'[k].todo \cap active' = {}
      BY <1>1, <1>2, CloserUse
    <3> QED BY <3>1, <3>2, <3>3 DEF GoneForGood, Cleaning
  <2>4. \A f \in Entry : conn'[f] # None => entry'[f].attached
    BY <1>1, <2>2 DEF SocketsAreAttached, AttachedStays, ClosesGone
  <2>5. ASSUME NEW d \in Caller PROVE Placed(d)'
    <3>1. Placed(d) /\ (task[d].pc \notin Unleased => Lease(d) \in Entry) /\ ~At(d, "scheduling")
      BY <1>1, <2>1, LeaseType DEF SocketsAreAttached, Placed, Running, RunPoint, At
    <3> QED BY <2>1, <2>2, <3>1 DEF Placed, At, Lease, AttachedStays, ClosesGone, Parted, Unleased
  <2>6. ClosersLoop'
    BY <1>1, <1>2, CloserUse DEF ClosersLoop
  <2> QED BY <2>3, <2>4, <2>5, <2>6 DEF SocketInv, SocketsAreAttached, Placed
<1>3. CASE UNCHANGED vars
  BY <1>3 DEF vars, poolVars, SocketInv, GoneForGood, ClosersLoop, SocketsAreAttached, At, Lease, Cleaning
<1> QED BY <1>2, <1>3, TaskSockets, NextCases DEF EnvironmentMove

-----------------------------------------------------------------------------
(* Conversations: what a task sends fits the connection it holds.          *)
Fits(d) ==
  task[d].pc \in Framed =>
    /\ task[d].frame # None
    /\ task[d].frame # FullFrame => conn[Lease(d)] \in {None, task[d].frame}

IsLatest(d) == At(d, "completed") /\ Lease(d) \in active => conn[Lease(d)] \in Baseline

Matches(e) ==
  entry[e].base # None =>
    conn[e] = entry[e].base \/ \E d \in Caller : At(d, "completed") /\ Lease(d) = e

LEMMA ConversationParts ==
  ConversationInv <=> /\ \A d \in Caller : Fits(d) /\ IsLatest(d)
                      /\ \A e \in active : Matches(e)
  BY DEF ConversationInv, FramesFit, CompletedIsLatest, BaselinesMatch, Fits, IsLatest, Matches

(* The baseline of the entry a task plans for is its connection's latest.  *)
LEMMA PlansFromItsConnection ==
  ASSUME PoolFacts, ConversationInv, NEW c \in Caller, Holds(c), ~At(c, "completed"),
         Lease(c) \in Entry, entry[Lease(c)].base # None
  PROVE  conn[Lease(c)] = entry[Lease(c)].base
<1>1. Lease(c) \in active
  BY DEF PoolFacts
<1>2. ~\E d \in Caller : At(d, "completed") /\ Lease(d) = Lease(c)
  BY DEF PoolFacts, Holds, At, Opened
<1> QED BY <1>1, <1>2 DEF ConversationInv, BaselinesMatch

LEMMA OwnFits ==
  ASSUME TypeOK, PoolFacts, TasksKnowTheirEntry, SocketInv, ConversationInv,
         NEW c \in Caller, TaskMove(c)
  PROVE  Fits(c)' /\ IsLatest(c)'
<1>1. CASE Reserve(c)
  <2>1. task'[c].pc = "sweeping"
    BY <1>1, ReserveUse
  <2> QED BY <2>1 DEF Fits, IsLatest, Framed, At
<1>2. CASE ~Reserve(c)
  <2>1. /\ ArrivesToSpeak(c)
        /\ task'[c].pc \notin Unleased => task'[c].lease = Lease(c)
    BY <1>2, Arrivals
  <2>2. ASSUME task'[c].pc \in Framed
        PROVE  /\ task'[c].frame # None
               /\ task'[c].frame # FullFrame => conn'[Lease(c)] \in {None, task'[c].frame}
    <3>1. CASE Plan(c)
      <4>1. Holds(c) /\ ~At(c, "completed") /\ Lease(c) \in Entry
        BY <3>1, LeaseType DEF Plan, At, Holds, Acquiring, Unleased
      <4>2. PICK f : /\ Planned(c, f) /\ conn' = conn
                     /\ f = FullFrame \/ (f = entry[Lease(c)].base /\ f # None)
        BY <3>1 DEF Plan
      <4>3. task'[c].frame = f
        BY <4>2 DEF Planned, Become, TypeOK, TaskRecord
      <4>4. f # None /\ (f # FullFrame => conn[Lease(c)] = f)
        BY <4>1, <4>2, PlansFromItsConnection, TaskAssumption DEF TaskAssumption
      <4> QED BY <4>2, <4>3, <4>4
    <3>2. CASE task[c].pc \in Framed /\ task'[c].frame = task[c].frame /\ conn' = conn
      BY <3>2 DEF ConversationInv, FramesFit
    <3> QED BY <2>1, <2>2, <3>1, <3>2 DEF ArrivesToSpeak
  <2>3. ASSUME At(c, "completed")' PROVE conn'[Lease(c)] \in Baseline
    <3>1. ReceiveCompleted(c)
      BY <2>1, <2>3 DEF ArrivesToSpeak, At
    <3>2. Lease(c) \in Entry
      BY <3>1, LeaseType DEF ReceiveCompleted, At, Unleased
    <3> QED BY <3>1, <3>2 DEF ReceiveCompleted, CanComplete, TypeOK
  <2> QED BY <2>1, <2>2, <2>3 DEF Fits, IsLatest, Lease, Framed, At, Unleased
<1> QED BY <1>1, <1>2

(* Another task's step leaves the connection a task holds alone, except    *)
(* for closing it.                                                         *)
LEMMA OthersFit ==
  ASSUME TypeOK, PoolFacts, RunsAlone, TasksKnowTheirEntry, SocketInv, ConversationInv,
         NEW c \in Caller, TaskMove(c), NEW d \in Caller \ {c}
  PROVE  Fits(d)' /\ IsLatest(d)'
<1>1. Fits(d) /\ IsLatest(d) /\ GoneForGood /\ SocketsAreAttached /\ CompletedIsLatest
  BY ConversationParts DEF SocketInv, ConversationInv
<1>2. task'[d] = task[d] /\ Lease(d)' = Lease(d)
  BY OthersKeep DEF Lease
<1>3. ASSUME Holds(d) PROVE conn'[Lease(d)] \in {None, conn[Lease(d)]}
  <2>1. Lease(d) \in Entry
    BY <1>3, LeaseType DEF Holds, Acquiring, Opened, Unleased
  <2>2. CASE Reserve(c)
    BY <2>2 DEF Reserve
  <2>3. CASE ~Reserve(c)
    <3>1. ConnectsOwn(c)
      BY <1>1, <2>3, MoveUse
    <3>2. ~Opens(c, Lease(d))
      <4>1. Opens(c, Lease(d)) => Holds(c) /\ Lease(c) = Lease(d)
        BY DEF Opens, At, Holds, Acquiring, Opened
      <4> QED BY <1>3, <4>1 DEF PoolFacts
    <3> QED BY <2>1, <3>1, <3>2 DEF ConnectsOwn
  <2> QED BY <2>2, <2>3
<1>4. At(d, "completed") => conn' = conn /\ active' = active
  <2>1. ASSUME At(d, "completed") PROVE Start(c)
    BY <2>1, MoverRuns DEF RunsAlone, LoopFree, Running, RunPoint, At
  <2> QED BY <2>1 DEF Start, poolVars
<1>5. task[d].pc \in Framed => Holds(d)
  BY DEF Framed, Holds, Opened
<1> QED BY <1>1, <1>2, <1>3, <1>4, <1>5 DEF Fits, IsLatest, At

LEMMA TaskMatches ==
  ASSUME TypeOK, PoolFacts, RunsAlone, TasksKnowTheirEntry, SocketInv, ConversationInv,
         NEW c \in Caller, TaskMove(c), NEW e \in active'
  PROVE  Matches(e)'
<1>1. GoneForGood /\ SocketsAreAttached /\ CompletedIsLatest /\ active \subseteq Entry
  BY DEF SocketInv, ConversationInv, PoolFacts, PoolTypeOK
<1>2. \A d \in Caller \ {c} : At(d, "completed") /\ Lease(d) = e =>
        At(d, "completed")' /\ Lease(d)' = e
  BY OthersKeep DEF At, Lease
<1>3. CASE Reserve(c)
  <2>1. PICK f \in Entry, g \in SUBSET Entry :
          /\ active' \subseteq (active \ g) \cup {f} /\ (Reuses \/ Creates(f))
    BY <1>3, ReserveUse
  <2>2. conn' = conn /\ ~At(c, "completed")
    BY <1>3 DEF Reserve, Reserving, At
  <2>3. entry'[e].base = None \/ (e \in active /\ entry'[e].base = entry[e].base)
    BY <2>1 DEF Reuses, Creates
  <2>4. \A d \in Caller : At(d, "completed") /\ Lease(d) = e => At(d, "completed")' /\ Lease(d)' = e
    BY <1>2, <2>2
  <2> QED BY <2>2, <2>3, <2>4 DEF Matches, ConversationInv, BaselinesMatch
<1>4. CASE ~Reserve(c)
  <2>1. RemovesOwn(c) /\ ConnectsOwn(c) /\ PlansOwn(c)
    BY <1>1, <1>4, MoveUse
  <2>2. e \in active /\ e \in Entry
    BY <1>1, <2>1 DEF RemovesOwn
  <2>3. CASE entry'[e].base = None
    BY <2>3 DEF Matches
  <2>4. CASE At(c, "completed") /\ Lease(c) = e
    <3>1. CloseCompleted(c)
      BY <2>4 DEF TaskMove, CallerStep, CancelStep, At, Start, Reserve, Reserving, ReserveRefused,
         Sweep, Connect, Rejected, Plan, AcquireFailed, Raise, CheckValid, Leave, Sent,
         Interrupted, Timeout, Drained, Receive, Continue, ReceiveCompleted, ReceiveMissing,
         CloseFailed, ScheduleExpiry, Ended, CancelAcquire, CancelRaise, CancelStream
    <3>2. CASE ReleaseDrop(e, TRUE, IsManual(c))
      BY <3>2 DEF ReleaseDrop, RemoveEntries
    <3>3. CASE ReleaseKeep(e, IsManual(c), conn[e]) /\ conn' = conn
      <4>1. entry'[e].base = conn[e]
        BY <2>2, <3>3, PoolFacts DEF PoolFacts, PoolTypeOK, EntryRecord, ReleaseKeep, Returned
      <4> QED BY <3>3, <4>1 DEF Matches
    <3> QED BY <2>4, <3>1, <3>2, <3>3 DEF CloseCompleted
  <2>5. CASE ~(At(c, "completed") /\ Lease(c) = e) /\ entry'[e].base # None
    <3>1. entry'[e].base = entry[e].base /\ Matches(e)
      BY <2>1, <2>2, <2>5, ConversationParts DEF PlansOwn
    <3>2. CASE \E d \in Caller : At(d, "completed") /\ Lease(d) = e
      BY <1>2, <2>5, <3>2 DEF Matches
    <3>3. CASE conn[e] = entry[e].base
      <4>1. CASE conn'[e] = conn[e]
        BY <3>1, <3>3, <4>1 DEF Matches
      <4>2. CASE Opens(c, e)
        <5>1. entry[e].attached
          BY <1>1, <2>2, <2>5, <3>1, <3>3 DEF SocketsAreAttached
        <5>2. At(c, "receiving") /\ Lease(c) = e
          BY <1>1, <4>2, <5>1 DEF Opens, SocketsAreAttached
        <5>3. CASE conn' = conn
          BY <4>1, <5>3
        <5>4. CASE ReceiveCompleted(c)
          <6>1. entry[e].valid
            BY <2>2 DEF PoolFacts
          <6>2. task'[c].pc = "completed" /\ SameLocals(c)
            BY <5>2, <5>4, <6>1, MovedFields DEF ReceiveCompleted
          <6> QED BY <5>2, <6>2 DEF Matches, At, Lease, SameLocals
        <5>5. CASE ~(conn' = conn) /\ ~ReceiveCompleted(c)
          <6>1. Drops(c)
            BY <1>4, <5>2, <5>5, PoolMoves
               DEF Drops, Connect, Plan, CloseCompleted, ScheduleExpiry, At, Reserve, poolVars,
                   TasksKnowTheirEntry
          <6> QED BY <5>2, <6>1 DEF Drops, ReleaseDrop, RemoveEntries
        <5> QED BY <5>3, <5>4, <5>5
      <4> QED BY <2>1, <2>2, <4>1, <4>2 DEF ConnectsOwn
    <3> QED BY <2>5, <3>1, <3>2, <3>3 DEF Matches
  <2> QED BY <2>3, <2>4, <2>5
<1> QED BY <1>3, <1>4

LEMMA ConversationStep ==
  ASSUME TypeOK, PoolFacts, RunsAlone, TasksKnowTheirEntry, SocketInv, ConversationInv,
         [Next]_vars
  PROVE  ConversationInv'
<1>1. ASSUME NEW c \in Caller, TaskMove(c) PROVE ConversationInv'
  BY <1>1, OwnFits, OthersFit, TaskMatches, ConversationParts
     DEF ConversationInv, FramesFit, CompletedIsLatest, BaselinesMatch, Fits, IsLatest, Matches
<1>2. CASE EnvironmentMove
  <2>1. task' = task
    BY <1>2, EnvironmentWaits DEF EnvironmentMove
  <2>2. /\ active' \subseteq active /\ ClosesGone
        /\ \A f \in active' : entry'[f].base = entry[f].base
    BY <1>2, EnvironmentUse DEF SocketInv
  <2>3. ASSUME NEW d \in Caller PROVE Fits(d)' /\ IsLatest(d)'
    <3>1. Fits(d) /\ IsLatest(d) /\ (Holds(d) => Lease(d) \in Entry)
      BY ConversationParts, LeaseType DEF Holds, Acquiring, Opened, Unleased
    <3>2. Holds(d) => conn'[Lease(d)] \in {None, conn[Lease(d)]}
      BY <2>2, <3>1 DEF ClosesGone
    <3>3. Holds(d) /\ Lease(d) \in active' => conn'[Lease(d)] = conn[Lease(d)]
      BY <2>2, <3>1 DEF ClosesGone
    <3> QED BY <2>1, <2>2, <3>1, <3>2, <3>3 DEF Fits, IsLatest, Holds, Framed, Opened, At, Lease
  <2>4. ASSUME NEW e \in active' PROVE Matches(e)'
    <3>1. e \in active /\ conn'[e] = conn[e] /\ entry'[e].base = entry[e].base
      BY <2>2 DEF ClosesGone, PoolFacts, PoolTypeOK
    <3> QED BY <2>1, <3>1, ConversationParts DEF Matches, At, Lease
  <2> QED BY <2>3, <2>4
          DEF ConversationInv, FramesFit, CompletedIsLatest, BaselinesMatch, Fits, IsLatest, Matches
<1>3. CASE UNCHANGED vars
  BY <1>3 DEF vars, poolVars, ConversationInv, FramesFit, CompletedIsLatest, BaselinesMatch, At, Lease
<1> QED BY <1>1, <1>2, <1>3, NextCases DEF EnvironmentMove

-----------------------------------------------------------------------------
(* The assumptions of the contract are those of the pool.                  *)
LEMMA FiniteSessions == P!IsFiniteSet(Session)
  BY FiniteAssumption DEF P!IsFiniteSet, IsFiniteSet, FiniteAssumption

LEMMA Limits == P!LimitsAssumption /\ P!NoneAssumption
  BY LimitsAssumption, NoneAssumption
     DEF LimitsAssumption, NoneAssumption, P!LimitsAssumption, P!NoneAssumption

(* The tasks begin where the contract does.                                *)
LEMMA ContractInit == Init => P!Init
<1> SUFFICES ASSUME Init PROVE P!Init
  OBVIOUS
<1>1. P!PoolInit
  BY DEF Init, PoolInit, Blank, NewEntry, FreeTimer, P!PoolInit, P!Blank, P!NewEntry, P!FreeTimer
<1>2. \A c \in Caller : task[c].pc = "idle" /\ Lease(c) = None
  BY DEF Init, NoTask, Lease
<1>3. LeasePc = [c \in Caller |-> "idle"]
  <2>1. LeasePlace("idle") = "idle"
    BY Places DEF Unleased
  <2> QED BY <1>2, <2>1 DEF LeasePc
<1>4. LeaseEntry = [c \in Caller |-> None] /\ LeaseManual = [c \in Caller |-> FALSE]
  BY <1>2 DEF LeaseEntry, LeaseManual
<1> QED BY <1>1, <1>3, <1>4 DEF P!Init

LEMMA TaskInit == Init => TaskInv
<1> SUFFICES ASSUME Init PROVE TaskInv
  OBVIOUS
<1>1. P!IInv
  BY ContractInit, P!InvInit, FiniteSessions, Limits
     DEF P!LimitsAssumption, P!NoneAssumption, P!FiniteAssumption
<1>2. \A c \in Caller : task[c] = NoTask
  BY DEF Init
<1>3. TypeOK
  <2>1. PoolTypeOK
    BY <1>1 DEF P!IInv, P!TypeOK, P!PoolTypeOK, PoolTypeOK, P!EntryRecord, EntryRecord,
           P!TimerRecord, TimerRecord
  <2>2. NoTask \in TaskRecord /\ NoCloser \in CloserRecord
    BY NoTaskType DEF NoCloser, CloserRecord
  <2> HIDE DEF NoTask, NoCloser
  <2> QED BY <2>1, <2>2 DEF Init, TypeOK
<1>4. P!DroppedIsGone
  <2>1. \A c \in Caller : task[c].pc \notin Parted
    BY <1>2 DEF NoTask, Parted
  <2> QED BY <1>3, <2>1, PlacesBack DEF P!DroppedIsGone
<1>5. ControlInv
  <2>1. RunsAlone
    BY <1>2 DEF RunsAlone, Running, RunPoint, NoTask
  <2>2. TasksKnowTheirEntry
    BY <1>2 DEF TasksKnowTheirEntry, NoTask, At, Unleased
  <2>3. SubmissionsAreCounted
    BY <1>2 DEF Init, SubmissionsAreCounted, NoTask, At, Unsent, Unleased
  <2> QED BY <1>3, <2>1, <2>2, <2>3 DEF ControlInv
<1>6. SocketInv
  <2>1. GoneForGood /\ ClosersLoop
    BY <1>2 DEF Init, PoolInit, GoneForGood, ClosersLoop, NoTask, NoCloser
  <2>2. SocketsAreAttached
    BY <1>2 DEF Init, SocketsAreAttached, NoTask, At, Parted
  <2> QED BY <2>1, <2>2 DEF SocketInv
<1>7. ConversationInv
  BY <1>2 DEF Init, PoolInit, ConversationInv, FramesFit, Framed, CompletedIsLatest,
       BaselinesMatch, NoTask, At
<1> QED BY <1>1, <1>4, <1>5, <1>6, <1>7, SameInvariant DEF TaskInv

(* The pool's own invariant is kept by what the tasks do, and what it says *)
(* of them leads to the rest: types, counts, sockets, conversations.       *)
LEMMA TaskInvStep ==
  ASSUME TaskInv, [Next]_vars
  PROVE  TaskInv' /\ [P!Next]_P!vars
<1>1. /\ TypeOK /\ RunsAlone /\ TasksKnowTheirEntry /\ SubmissionsAreCounted /\ SocketInv
      /\ ConversationInv /\ P!IInv /\ P!DroppedIsGone
  BY SameInvariant DEF TaskInv, ControlInv
<1>2. PoolFacts
  BY <1>1, PoolMeaning
<1>3. [P!Next]_P!vars
  BY <1>1, <1>2, ContractStep DEF SocketInv, ConversationInv
<1>4. P!IInv'
  <2>1. P!IInv /\ [P!Next]_P!vars => P!IInv'
    BY P!InvStep, FiniteSessions, Limits
       DEF P!LimitsAssumption, P!NoneAssumption, P!FiniteAssumption
  <2> QED BY <1>1, <1>3, <2>1
<1>5. P!DroppedIsGone'
  <2>1. P!TypeOK
    BY <1>1 DEF P!IInv
  <2>2. P!TypeOK /\ P!DroppedIsGone /\ [P!Next]_P!vars => P!DroppedIsGone'
    BY P!DroppedStep, FiniteSessions, Limits
       DEF P!LimitsAssumption, P!NoneAssumption, P!FiniteAssumption
  <2> QED BY <1>1, <1>3, <2>1, <2>2
<1>6. TypeOK'
  <2>1. LocalTypeOK'
    BY <1>1, LocalTypeStep
  <2>2. PoolTypeOK'
    BY <1>4 DEF P!IInv, P!TypeOK, P!PoolTypeOK, PoolTypeOK, P!EntryRecord, EntryRecord,
           P!TimerRecord, TimerRecord
  <2> QED BY <2>1, <2>2 DEF TypeOK, LocalTypeOK
<1>7. RunsAlone' /\ TasksKnowTheirEntry' /\ SubmissionsAreCounted'
  BY <1>1, RunsAloneStep, KnowStep, CountStep
<1>8. SocketInv'
  BY <1>1, <1>2, SocketStep DEF ConversationInv
<1>9. ConversationInv'
  BY <1>1, <1>2, ConversationStep
<1>10. (P!IInv <=> Leases!IInv)' /\ (P!DroppedIsGone <=> Leases!DroppedIsGone)'
  BY SameInvariant, PTL
<1> QED BY <1>3, <1>4, <1>5, <1>6, <1>7, <1>8, <1>9, <1>10 DEF TaskInv, ControlInv

(* The strengthened invariant of the tasks holds in every reachable state, *)
(* for any number of tasks, closing tasks, sessions, entries and timers.   *)
THEOREM TaskInvariant == Spec => []TaskInv
<1>1. TaskInv /\ [Next]_vars => TaskInv'
  BY TaskInvStep
<1> QED BY <1>1, TaskInit, PTL DEF Spec

(* A streaming task keeps the contract of the pool wherever it is          *)
(* cancelled: its calls to reserve, attach, release and schedule,          *)
(* interleaved with timers, aclose_session() and aclose(), are steps of    *)
(* SessionLeases or none of its steps.                                     *)
THEOREM TasksKeepTheContract == Spec => PoolContract
<1>1. Init => Leases!Init
  BY ContractInit, SameInit
<1>2. TaskInv /\ [Next]_vars => [Leases!Next]_Leases!vars
  BY TaskInvStep, SameSteps
<1> QED BY <1>1, <1>2, TaskInvariant, PTL DEF Spec, PoolContract, Leases!Spec

-----------------------------------------------------------------------------
(* What follows for the tasks themselves.                                  *)

(* Every variable of the tasks keeps its type.                             *)
THEOREM TypeInvariant == Spec => []TypeOK
<1>1. TaskInv => TypeOK
  BY DEF TaskInv, ControlInv
<1> QED BY <1>1, TaskInvariant, PTL

(* wait_for_io leaves no send or recv behind: one that still runs belongs  *)
(* to a stream that waits for it, and no connection has two readers.       *)
THEOREM ReadsAreDrained == Spec => []IoIsDrained
<1>1. TaskInv => IoIsDrained
  <2> SUFFICES ASSUME TaskInv PROVE IoIsDrained
    OBVIOUS
  <2>1. PoolFacts
    BY PoolMeaning, SameInvariant DEF TaskInv, ControlInv
  <2>2. \A c \in Caller : task[c].io => task[c].pc \in {"sending", "receiving", "draining"}
    BY DEF TaskInv, ControlInv, TasksKnowTheirEntry
  <2>3. \A c \in Caller : task[c].io => Holds(c)
    BY <2>2 DEF Holds, Opened
  <2> QED BY <2>1, <2>2, <2>3 DEF PoolFacts, IoIsDrained
<1> QED BY <1>1, TaskInvariant, PTL

(* A continuation is sent on the connection that completed the response it *)
(* continues, also after a recovery has moved the stream to another one.   *)
THEOREM ContinuationsFit == Spec => []ContinuesItsConnection
<1>1. TaskInv => ContinuesItsConnection
  BY DEF TaskInv, ConversationInv, FramesFit, Framed, ContinuesItsConnection
<1> QED BY <1>1, TaskInvariant, PTL

(* The recovery of events() submits a request a second time at most, and   *)
(* only if the consumer was given no output of it; the SSE fallback of     *)
(* open() follows no submission: cancelled or not.                         *)
THEOREM NothingIsResubmitted == Spec => []NoResubmission
<1>1. TaskInv => NoResubmission
  <2> SUFFICES ASSUME SubmissionsAreCounted, TypeOK PROVE NoResubmission
    BY DEF TaskInv, ControlInv
  <2> SUFFICES ASSUME NEW c \in Caller
               PROVE  /\ submits[c] <= IF task[c].recovered THEN 2 ELSE 1
                      /\ At(c, "sending") => ~task[c].delivered
                      /\ At(c, "sse") => submits[c] = 0 /\ task[c].failure = "ConnectFailure"
    BY DEF NoResubmission
  <2>1. submits[c] \in 0..2 /\ task[c].recovered \in BOOLEAN
    BY DEF TypeOK, TaskRecord
  <2>2. submits[c] <= (IF task[c].recovered THEN 1 ELSE 0)
                        + (IF task[c].pc \in Unsent THEN 0 ELSE 1)
    BY DEF SubmissionsAreCounted
  <2>3. submits[c] <= IF task[c].recovered THEN 2 ELSE 1
    BY <2>1, <2>2
  <2>4. At(c, "sse") => ~task[c].recovered /\ task[c].failure = "ConnectFailure"
    BY DEF SubmissionsAreCounted
  <2>5. At(c, "sse") => task[c].pc \in Unsent
    BY DEF At, Unsent
  <2>6. At(c, "sse") => submits[c] = 0
    BY <2>1, <2>2, <2>4, <2>5
  <2>7. At(c, "sending") => ~task[c].delivered
    BY DEF At, SubmissionsAreCounted
  <2> QED BY <2>3, <2>4, <2>6, <2>7
<1> QED BY <1>1, TaskInvariant, PTL

(* What is proved of every caller that keeps the contract holds of the     *)
(* tasks: the pool never takes a connection in use away for capacity or    *)
(* idleness, never expires one early, keeps no one-shot lease, never holds *)
(* more sessions than its limit, and is empty once closed.                 *)
THEOREM TasksInheritTheContract ==
  Spec => /\ [](P!LeaseExclusive /\ P!BusyMeansHeld /\ P!IdleIsReusable /\ P!Capacity)
          /\ [](P!ClosedIsEmpty /\ P!OneEndpoint /\ P!IdleIsTimed)
          /\ P!NeverExpiredEarly /\ P!BusyNeverEvicted /\ P!OneShotIsDropped
<1>1. Spec => P!Spec
  <2>1. TaskInv /\ [Next]_vars => [P!Next]_P!vars
    BY TaskInvStep
  <2> QED BY <2>1, ContractInit, TaskInvariant, PTL DEF Spec, P!Spec
<1>2. P!Spec => []P!IInv
  BY P!Inductive, FiniteSessions, Limits
     DEF P!LimitsAssumption, P!NoneAssumption, P!FiniteAssumption
<1>3. P!IInv => /\ P!LeaseExclusive /\ P!BusyMeansHeld /\ P!IdleIsReusable /\ P!Capacity
                /\ P!ClosedIsEmpty /\ P!OneEndpoint /\ P!IdleIsTimed
  BY DEF P!IInv
<1>4. P!Spec => P!NeverExpiredEarly
  BY P!ExpiryIsNeverEarly, FiniteSessions, Limits
     DEF P!LimitsAssumption, P!NoneAssumption, P!FiniteAssumption
<1>5. P!Spec => P!BusyNeverEvicted
  BY P!BusyIsNeverEvicted, FiniteSessions, Limits
     DEF P!LimitsAssumption, P!NoneAssumption, P!FiniteAssumption
<1>6. P!Spec => P!OneShotIsDropped
  BY P!OneShotsAreDropped, FiniteSessions, Limits
     DEF P!LimitsAssumption, P!NoneAssumption, P!FiniteAssumption
<1> QED BY <1>1, <1>2, <1>3, <1>4, <1>5, <1>6, PTL

-----------------------------------------------------------------------------
(* Who has lost the owner of an open socket.                               *)

(* A task gives its lease back at the end of a closed connection, or after *)
(* it returned the entry to the pool.                                      *)
LEMMA Departs ==
  ASSUME TypeOK, TasksKnowTheirEntry, NEW c \in Caller, TaskMove(c), ~Reserve(c), Lease(c) # None
  PROVE  \/ task'[c].lease = Lease(c)
         \/ task[c].pc \in Parted /\ conn' = conn
         \/ At(c, "scheduling") /\ active' = active /\ conn' = conn
<1>1. ASSUME NEW p, Goto(c, p) \/ StopIo(c, p) \/ \E error : Fail(c, error, p)
      PROVE  task'[c].lease = Lease(c)
  BY <1>1, MovedFields DEF SameLocals, Lease
<1>2. ASSUME NEW r \in TaskRecord, Become(c, r), r.lease = task[c].lease
      PROVE  task'[c].lease = Lease(c)
  BY <1>2 DEF Become, TypeOK, Lease
<1>3. task[c] \in TaskRecord
  BY DEF TypeOK
<1>4. CASE Start(c) \/ ReserveRefused(c)
  <2>1. At(c, "recovering") /\ conn' = conn
    BY <1>4 DEF Start, ReserveRefused, Reserving, At, TasksKnowTheirEntry, Unleased, Lease
  <2> QED BY <2>1 DEF At, Parted
<1>5. CASE Raise(c) \/ Ended(c) \/ CancelRaise(c)
  BY <1>5 DEF Raise, Ended, CancelRaise, Parted
<1>6. CASE ScheduleExpiry(c)
  BY <1>6 DEF ScheduleExpiry, Schedule, ScheduleNothing, poolVars
<1>7. CASE \/ Rejected(c) \/ AcquireFailed(c) \/ Leave(c) \/ Sent(c) \/ Interrupted(c)
           \/ Timeout(c) \/ Drained(c) \/ ReceiveCompleted(c) \/ CancelStream(c)
  <2>1. \E p : Goto(c, p) \/ StopIo(c, p)
    BY <1>7 DEF Rejected, AcquireFailed, Leave, Sent, Interrupted, Timeout, Drained,
       ReceiveCompleted, CancelStream
  <2> QED BY <1>1, <2>1
<1>8. CASE Sweep(c)
  <2>1. \A e : [task[c] EXCEPT !.pc = "swept", !.garbage = @ \ {e}].lease = task[c].lease
    BY <1>3 DEF TaskRecord
  <2>2. CASE \E e \in task[c].garbage :
               Become(c, [task[c] EXCEPT !.pc = "swept", !.garbage = @ \ {e}])
    BY <2>1, <2>2 DEF Become, TypeOK, Lease
  <2> QED BY <1>1, <1>8, <2>2 DEF Sweep
<1>9. CASE Connect(c)
  <2>1. \E p : Goto(c, p) \/ \E error : Fail(c, error, p)
    BY <1>9 DEF Connect
  <2> QED BY <1>1, <2>1
<1>10. CASE Plan(c)
  <2>1. PICK f : Planned(c, f)
    BY <1>10 DEF Plan
  <2> QED BY <1>3, <2>1 DEF Planned, Become, TypeOK, TaskRecord, Lease
<1>11. CASE CheckValid(c) \/ Receive(c) \/ Continue(c)
  <2>1. CASE \E p : Goto(c, p) \/ StopIo(c, p)
    BY <1>1, <2>1
  <2>2. CASE Become(c, [task[c] EXCEPT !.pc = "sending", !.io = TRUE, !.seen = FALSE])
    BY <1>3, <2>2 DEF Become, TypeOK, TaskRecord, Lease
  <2>3. CASE \E output \in BOOLEAN :
               Become(c, [task[c] EXCEPT !.pc = "yielded", !.io = FALSE,
                                         !.seen = @ \/ output, !.delivered = @ \/ output])
    BY <1>3, <2>3 DEF Become, TypeOK, TaskRecord, Lease
  <2>4. CASE Become(c, [task[c] EXCEPT !.pc = "receiving", !.io = TRUE])
    BY <1>3, <2>4 DEF Become, TypeOK, TaskRecord, Lease
  <2> QED BY <1>11, <2>1, <2>2, <2>3, <2>4 DEF CheckValid, Receive, Continue
<1>12. CASE ReceiveMissing(c)
  <2>1. CASE StopIo(c, "finishing")
    BY <1>1, <2>1
  <2>2. CASE Become(c, [task[c] EXCEPT !.pc = "recovering", !.io = FALSE, !.recovered = TRUE])
    BY <1>3, <2>2 DEF Become, TypeOK, TaskRecord, Lease
  <2> QED BY <1>12, <2>1, <2>2 DEF ReceiveMissing
<1>13. CASE CloseCompleted(c) \/ CloseFailed(c)
  <2>1. Finish(c) \/ Goto(c, "scheduling")
    BY <1>13 DEF CloseCompleted, CloseFailed
  <2> QED BY <1>1, <2>1, EndFields
<1>14. CASE CancelAcquire(c)
  BY <1>3, <1>14 DEF CancelAcquire, Become, TypeOK, TaskRecord, Lease
<1> QED BY <1>4, <1>5, <1>6, <1>7, <1>8, <1>9, <1>10, <1>11, <1>12, <1>13, <1>14
        DEF TaskMove, CallerStep, CancelStep

(* The garbage of a reserve is closed, unless the sweep is cancelled.      *)
LEMMA Sweeps ==
  ASSUME TypeOK, TasksKnowTheirEntry, NEW c \in Caller, TaskMove(c), NEW e \in task[c].garbage,
         ~(At(c, "swept") /\ task'[c].pc = "failing")
  PROVE  e \in task'[c].garbage \/ conn' = Closed({e})
<1>1. task[c].pc \in {"sweeping", "swept"} /\ task[c] \in TaskRecord
  BY DEF TasksKnowTheirEntry, TypeOK
<1>2. Sweep(c) \/ CancelAcquire(c)
  BY <1>1 DEF TaskMove, Start, CallerStep, Continue, CancelStep, Reserve, Reserving, ReserveRefused,
     Connect, Rejected, Plan, AcquireFailed, Raise, CheckValid, Leave, Sent, Interrupted, Timeout,
     Drained, Receive, ReceiveCompleted, ReceiveMissing, CloseCompleted, CloseFailed,
     ScheduleExpiry, Ended, CancelRaise, CancelStream, At
<1>3. CASE Sweep(c)
  <2>1. PICK f \in task[c].garbage :
          /\ conn' = Closed({f})
          /\ Become(c, [task[c] EXCEPT !.pc = "swept", !.garbage = @ \ {f}])
    BY <1>3 DEF Sweep
  <2>2. task'[c].garbage = task[c].garbage \ {f}
    BY <1>1, <2>1 DEF Become, TypeOK, TaskRecord
  <2> QED BY <2>1, <2>2
<1>4. CASE CancelAcquire(c)
  <2>1. At(c, "swept") /\ task'[c].pc = "failing"
    BY <1>1, <1>4 DEF CancelAcquire, Become, At, TypeOK, TaskRecord
  <2> QED BY <2>1
<1> QED BY <1>2, <1>3, <1>4

(* Whoever owns an open socket still owns it after the step of a task, or  *)
(* the pool has given it to that task, unless a sweep is cancelled.        *)
LEMMA TaskOwners ==
  ASSUME TypeOK, PoolFacts, TasksKnowTheirEntry, SocketInv, CompletedIsLatest,
         NEW c \in Caller, TaskMove(c), ~(At(c, "swept") /\ task'[c].pc = "failing"),
         NEW e \in Entry, conn'[e] # None, conn[e] # None => Owned(e)
  PROVE  Owned(e)'
<1>1. GoneForGood /\ SocketsAreAttached /\ closer' = closer
  BY OthersKeep DEF SocketInv
<1>2. \A d \in Caller \ {c} : task'[d] = task[d]
  BY OthersKeep
<1>3. Closed({e})[e] = None
  BY <1>1, ClosedIsNone
<1>4. DisposingStays
  BY <1>1, MoveUse, ReserveUse
<1>5. ASSUME conn[e] = None PROVE Owned(e)'
  <2>1. ~Reserve(c)
    BY <1>5 DEF Reserve
  <2>2. Opens(c, e) /\ At(c, "connecting")
    BY <1>1, <1>5, <2>1, MoveUse DEF ConnectsOwn, Opens
  <2>3. task'[c].lease = Lease(c) /\ Lease(c) = e
    BY <1>5, <2>1, <2>2, Arrivals DEF Opens, Unleased
  <2> QED BY <2>3 DEF Owned, Lease
<1>6. ASSUME e \in active, conn[e] # None PROVE Owned(e)'
  <2>1. CASE Reserve(c)
    <3>1. PICK f \in Entry, g \in SUBSET Entry :
            task'[c].garbage = WithSocket(g) /\ active \ g \subseteq active'
      BY <2>1, ReserveUse
    <3>2. entry[e].attached
      BY <1>1, <1>6 DEF SocketsAreAttached
    <3>3. e \in g => e \in task'[c].garbage
      BY <3>1, <3>2 DEF WithSocket
    <3>4. e \notin g => e \in active'
      BY <1>6, <3>1
    <3> QED BY <3>3, <3>4 DEF Owned
  <2>2. CASE ~Reserve(c)
    <3>1. e \in active'
      BY <1>1, <1>6, <2>2, MoveUse DEF RemovesOwn
    <3> QED BY <3>1 DEF Owned
  <2> QED BY <2>1, <2>2
<1>7. ASSUME Lease(c) = e, conn[e] # None PROVE Owned(e)'
  <2>1. ~(task[c].pc \in Parted)
    BY <1>1, <1>7 DEF SocketsAreAttached
  <2>2. task[c].pc \notin Unleased /\ Lease(c) # None
    BY <1>7, NoneAssumption DEF TasksKnowTheirEntry, NoneAssumption, Lease
  <2>3. ~Reserve(c)
    BY <2>1, <2>2 DEF Reserve, Reserving, Parted, Unleased
  <2>4. CASE task'[c].lease = Lease(c)
    BY <1>7, <2>4 DEF Owned, Lease
  <2>5. CASE At(c, "scheduling") /\ active' = active
    BY <1>1, <1>7, <2>5 DEF SocketsAreAttached, Owned
  <2> QED BY <2>1, <2>2, <2>3, <2>4, <2>5, Departs
<1>8. ASSUME e \in task[c].garbage PROVE Owned(e)'
  <2>1. e \in task'[c].garbage
    BY <1>3, <1>8, Sweeps
  <2> QED BY <2>1 DEF Owned
<1>9. ASSUME NEW d \in Caller \ {c}, Lease(d) = e \/ e \in task[d].garbage PROVE Owned(e)'
  BY <1>2, <1>9 DEF Owned, Lease
<1>10. ASSUME NEW k \in Closer, e \in closer[k].todo PROVE Owned(e)'
  BY <1>1, <1>10 DEF Owned
<1>11. ASSUME NEW t \in Timer, timers[t].state = "disposing", timers[t].entry = e PROVE Owned(e)'
  <2>1. timers'[t].state = "disposing" /\ timers'[t].entry = e
    BY <1>4, <1>11 DEF DisposingStays
  <2> QED BY <2>1 DEF Owned, Cleaning
<1>12. CASE conn[e] # None
  <2>1. \/ e \in active
        \/ \E d \in Caller : Lease(d) = e \/ e \in task[d].garbage
        \/ \E k \in Closer : e \in closer[k].todo
        \/ \E t \in Timer : timers[t].state = "disposing" /\ timers[t].entry = e
    BY <1>12 DEF Owned, Cleaning
  <2> QED BY <1>6, <1>7, <1>8, <1>9, <1>10, <1>11, <1>12, <2>1
<1> QED BY <1>5, <1>12

(* The same of a timer, a closing task that is not cancelled, and time.    *)
LEMMA EnvironmentOwners ==
  ASSUME TypeOK, PoolFacts, RunsAlone, SocketInv, EnvironmentMove,
         ~\E k \in Closer : CancelClose(k) \/ CancelCleanup(k),
         NEW e \in Entry, conn'[e] # None, conn[e] # None => Owned(e)
  PROVE  Owned(e)'
<1>1. GoneForGood /\ ClosersLoop /\ SocketsAreAttached /\ PoolTypeOK
  BY DEF SocketInv, PoolFacts
<1>2. task' = task
  BY EnvironmentWaits DEF EnvironmentMove
<1>3. Owned(e) /\ entry[e].attached
  BY <1>1, EnvironmentUse DEF ClosesGone, SocketsAreAttached
<1>4. Closed({e})[e] = None
  BY <1>1, ClosedIsNone
<1>5. ASSUME NEW t \in Timer, timers[t].state = "disposing", timers[t].entry = e
      PROVE  timers'[t].state = "disposing" /\ timers'[t].entry = e
  <2>1. ASSUME NEW u \in Timer, Dispose(u), conn' = Closed({timers[u].entry})
        PROVE  timers'[t].state = "disposing" /\ timers'[t].entry = e
    <3>1. u # t
      BY <1>4, <1>5, <2>1
    <3> QED BY <1>1, <1>5, <2>1, <3>1 DEF Dispose, PoolTypeOK
  <2>2. ASSUME NEW u \in Timer, Fire(u) \/ Expire(u)
        PROVE  timers'[t].state = "disposing" /\ timers'[t].entry = e
    BY <1>1, <1>5, <2>2, TimerUse
  <2>3. ASSUME NEW k \in Closer, Clear(k) PROVE timers'[t].state = "disposing" /\ timers'[t].entry = e
    <3>1. \E gone : RemoveEntries(gone)
      BY <2>3 DEF Clear, ClearSession, ClearAll
    <3> QED BY <1>1, <1>5, <3>1, RemoveUse DEF DisposingStays
  <2>4. CASE Pass
    BY <1>1, <1>5, <2>4, TickUse DEF Pass, DisposingStays
  <2>5. ASSUME NEW k \in Closer, CloserStep(k) PROVE timers' = timers
    BY <2>5 DEF CloserStep, CloseNext, Gathered, poolVars
  <2> QED BY <1>5, <2>1, <2>2, <2>3, <2>4, <2>5 DEF EnvironmentMove, CloserMove, TimerStep
<1>6. ASSUME NEW k \in Closer, e \in closer[k].todo PROVE e \in closer'[k].todo
  <2>1. closer[k].pc \in {"clearing", "closing"} /\ closer[k] \in CloserRecord
    BY <1>1, <1>6 DEF ClosersLoop, TypeOK
  <2>2. ASSUME NEW j \in Closer, Clear(j) PROVE e \in closer'[k].todo
    <3>1. j # k
      BY <2>1, <2>2 DEF Clear
    <3> QED BY <1>6, <2>2, <3>1 DEF Clear, TypeOK
  <2>3. ASSUME NEW j \in Closer, CloseNext(j) PROVE e \in closer'[k].todo
    <3>1. CASE j # k
      BY <1>6, <2>3, <3>1 DEF CloseNext, TypeOK
    <3>2. CASE j = k
      <4>1. PICK f \in closer[k].todo :
              /\ conn' = Closed({f})
              /\ closer' = [closer EXCEPT ![k].pc = "closing", ![k].todo = @ \ {f}]
        BY <1>6, <2>3, <3>2 DEF CloseNext
      <4>2. closer'[k].todo = closer[k].todo \ {f}
        BY <2>1, <4>1 DEF TypeOK, CloserRecord
      <4>3. f # e
        BY <1>4, <4>1
      <4> QED BY <1>6, <4>2, <4>3
    <3> QED BY <3>1, <3>2
  <2>4. ASSUME NEW j \in Closer, Gathered(j) PROVE e \in closer'[k].todo
    <3>1. j # k
      BY <2>1, <2>4 DEF Gathered
    <3> QED BY <1>6, <2>4, <3>1 DEF Gathered, TypeOK
  <2>5. CASE Pass \/ \E t \in Timer : TimerStep(t)
    BY <1>6, <2>5 DEF Pass, TimerStep
  <2> QED BY <2>2, <2>3, <2>4, <2>5 DEF EnvironmentMove, CloserMove, CloserStep
<1>7. ASSUME e \in active PROVE Owned(e)'
  <2>1. ASSUME NEW t \in Timer, TimerStep(t) PROVE Owned(e)'
    <3>1. CASE Fire(t) \/ Expire(t)
      <4>1. \A f \in active \ active' :
              \E u \in Timer : timers'[u].state = "disposing" /\ timers'[u].entry = f
        BY <1>1, <3>1, TimerUse
      <4> QED BY <1>7, <4>1 DEF Owned, Cleaning
    <3>2. CASE Dispose(t)
      BY <1>7, <3>2 DEF Dispose, Owned
    <3> QED BY <2>1, <3>1, <3>2 DEF TimerStep
  <2>2. ASSUME NEW k \in Closer, Clear(k) PROVE Owned(e)'
    <3>1. PICK gone, b : /\ RemoveEntries(gone)
                         /\ closer' = [closer EXCEPT ![k] =
                              [pc |-> "clearing", todo |-> WithSocket(gone), all |-> b]]
      BY <2>2 DEF Clear, ClearSession, ClearAll
    <3>2. active' = active \ gone /\ closer'[k].todo = WithSocket(gone)
      BY <3>1 DEF RemoveEntries, TypeOK
    <3>3. e \in gone => e \in closer'[k].todo
      BY <1>3, <3>2 DEF WithSocket
    <3>4. e \notin gone => e \in active'
      BY <1>7, <3>2
    <3> QED BY <3>3, <3>4 DEF Owned
  <2>3. ASSUME \/ Pass \/ \E k \in Closer : CloserStep(k) PROVE Owned(e)'
    <3>1. active' = active
      BY <2>3 DEF Pass, Tick, CloserStep, CloseNext, Gathered, poolVars
    <3> QED BY <1>7, <3>1 DEF Owned
  <2> QED BY <2>1, <2>2, <2>3 DEF EnvironmentMove, CloserMove
<1>8. \/ e \in active
      \/ \E d \in Caller : Lease(d) = e \/ e \in task[d].garbage
      \/ \E k \in Closer : e \in closer[k].todo
      \/ \E t \in Timer : timers[t].state = "disposing" /\ timers[t].entry = e
  BY <1>3 DEF Owned, Cleaning
<1>9. ASSUME NEW d \in Caller, Lease(d) = e \/ e \in task[d].garbage PROVE Owned(e)'
  BY <1>2, <1>9 DEF Owned, Lease
<1>10. ASSUME NEW k \in Closer, e \in closer[k].todo PROVE Owned(e)'
  BY <1>6, <1>10 DEF Owned
<1>11. ASSUME NEW t \in Timer, timers[t].state = "disposing", timers[t].entry = e PROVE Owned(e)'
  <2>1. timers'[t].state = "disposing" /\ timers'[t].entry = e
    BY <1>5, <1>11
  <2> QED BY <2>1 DEF Owned, Cleaning
<1> QED BY <1>7, <1>8, <1>9, <1>10, <1>11

(* A stream, a timeout, an expiry or aclose() that is not cancelled closes *)
(* what it takes out of the pool: the owner of an open socket is lost only *)
(* when a task that closes the sockets of others is cancelled.             *)
THEOREM OnlyCancellationLeaks == Spec => OnlyCancelledCleanupLeaks
<1> DEFINE Excused == \/ \E c \in Caller : At(c, "swept") /\ task'[c].pc = "failing"
                      \/ \E k \in Closer : CancelClose(k) \/ CancelCleanup(k)
<1>1. ASSUME TaskInv, [Next]_vars, ~Excused PROVE Leaked' \subseteq Leaked
  <2>1. /\ TypeOK /\ RunsAlone /\ TasksKnowTheirEntry /\ SocketInv /\ CompletedIsLatest
        /\ PoolFacts
    BY <1>1, PoolMeaning, SameInvariant DEF TaskInv, ControlInv, ConversationInv
  <2>2. ASSUME NEW e \in Entry, conn'[e] # None, conn[e] # None => Owned(e) PROVE Owned(e)'
    <3>1. ASSUME NEW c \in Caller, TaskMove(c) PROVE Owned(e)'
      BY <1>1, <2>1, <2>2, <3>1, TaskOwners
    <3>2. CASE EnvironmentMove
      BY <1>1, <2>1, <2>2, <3>2, EnvironmentOwners
    <3>3. CASE UNCHANGED vars
      BY <2>2, <3>3 DEF vars, poolVars, Owned, Lease, Cleaning
    <3> QED BY <1>1, <3>1, <3>2, <3>3, NextCases DEF EnvironmentMove
  <2> QED BY <2>2 DEF Leaked
<1>2. TaskInv /\ [Next]_vars => [Leaked' \subseteq Leaked \/ Excused]_vars
  BY <1>1
<1> QED BY <1>2, TaskInvariant, PTL DEF Spec, OnlyCancelledCleanupLeaks
=============================================================================
