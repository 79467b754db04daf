------------------------ MODULE SessionLeases_proofs ------------------------
EXTENDS SessionLeases, SessionPool_proofs

LEMMA TypeInit == Init => TypeOK
  BY BlankType, FreeTimerType DEF Init, PoolInit, TypeOK, PoolTypeOK

(* Every step keeps the types.                                             *)
LEMMA TypeStep == TypeOK /\ [Next]_vars => TypeOK'
<1> SUFFICES ASSUME TypeOK, [Next]_vars PROVE TypeOK'
  OBVIOUS
<1> USE DEF TypeOK
<1>1. ASSUME NEW c \in Caller, ReserveCached(c) PROVE TypeOK'
  BY <1>1, ReuseType, NoneAssumption DEF NoneAssumption, ReserveCached, Leased, Goto
<1>2. ASSUME NEW c \in Caller, ReserveNew(c) PROVE TypeOK'
  BY <1>2, CreateType, NoneAssumption DEF NoneAssumption, ReserveNew, Leased, Goto
<1>3. ASSUME NEW c \in Caller, AttachSocket(c) PROVE TypeOK'
  BY <1>3, AttachType DEF AttachSocket
<1>4. ASSUME NEW c \in Caller, Plan(c) PROVE TypeOK'
  BY <1>4, AttachType DEF Plan, Goto, poolVars, PoolTypeOK
<1>5. ASSUME NEW c \in Caller, Keep(c) PROVE TypeOK'
  BY <1>5, AttachType DEF Keep, Goto
<1>6. ASSUME NEW c \in Caller, Drop(c) PROVE TypeOK'
  <2>1. PoolTypeOK'
    BY <1>6, RemoveType DEF Drop, ReleaseDrop, PoolTypeOK
  <2> QED BY <1>6, <2>1 DEF Drop, Holding, Goto
<1>7. ASSUME NEW c \in Caller, ScheduleExpiry(c) PROVE TypeOK'
  <2>1. PoolTypeOK'
    BY <1>7, ScheduleType DEF ScheduleExpiry, ScheduleNothing, poolVars, PoolTypeOK
  <2> QED BY <1>7, <2>1 DEF ScheduleExpiry, Forget, Goto
<1>8. ASSUME NEW c \in Caller, Finish(c) PROVE TypeOK'
  BY <1>8 DEF Finish, Forget, Goto, poolVars, PoolTypeOK
<1>9. ASSUME NEW t \in Timer, TimerStep(t) PROVE TypeOK'
  BY <1>9, TimerType DEF TimerStep
<1>10. CASE CloseSession
  BY <1>10, RemoveType DEF CloseSession, ClearSession, PoolTypeOK
<1>11. CASE Close
  BY <1>11, RemoveType DEF Close, ClearAll
<1>12. CASE Pass
  BY <1>12, TickType DEF Pass
<1>13. CASE UNCHANGED vars
  BY <1>13 DEF vars, poolVars, PoolTypeOK
<1> QED BY <1>1, <1>2, <1>3, <1>4, <1>5, <1>6, <1>7, <1>8, <1>9, <1>10, <1>11, <1>12, <1>13
        DEF Next

(* The variables of the pool and of its callers keep their types, and a    *)
(* caller has an entry exactly while it is not idle.                       *)
THEOREM TypeInvariant == Spec => []TypeOK
  BY TypeInit, TypeStep, PTL DEF Spec

-----------------------------------------------------------------------------
(* Cancelling the timers of some entries leaves the running timer of the   *)
(* current generation of any other active entry alone, and starts none.    *)
LEMMA CancelledFacts ==
  ASSUME TypeOK, TimerIsCurrent, NEW es \in SUBSET Entry
  PROVE  /\ \A t \in Timer : /\ Cancelled(es)[t] = timers[t]
                                \/ Cancelled(es)[t].state = "free"
         /\ \A t \in Timer : Running(t) /\ timers[t].entry \notin es
                               => Cancelled(es)[t] = timers[t]
  BY NoneAssumption DEF NoneAssumption, TypeOK, PoolTypeOK, TimerIsCurrent, Cancelled, FreeTimer, Running

(* Removing entries never makes the cache larger.                          *)
LEMMA CapacityShrinks ==
  ASSUME Capacity, NEW gone, entries' = EntriesWithout(gone)
  PROVE  Capacity'
<1>1. {s \in Session : entries'[s] # None} \subseteq {s \in Session : entries[s] # None}
  BY DEF EntriesWithout
<1>2. IsFiniteSet({s \in Session : entries[s] # None})
  BY FiniteAssumption, FS_Subset DEF FiniteAssumption
<1>3. /\ Cardinality({s \in Session : entries'[s] # None})
           <= Cardinality({s \in Session : entries[s] # None})
      /\ IsFiniteSet({s \in Session : entries'[s] # None})
  BY <1>1, <1>2, FS_Subset
<1>4. /\ Cardinality({s \in Session : entries'[s] # None}) \in Nat
      /\ Cardinality({s \in Session : entries[s] # None}) \in Nat
  BY <1>2, <1>3, FS_CardinalityType
<1> QED BY <1>3, <1>4, LimitsAssumption DEF LimitsAssumption, Capacity

(* Leasing the cached entry of a session keeps the invariant.              *)
LEMMA ReserveCachedStep ==
  ASSUME IInv, TypeOK', NEW c \in Caller, ReserveCached(c)
  PROVE  IInv'
<1> PICK s \in Session, x \in Endpoint, e \in Entry :
      Reuse(s, x, FALSE, e) /\ Leased(c, e, FALSE)
  BY DEF ReserveCached
<1> DEFINE gone == Stale(x)
<1>1. PoolTypeOK /\ PoolTypeOK' /\ TypeOK
  BY DEF IInv, TypeOK
<1>2. /\ SameLease(entry[e], entry'[e])
      /\ entry'[e].busy = TRUE /\ entry'[e].timer = None /\ entry'[e].base = entry[e].base
      /\ entry'[e].idle = 0 /\ entry'[e].generation = entry[e].generation + 1
  BY <1>1, ReuseEffect
<1>3. /\ \A f \in Entry : f \in gone => IsGone(entry[f], entry'[f])
      /\ \A f \in Entry \ {e} : f \notin gone => entry'[f] = entry[f]
      /\ entries' = EntriesWithout(gone) /\ active' = active \ gone
      /\ timers' = Cancelled(gone \cup {e})
      /\ closed = FALSE /\ closed' = FALSE
  BY <1>1, ReuseEffect
<1>4. /\ e \notin gone /\ entries[s] = e /\ ~entry[e].busy
  BY <1>1, ReuseFacts
<1>5. e \in active /\ gone \subseteq active
  BY <1>4, NoneAssumption DEF NoneAssumption, IInv, IndexesAgree, Stale
<1>6. /\ pc' = [pc EXCEPT ![c] = "leased"] /\ lease' = [lease EXCEPT ![c] = e]
      /\ ~Holding(c) /\ pc[c] # "scheduling"
  BY DEF Leased, Goto, ReserveCached, Asking, Holding
<1> HIDE DEF gone
<1>7. IndexesAgree'
  BY <1>1, <1>2, <1>3, <1>5 DEF IInv, IndexesAgree, EntriesWithout, IsGone, SameLease, PoolTypeOK
<1>8. OpenIsAttached'
  BY <1>1, <1>2, <1>3, <1>6 DEF IInv, OpenIsAttached, IsGone, SameLease, TypeOK
<1>9. LeaseExclusive'
  BY <1>1, <1>4, <1>5, <1>6 DEF IInv, LeaseExclusive, BusyMeansHeld, Holding, TypeOK
<1>10. BusyMeansHeld'
  BY <1>1, <1>2, <1>3, <1>4, <1>5, <1>6 DEF IInv, BusyMeansHeld, Holding, TypeOK, PoolTypeOK
<1>11. IdleIsReusable'
  BY <1>1, <1>2, <1>3, <1>5 DEF IInv, IdleIsReusable, EntriesWithout, PoolTypeOK
<1>12. /\ \A t \in Timer : timers'[t] = timers[t] \/ timers'[t].state = "free"
       /\ \A t \in Timer : Running(t) /\ timers[t].entry \notin gone \cup {e} => timers'[t] = timers[t]
  BY <1>1, <1>3, <1>5, CancelledFacts DEF IInv, TypeOK, PoolTypeOK
<1>13. \A f \in Entry : f \in gone \cup {e} => entry'[f].timer = None
  BY <1>2, <1>3 DEF IsGone
<1>14. TimerIsCurrent'
  <2> SUFFICES ASSUME NEW f \in Entry, entry'[f].timer # None
               PROVE  LET t == entry'[f].timer
                      IN  /\ f \in active' /\ ~entry'[f].busy
                          /\ timers'[t].state \in {"armed", "due"} /\ timers'[t].entry = f
                          /\ timers'[t].generation = entry'[f].generation
    BY DEF TimerIsCurrent, Running
  <2>1. f \notin gone \cup {e} /\ entry'[f] = entry[f]
    BY <1>3, <1>13
  <2>2. entry[f].timer \in Timer
    BY <1>1, <2>1, FieldsInRange
  <2>3. /\ f \in active /\ ~entry[f].busy
        /\ Running(entry[f].timer) /\ timers[entry[f].timer].entry = f
        /\ timers[entry[f].timer].generation = entry[f].generation
    BY <2>1 DEF IInv, TimerIsCurrent
  <2>4. timers'[entry[f].timer] = timers[entry[f].timer]
    BY <1>12, <2>1, <2>2, <2>3
  <2> QED BY <1>3, <2>1, <2>3, <2>4 DEF Running
<1>15. TimersAreOlder'
  <2> SUFFICES ASSUME NEW t \in Timer, timers'[t].state \in {"armed", "due"},
                      NEW f, f = timers'[t].entry
               PROVE  /\ f \in Entry
                      /\ f \in active' => timers'[t].generation <= entry'[f].generation
                      /\ f \in active' /\ entry'[f].busy
                           => timers'[t].generation < entry'[f].generation
    BY DEF TimersAreOlder, Running
  <2>1. timers'[t] = timers[t]
    BY <1>12
  <2> QED BY <1>1, <1>2, <1>3, <2>1, FieldsInRange DEF IInv, TimersAreOlder, Running
<1>16. IdleIsTimed'
  <2> SUFFICES ASSUME NEW f \in active', ~entry'[f].busy
               PROVE  \/ \E d \in Caller : pc'[d] = "scheduling" /\ lease'[d] = f
                      \/ \E t \in Timer : /\ timers'[t].state \in {"armed", "due"}
                                          /\ timers'[t].entry = f
                                          /\ timers'[t].generation = entry'[f].generation
    BY DEF IdleIsTimed, Running
  <2>1. f \in active /\ f \in Entry /\ f \notin gone \cup {e} /\ entry'[f] = entry[f]
    BY <1>1, <1>2, <1>3 DEF PoolTypeOK
  <2>2. CASE \E d \in Caller : pc[d] = "scheduling" /\ lease[d] = f
    BY <1>1, <1>6, <2>2 DEF TypeOK
  <2>3. CASE \E t \in Timer : Running(t) /\ timers[t].entry = f
                              /\ timers[t].generation = entry[f].generation
    BY <1>12, <2>1, <2>3 DEF Running
  <2> QED BY <2>1, <2>2, <2>3 DEF IInv, IdleIsTimed, Running
<1>17. TimersWaitLongEnough'
  <2> SUFFICES ASSUME NEW t \in Timer, NEW f, f = timers'[t].entry
               PROVE  /\ timers'[t].state = "due" => timers'[t].left = 0
                      /\ timers'[t].state \in {"armed", "due"} /\ f \in active'
                           /\ timers'[t].generation = entry'[f].generation
                         => entry'[f].idle + timers'[t].left >= IdleTimeout
    BY DEF TimersWaitLongEnough, Running
  <2>1. timers'[t].state \in {"armed", "due"} => timers'[t] = timers[t]
    BY <1>12
  <2>2. Running(t) /\ timers'[t] = timers[t] =>
          f \in Entry /\ f = timers[t].entry
            /\ (f \in active => timers[t].generation <= entry[f].generation)
    BY DEF IInv, TimersAreOlder
  <2> QED BY <1>1, <1>2, <1>3, <2>1, <2>2, FieldsInRange DEF IInv, TimersWaitLongEnough, Running
<1>18. OneEndpoint'
  BY <1>1, <1>2, <1>3 DEF IInv, OneEndpoint, SameLease, PoolTypeOK
<1>19. ClosedIsEmpty'
  BY <1>3 DEF ClosedIsEmpty
<1>20. RemovedHoldsNoHistory'
  BY <1>1, <1>2, <1>3, <1>5 DEF IInv, RemovedHoldsNoHistory, IsGone
<1>21. Capacity'
  BY <1>1, <1>3, CapacityShrinks DEF IInv
<1> QED BY <1>7, <1>8, <1>9, <1>10, <1>11, <1>14, <1>15, <1>16, <1>17, <1>18, <1>19, <1>20, <1>21 DEF IInv

(* Removing entries, by a release, a clear or an expiry, keeps the parts   *)
(* of the invariant that say nothing of leases.                            *)
LEMMA RemovalStep ==
  ASSUME IInv, TypeOK', NEW gone \in SUBSET Entry,
         \A f \in Entry : f \in gone => IsGone(entry[f], entry'[f]),
         \A f \in Entry : f \notin gone => entry'[f] = entry[f],
         entries' = EntriesWithout(gone), active' = active \ gone,
         \A t \in Timer : timers'[t] = timers[t] \/ timers'[t].state \in {"free", "disposing"},
         \A t \in Timer : Running(t) /\ timers[t].entry \notin gone => timers'[t] = timers[t],
         \A d \in Caller : pc[d] = "scheduling" => pc'[d] = "scheduling" /\ lease'[d] = lease[d]
  PROVE  /\ IndexesAgree' /\ IdleIsReusable'
         /\ TimerIsCurrent' /\ TimersAreOlder' /\ IdleIsTimed' /\ TimersWaitLongEnough'
         /\ OneEndpoint' /\ RemovedHoldsNoHistory' /\ Capacity'
<1>1. TypeOK /\ PoolTypeOK
  BY DEF IInv, TypeOK
<1>2. IndexesAgree'
  BY <1>1 DEF IInv, IndexesAgree, EntriesWithout, IsGone, PoolTypeOK
<1>3. IdleIsReusable'
  BY <1>1 DEF IInv, IdleIsReusable, EntriesWithout, PoolTypeOK
<1>4. TimerIsCurrent'
  <2> SUFFICES ASSUME NEW f \in Entry, entry'[f].timer # None
               PROVE  LET t == entry'[f].timer
                      IN  /\ f \in active' /\ ~entry'[f].busy
                          /\ timers'[t].state \in {"armed", "due"} /\ timers'[t].entry = f
                          /\ timers'[t].generation = entry'[f].generation
    BY DEF TimerIsCurrent, Running
  <2>1. f \notin gone /\ entry'[f] = entry[f]
    BY DEF IsGone
  <2>2. entry[f].timer \in Timer
    BY <1>1, <2>1, FieldsInRange
  <2>3. /\ f \in active /\ ~entry[f].busy
        /\ Running(entry[f].timer) /\ timers[entry[f].timer].entry = f
        /\ timers[entry[f].timer].generation = entry[f].generation
    BY <2>1 DEF IInv, TimerIsCurrent
  <2>4. timers'[entry[f].timer] = timers[entry[f].timer]
    BY <2>1, <2>2, <2>3
  <2> QED BY <2>1, <2>3, <2>4 DEF Running
<1>5. TimersAreOlder'
  <2> SUFFICES ASSUME NEW t \in Timer, timers'[t].state \in {"armed", "due"},
                      NEW f, f = timers'[t].entry
               PROVE  /\ f \in Entry
                      /\ f \in active' => timers'[t].generation <= entry'[f].generation
                      /\ f \in active' /\ entry'[f].busy
                           => timers'[t].generation < entry'[f].generation
    BY DEF TimersAreOlder, Running
  <2>1. timers'[t] = timers[t]
    OBVIOUS
  <2> QED BY <2>1 DEF IInv, TimersAreOlder, Running
<1>6. IdleIsTimed'
  <2> SUFFICES ASSUME NEW f \in active', ~entry'[f].busy
               PROVE  \/ \E d \in Caller : pc'[d] = "scheduling" /\ lease'[d] = f
                      \/ \E t \in Timer : /\ timers'[t].state \in {"armed", "due"}
                                          /\ timers'[t].entry = f
                                          /\ timers'[t].generation = entry'[f].generation
    BY DEF IdleIsTimed, Running
  <2>1. f \in active /\ f \in Entry /\ f \notin gone /\ entry'[f] = entry[f]
    BY <1>1 DEF PoolTypeOK
  <2>2. CASE \E d \in Caller : pc[d] = "scheduling" /\ lease[d] = f
    BY <2>2
  <2>3. CASE \E t \in Timer : Running(t) /\ timers[t].entry = f
                              /\ timers[t].generation = entry[f].generation
    BY <2>1, <2>3 DEF Running
  <2> QED BY <2>1, <2>2, <2>3 DEF IInv, IdleIsTimed, Running
<1>7. TimersWaitLongEnough'
  <2> SUFFICES ASSUME NEW t \in Timer, NEW f, f = timers'[t].entry
               PROVE  /\ timers'[t].state = "due" => timers'[t].left = 0
                      /\ timers'[t].state \in {"armed", "due"} /\ f \in active'
                           /\ timers'[t].generation = entry'[f].generation
                         => entry'[f].idle + timers'[t].left >= IdleTimeout
    BY DEF TimersWaitLongEnough, Running
  <2>1. timers'[t].state \in {"armed", "due"} => timers'[t] = timers[t]
    OBVIOUS
  <2>2. Running(t) /\ timers'[t] = timers[t] => f \in Entry /\ f = timers[t].entry
    BY DEF IInv, TimersAreOlder
  <2> QED BY <2>1, <2>2 DEF IInv, TimersWaitLongEnough, Running
<1>8. OneEndpoint'
  BY <1>1 DEF IInv, OneEndpoint, PoolTypeOK
<1>9. RemovedHoldsNoHistory'
  BY <1>1 DEF IInv, RemovedHoldsNoHistory, IsGone
<1>10. Capacity'
  BY CapacityShrinks DEF IInv
<1> QED BY <1>2, <1>3, <1>4, <1>5, <1>6, <1>7, <1>8, <1>9, <1>10

(* Dropping a lease keeps the invariant.                                   *)
LEMMA DropStep ==
  ASSUME IInv, TypeOK', NEW c \in Caller, Drop(c)
  PROVE  IInv'
<1> DEFINE e == lease[c]
<1>1. TypeOK /\ PoolTypeOK /\ e \in Entry
  BY DEF IInv, TypeOK, Drop, Holding
<1>2. RemoveEntries({e}) /\ closed' = closed
  BY DEF Drop, ReleaseDrop
<1>3. /\ \A f \in Entry : f \in {e} => IsGone(entry[f], entry'[f])
      /\ \A f \in Entry : f \notin {e} => entry'[f] = entry[f]
      /\ entries' = EntriesWithout({e}) /\ active' = active \ {e} /\ timers' = Cancelled({e})
  BY <1>1, <1>2, RemoveEffect
<1>4. /\ pc' = [pc EXCEPT ![c] = "dropped"] /\ lease' = lease
      /\ pc[c] # "scheduling"
  BY DEF Drop, Goto, Holding
<1>5. /\ \A t \in Timer : timers'[t] = timers[t] \/ timers'[t].state \in {"free", "disposing"}
      /\ \A t \in Timer : Running(t) /\ timers[t].entry \notin {e} => timers'[t] = timers[t]
  BY <1>1, <1>3, CancelledFacts DEF IInv
<1>6. \A d \in Caller : pc[d] = "scheduling" => pc'[d] = "scheduling" /\ lease'[d] = lease[d]
  BY <1>1, <1>4 DEF TypeOK
<1>7. /\ IndexesAgree' /\ IdleIsReusable'
      /\ TimerIsCurrent' /\ TimersAreOlder' /\ IdleIsTimed' /\ TimersWaitLongEnough'
      /\ OneEndpoint' /\ RemovedHoldsNoHistory' /\ Capacity'
  BY <1>1, <1>3, <1>5, <1>6, RemovalStep
<1>8. OpenIsAttached'
  BY <1>1, <1>3, <1>4 DEF IInv, OpenIsAttached, IsGone, TypeOK
<1>9. LeaseExclusive'
  BY <1>1, <1>4 DEF IInv, LeaseExclusive, Holding, TypeOK
<1>10. BusyMeansHeld'
  BY <1>1, <1>3, <1>4 DEF IInv, BusyMeansHeld, Holding, TypeOK, PoolTypeOK
<1>11. ClosedIsEmpty'
  BY <1>2, <1>3 DEF IInv, ClosedIsEmpty, EntriesWithout
<1> QED BY <1>7, <1>8, <1>9, <1>10, <1>11 DEF IInv

(* Clearing a session, or everything at close, keeps the invariant.        *)
LEMMA ClearStep ==
  ASSUME IInv, TypeOK', NEW gone \in SUBSET active, RemoveEntries(gone),
         UNCHANGED <<pc, lease, manual>>, closed' => closed \/ gone = active
  PROVE  IInv'
<1>1. TypeOK /\ PoolTypeOK /\ gone \in SUBSET Entry
  BY DEF IInv, TypeOK, PoolTypeOK
<1>2. /\ \A f \in Entry : f \in gone => IsGone(entry[f], entry'[f])
      /\ \A f \in Entry : f \notin gone => entry'[f] = entry[f]
      /\ entries' = EntriesWithout(gone) /\ active' = active \ gone /\ timers' = Cancelled(gone)
  BY <1>1, RemoveEffect
<1>3. /\ \A t \in Timer : timers'[t] = timers[t] \/ timers'[t].state \in {"free", "disposing"}
      /\ \A t \in Timer : Running(t) /\ timers[t].entry \notin gone => timers'[t] = timers[t]
  BY <1>1, <1>2, CancelledFacts DEF IInv
<1>4. /\ IndexesAgree' /\ IdleIsReusable'
      /\ TimerIsCurrent' /\ TimersAreOlder' /\ IdleIsTimed' /\ TimersWaitLongEnough'
      /\ OneEndpoint' /\ RemovedHoldsNoHistory' /\ Capacity'
  BY <1>1, <1>2, <1>3, RemovalStep
<1>5. OpenIsAttached'
  BY <1>1, <1>2 DEF IInv, OpenIsAttached, IsGone, TypeOK
<1>6. LeaseExclusive' /\ BusyMeansHeld'
  BY <1>1, <1>2 DEF IInv, LeaseExclusive, BusyMeansHeld, Holding, PoolTypeOK
<1>7. ClosedIsEmpty'
  BY <1>1, <1>2, <1>4 DEF IInv, ClosedIsEmpty, IndexesAgree, EntriesWithout
<1> QED BY <1>4, <1>5, <1>6, <1>7 DEF IInv

(* A timer that expires its entry, gives up, or only changes its own state *)
(* keeps the invariant.                                                    *)
LEMMA TimerInvStep ==
  ASSUME IInv, TypeOK', NEW u \in Timer, TimerStep(u)
  PROVE  IInv'
<1> DEFINE e == timers[u].entry
<1>1. TypeOK /\ PoolTypeOK
  BY DEF IInv, TypeOK
<1>2. UNCHANGED <<pc, lease, manual, closed>>
  BY DEF TimerStep, Fire, Expire, Dispose
<1>3. CASE timers[u].state = "due" /\ ~Outdated(u) /\ Expire(u)
  <2>1. e \in Entry
    BY <1>3 DEF IInv, TimersAreOlder, Running
  <2>2. /\ entry' = EntryWithout({e}) /\ entries' = EntriesWithout({e})
        /\ active' = active \ {e}
        /\ timers' = [Cancelled({e}) EXCEPT ![u] = [timers[u] EXCEPT !.state = "disposing"]]
    BY <1>3 DEF Expire
  <2>3. /\ \A f \in Entry : f \in {e} => IsGone(entry[f], entry'[f])
        /\ \A f \in Entry : f \notin {e} => entry'[f] = entry[f]
    BY <1>1, <2>2, WithoutFacts
  <2>4. Cancelled({e}) \in [Timer -> TimerRecord]
    BY <1>1, WithoutType
  <2>5. timers'[u].state = "disposing" /\ \A t \in Timer \ {u} : timers'[t] = Cancelled({e})[t]
    BY <1>1, <2>2, <2>4 DEF PoolTypeOK, TimerRecord
  <2>6. /\ \A t \in Timer : timers'[t] = timers[t] \/ timers'[t].state \in {"free", "disposing"}
        /\ \A t \in Timer : Running(t) /\ timers[t].entry \notin {e} => timers'[t] = timers[t]
    BY <1>1, <2>1, <2>5, CancelledFacts DEF IInv
  <2>7. /\ IndexesAgree' /\ IdleIsReusable'
        /\ TimerIsCurrent' /\ TimersAreOlder' /\ IdleIsTimed' /\ TimersWaitLongEnough'
        /\ OneEndpoint' /\ RemovedHoldsNoHistory' /\ Capacity'
    BY <1>1, <1>2, <2>1, <2>2, <2>3, <2>6, RemovalStep
  <2>8. OpenIsAttached'
    BY <1>1, <1>2, <2>3 DEF IInv, OpenIsAttached, IsGone, TypeOK
  <2>9. LeaseExclusive' /\ BusyMeansHeld' /\ ClosedIsEmpty'
    BY <1>1, <1>2, <2>2, <2>3 DEF IInv, LeaseExclusive, BusyMeansHeld, ClosedIsEmpty, Holding,
                                  PoolTypeOK, EntriesWithout
  <2> QED BY <2>7, <2>8, <2>9 DEF IInv
<1>4. CASE \/ Fire(u) \/ Dispose(u)
           \/ Outdated(u) /\ Expire(u)
  <2>1. UNCHANGED <<entry, entries, active>>
    BY <1>4 DEF Fire, Dispose, Expire
  <2>2. /\ \A t \in Timer \ {u} : timers'[t] = timers[t]
        /\ \/ ~Running(u) /\ timers'[u].state = "free"
           \/ timers[u].state = "due" /\ Outdated(u) /\ timers'[u].state = "free"
           \/ /\ timers[u].state = "armed" /\ timers'[u].state = "due"
              /\ timers[u].left = 0 /\ timers'[u].left = 0
              /\ timers'[u].entry = timers[u].entry
              /\ timers'[u].generation = timers[u].generation
    BY <1>1, <1>4 DEF Fire, Dispose, Expire, FreeTimer, Running, PoolTypeOK, TimerRecord
  <2>3. /\ IndexesAgree' /\ OpenIsAttached' /\ LeaseExclusive' /\ BusyMeansHeld'
        /\ IdleIsReusable' /\ OneEndpoint' /\ ClosedIsEmpty' /\ RemovedHoldsNoHistory' /\ Capacity'
    BY <1>2, <2>1 DEF IInv, IndexesAgree, OpenIsAttached, LeaseExclusive, BusyMeansHeld, Holding,
                      IdleIsReusable, OneEndpoint, ClosedIsEmpty, RemovedHoldsNoHistory, Capacity
  <2>4. TimerIsCurrent'
    BY <1>1, <2>1, <2>2, FieldsInRange
       DEF IInv, TimerIsCurrent, IndexesAgree, Outdated, Running
  <2>5. TimersAreOlder' /\ TimersWaitLongEnough'
    BY <1>1, <2>1, <2>2, FieldsInRange DEF IInv, TimersAreOlder, TimersWaitLongEnough, Running
  <2>6. IdleIsTimed'
    BY <1>1, <1>2, <2>1, <2>2 DEF IInv, IdleIsTimed, IndexesAgree, Outdated, Running, PoolTypeOK
  <2> QED BY <2>3, <2>4, <2>5, <2>6 DEF IInv
<1> QED BY <1>3, <1>4 DEF TimerStep, Expire

(* The fields that attach and plan_request leave alone.                    *)
SameButSocket(r, q) ==
  /\ q.sid = r.sid /\ q.endpoint = r.endpoint /\ q.busy = r.busy /\ q.valid = r.valid
  /\ q.timer = r.timer /\ q.generation = r.generation /\ q.idle = r.idle

(* Giving a leased entry its socket, or planning on it, keeps the          *)
(* invariant.                                                              *)
LEMMA SocketStep ==
  ASSUME IInv, TypeOK', NEW c \in Caller, AttachSocket(c) \/ Plan(c)
  PROVE  IInv'
<1> DEFINE e == lease[c]
<1>1. TypeOK /\ PoolTypeOK /\ e \in Entry /\ pc[c] = "leased"
  BY DEF IInv, TypeOK, AttachSocket, Plan
<1>2. UNCHANGED <<entries, active, closed, timers, lease>>
  BY DEF AttachSocket, Attach, Plan, DropBaseline, poolVars
<1>3. pc' = pc \/ (entry[e].attached /\ pc' = [pc EXCEPT ![c] = "open"])
  BY DEF AttachSocket, Plan, Goto
<1>4. /\ \A f \in Entry \ {e} : entry'[f] = entry[f]
      /\ SameButSocket(entry[e], entry'[e])
      /\ entry[e].attached => entry'[e].attached
      /\ entry'[e].base = entry[e].base \/ entry'[e].base = None
  BY <1>1 DEF AttachSocket, Attach, Plan, DropBaseline, poolVars, PoolTypeOK, EntryRecord, SameButSocket
<1>5. \A f \in Entry : SameButSocket(entry[f], entry'[f])
  BY <1>1, <1>4 DEF SameButSocket
<1>6. /\ IndexesAgree' /\ OneEndpoint' /\ ClosedIsEmpty' /\ RemovedHoldsNoHistory' /\ Capacity'
  BY <1>1, <1>2, <1>4, <1>5 DEF IInv, IndexesAgree, OneEndpoint, ClosedIsEmpty, RemovedHoldsNoHistory,
                                Capacity, SameButSocket, PoolTypeOK
<1>7. OpenIsAttached'
  BY <1>1, <1>2, <1>3, <1>4 DEF IInv, OpenIsAttached, TypeOK
<1>8. LeaseExclusive' /\ BusyMeansHeld'
  BY <1>1, <1>2, <1>3, <1>5 DEF IInv, LeaseExclusive, BusyMeansHeld, Holding, SameButSocket,
                                TypeOK, PoolTypeOK
<1>9. IdleIsReusable'
  <2>1. e \in active => entry[e].busy
    BY <1>1 DEF IInv, BusyMeansHeld, Holding
  <2> QED BY <1>1, <1>2, <1>4, <1>5, <2>1 DEF IInv, IdleIsReusable, SameButSocket, PoolTypeOK
<1>10. TimerIsCurrent' /\ TimersAreOlder' /\ TimersWaitLongEnough'
  BY <1>2, <1>5 DEF IInv, TimerIsCurrent, TimersAreOlder, TimersWaitLongEnough, Running, SameButSocket
<1>11. IdleIsTimed'
  BY <1>1, <1>2, <1>3, <1>5 DEF IInv, IdleIsTimed, Running, SameButSocket, TypeOK, PoolTypeOK
<1> QED BY <1>6, <1>7, <1>8, <1>9, <1>10, <1>11 DEF IInv

(* Returning a lease that is kept keeps the invariant.                     *)
LEMMA KeepStep ==
  ASSUME IInv, TypeOK', NEW c \in Caller, Keep(c)
  PROVE  IInv'
<1> DEFINE e == lease[c]
<1>1. TypeOK /\ PoolTypeOK /\ e \in Entry /\ pc[c] = "open"
  BY DEF IInv, TypeOK, Keep
<1>2. /\ UNCHANGED <<entries, active, closed, timers, lease>>
      /\ pc' = [pc EXCEPT ![c] = "scheduling"]
  BY DEF Keep, ReleaseKeep, Goto
<1>3. PICK b \in Baseline : ReleaseKeep(e, manual[c], b)
  BY DEF Keep
<1>4. entry' = [entry EXCEPT ![e] = Returned(entry[e], b)]
  BY <1>3 DEF ReleaseKeep
<1>5. /\ SameLease(entry[e], entry'[e]) /\ entry'[e].busy = FALSE
      /\ entry'[e].timer = entry[e].timer /\ entry'[e].base = b /\ b # None
      /\ entry'[e].idle = 0 /\ entry'[e].generation = entry[e].generation
      /\ \A f \in Entry \ {e} : entry'[f] = entry[f]
  <2>1. entry[e] \in EntryRecord /\ entry'[e] = Returned(entry[e], b)
    BY <1>1, <1>4 DEF PoolTypeOK
  <2>2. b # None
    BY NoneAssumption DEF NoneAssumption
  <2>3. \A f \in Entry \ {e} : entry'[f] = entry[f]
    BY <1>1, <1>4 DEF PoolTypeOK
  <2>4. /\ SameLease(entry[e], Returned(entry[e], b)) /\ Returned(entry[e], b).busy = FALSE
        /\ Returned(entry[e], b).timer = entry[e].timer /\ Returned(entry[e], b).base = b
        /\ Returned(entry[e], b).idle = 0
        /\ Returned(entry[e], b).generation = entry[e].generation
    BY <2>1, ReturnedFields
  <2> QED BY <2>1, <2>2, <2>3, <2>4
<1>6. /\ entry[e].valid /\ e \in active /\ entry[e].sid \in Session /\ entries[entry[e].sid] = e
      /\ entry[e].attached /\ entry[e].busy /\ entry[e].timer = None
  <2>1. entry[e].valid /\ entry[e].sid # None /\ entries[entry[e].sid] = e
    BY <1>1, <1>3 DEF ReleaseKeep, Keeps
  <2>2. e \in active /\ entry[e].sid \in Session
    BY <1>1, <2>1 DEF IInv, IndexesAgree, PoolTypeOK, EntryRecord
  <2>3. entry[e].busy /\ entry[e].attached
    BY <1>1, <2>2 DEF IInv, BusyMeansHeld, Holding, OpenIsAttached
  <2>4. entry[e].timer = None
    BY <1>1, <2>3 DEF IInv, TimerIsCurrent
  <2> QED BY <2>1, <2>2, <2>3, <2>4
<1>7. /\ IndexesAgree' /\ OneEndpoint' /\ ClosedIsEmpty' /\ Capacity'
  BY <1>1, <1>2, <1>5 DEF IInv, IndexesAgree, OneEndpoint, ClosedIsEmpty, Capacity, SameLease, PoolTypeOK
<1>8. OpenIsAttached' /\ RemovedHoldsNoHistory'
  <2>1. OpenIsAttached'
    BY <1>1, <1>2, <1>5 DEF IInv, OpenIsAttached, SameLease, TypeOK
  <2>2. RemovedHoldsNoHistory'
    BY <1>2, <1>5, <1>6 DEF IInv, RemovedHoldsNoHistory
  <2> QED BY <2>1, <2>2
<1>9. LeaseExclusive'
  BY <1>1, <1>2 DEF IInv, LeaseExclusive, Holding, TypeOK
<1>10. BusyMeansHeld'
  BY <1>1, <1>2, <1>5 DEF IInv, BusyMeansHeld, LeaseExclusive, Holding, TypeOK, PoolTypeOK
<1>11. IdleIsReusable'
  <2> SUFFICES ASSUME NEW f \in active, ~entry'[f].busy
               PROVE  /\ entry'[f].sid \in Session /\ entries[entry'[f].sid] = f
                      /\ entry'[f].attached /\ entry'[f].base # None
    BY <1>2 DEF IdleIsReusable
  <2>1. CASE f = e
    BY <1>5, <1>6, <2>1 DEF SameLease
  <2>2. CASE f # e
    BY <1>1, <1>5, <2>2 DEF IInv, IdleIsReusable, PoolTypeOK
  <2> QED BY <2>1, <2>2
<1>12. TimerIsCurrent'
  BY <1>1, <1>2, <1>5, <1>6 DEF IInv, TimerIsCurrent, Running
<1>13. TimersAreOlder'
  BY <1>1, <1>2, <1>5, FieldsInRange DEF IInv, TimersAreOlder, Running
<1>14. IdleIsTimed'
  BY <1>1, <1>2, <1>5 DEF IInv, IdleIsTimed, Running, TypeOK, PoolTypeOK
<1>15. TimersWaitLongEnough'
  <2>1. \A t \in Timer : Running(t) /\ timers[t].entry = e =>
          timers[t].generation < entry[e].generation
    BY <1>6 DEF IInv, TimersAreOlder
  <2> QED BY <1>1, <1>2, <1>5, <2>1, FieldsInRange DEF IInv, TimersWaitLongEnough, TimersAreOlder, Running
<1> QED BY <1>7, <1>8, <1>9, <1>10, <1>11, <1>12, <1>13, <1>14, <1>15 DEF IInv

(* Scheduling the expiry of an idle entry, and letting go of it, keeps the *)
(* invariant.                                                              *)
LEMMA ScheduleStep ==
  ASSUME IInv, TypeOK', NEW c \in Caller, NEW u \in Timer,
         pc[c] = "scheduling", Schedule(lease[c], u), Forget(c)
  PROVE  IInv'
<1> DEFINE e == lease[c]
<1>1. TypeOK /\ PoolTypeOK /\ e \in Entry
  BY DEF IInv, TypeOK
<1>2. /\ UNCHANGED <<entries, active, closed>>
      /\ pc' = [pc EXCEPT ![c] = "idle"] /\ lease' = [lease EXCEPT ![c] = None]
  BY DEF Schedule, Forget, Goto
<1>3. /\ \A f \in Entry \ {e} : entry'[f] = entry[f]
      /\ SameLease(entry[e], entry'[e]) /\ entry'[e].busy = entry[e].busy
      /\ entry'[e].timer = u /\ entry'[e].base = entry[e].base
      /\ entry'[e].idle = entry[e].idle /\ entry'[e].generation = entry[e].generation
  BY <1>1 DEF Schedule, PoolTypeOK, EntryRecord, SameLease
<1>4. /\ ~Running(u) /\ \A t \in Timer \ {u} : timers'[t] = timers[t]
      /\ timers'[u].state = "armed" /\ timers'[u].entry = e
      /\ timers'[u].generation = entry[e].generation /\ timers'[u].left = IdleTimeout
  BY <1>1 DEF Schedule, PoolTypeOK, Running
<1>5. e \in active /\ ~entry[e].busy
  BY <1>1 DEF Schedule, IInv, IndexesAgree
<1>6. /\ IndexesAgree' /\ OneEndpoint' /\ ClosedIsEmpty' /\ RemovedHoldsNoHistory' /\ Capacity'
  BY <1>1, <1>2, <1>3 DEF IInv, IndexesAgree, OneEndpoint, ClosedIsEmpty, RemovedHoldsNoHistory,
                          Capacity, SameLease, PoolTypeOK
<1>7. OpenIsAttached' /\ LeaseExclusive'
  BY <1>1, <1>2, <1>3 DEF IInv, OpenIsAttached, LeaseExclusive, Holding, SameLease, TypeOK
<1>8. BusyMeansHeld' /\ IdleIsReusable'
  BY <1>1, <1>2, <1>3 DEF IInv, BusyMeansHeld, IdleIsReusable, Holding, SameLease, TypeOK, PoolTypeOK
<1>9. TimerIsCurrent'
  BY <1>1, <1>2, <1>3, <1>4, <1>5, FieldsInRange DEF IInv, TimerIsCurrent, Running
<1>10. TimersAreOlder'
  BY <1>1, <1>2, <1>3, <1>4, <1>5, FieldsInRange DEF IInv, TimersAreOlder, Running
<1>11. IdleIsTimed'
  BY <1>1, <1>2, <1>3, <1>4 DEF IInv, IdleIsTimed, Running, TypeOK, PoolTypeOK
<1>12. TimersWaitLongEnough'
  BY <1>1, <1>2, <1>3, <1>4, FieldsInRange, LimitsAssumption
     DEF LimitsAssumption, IInv, TimersWaitLongEnough, TimersAreOlder, Running
<1> QED BY <1>6, <1>7, <1>8, <1>9, <1>10, <1>11, <1>12 DEF IInv

(* A caller that lets go of an entry that is not its own any more.         *)
LEMMA ForgetStep ==
  ASSUME IInv, TypeOK', NEW c \in Caller, Forget(c), UNCHANGED poolVars,
         \/ pc[c] = "dropped"
         \/ pc[c] = "scheduling" /\ (~entry[lease[c]].valid \/ entry[lease[c]].busy)
  PROVE  IInv'
<1>1. TypeOK /\ PoolTypeOK /\ lease[c] \in Entry
  BY DEF IInv, TypeOK
<1>2. /\ UNCHANGED <<entry, entries, active, closed, timers>>
      /\ pc' = [pc EXCEPT ![c] = "idle"] /\ lease' = [lease EXCEPT ![c] = None]
  BY DEF Forget, Goto, poolVars
<1>3. /\ IndexesAgree' /\ IdleIsReusable' /\ TimerIsCurrent' /\ TimersAreOlder'
      /\ TimersWaitLongEnough' /\ OneEndpoint' /\ ClosedIsEmpty' /\ RemovedHoldsNoHistory' /\ Capacity'
  BY <1>2 DEF IInv, IndexesAgree, IdleIsReusable, TimerIsCurrent, TimersAreOlder, Running,
              TimersWaitLongEnough, OneEndpoint, ClosedIsEmpty, RemovedHoldsNoHistory, Capacity
<1>4. OpenIsAttached' /\ LeaseExclusive' /\ BusyMeansHeld'
  BY <1>1, <1>2 DEF IInv, OpenIsAttached, LeaseExclusive, BusyMeansHeld, Holding, TypeOK
<1>5. IdleIsTimed'
  BY <1>1, <1>2 DEF IInv, IdleIsTimed, IndexesAgree, Running, TypeOK, PoolTypeOK
<1> QED BY <1>3, <1>4, <1>5 DEF IInv

(* The passing of time keeps the invariant: as an idle entry grows older,  *)
(* its timer has less to wait.                                             *)
LEMMA PassStep ==
  ASSUME IInv, TypeOK', Pass
  PROVE  IInv'
<1>1. TypeOK /\ PoolTypeOK
  BY DEF IInv, TypeOK
<1>2. UNCHANGED <<entries, active, closed, pc, lease, manual>>
  BY DEF Pass, Tick
<1>3. \A f \in Entry : /\ SameLease(entry[f], entry'[f]) /\ entry'[f].busy = entry[f].busy
                       /\ entry'[f].timer = entry[f].timer /\ entry'[f].base = entry[f].base
                       /\ entry'[f].generation = entry[f].generation
  BY <1>1, OlderFields DEF Pass, Tick, PoolTypeOK, SameLease
<1>4. \A f \in active : ~entry[f].busy =>
        \/ entry'[f].idle = entry[f].idle + 1
        \/ entry[f].idle >= IdleTimeout /\ entry'[f].idle = entry[f].idle
  BY <1>1, OlderFields, FieldsInRange, LimitsAssumption DEF LimitsAssumption, Pass, Tick, PoolTypeOK
<1>5. \A f \in Entry : entry'[f].idle >= entry[f].idle
  BY <1>1, OlderFields, FieldsInRange DEF Pass, Tick, PoolTypeOK
<1>6. \A t \in Timer : /\ timers'[t].state = timers[t].state /\ timers'[t].entry = timers[t].entry
                       /\ timers'[t].generation = timers[t].generation
                       /\ timers'[t].left = IF timers[t].left > 0 THEN timers[t].left - 1 ELSE timers[t].left
  BY <1>1 DEF Pass, Tick, PoolTypeOK, TimerRecord
<1>7. /\ IndexesAgree' /\ OneEndpoint' /\ ClosedIsEmpty' /\ RemovedHoldsNoHistory' /\ Capacity'
  BY <1>1, <1>2, <1>3 DEF IInv, IndexesAgree, OneEndpoint, ClosedIsEmpty, RemovedHoldsNoHistory,
                          Capacity, SameLease, PoolTypeOK
<1>8. OpenIsAttached' /\ LeaseExclusive' /\ BusyMeansHeld' /\ IdleIsReusable'
  BY <1>1, <1>2, <1>3 DEF IInv, OpenIsAttached, LeaseExclusive, BusyMeansHeld, IdleIsReusable,
                          Holding, SameLease, TypeOK, PoolTypeOK
<1>9. TimerIsCurrent' /\ TimersAreOlder'
  BY <1>1, <1>2, <1>3, <1>6, FieldsInRange, NoneAssumption
     DEF NoneAssumption, IInv, TimerIsCurrent, TimersAreOlder, Running
<1>10. IdleIsTimed'
  BY <1>1, <1>2, <1>3, <1>6 DEF IInv, IdleIsTimed, Running, PoolTypeOK
<1>11. TimersWaitLongEnough'
  <2> SUFFICES ASSUME NEW t \in Timer
               PROVE  /\ timers'[t].state = "due" => timers'[t].left = 0
                      /\ Running(t) /\ timers[t].entry \in active
                           /\ timers[t].generation = entry[timers[t].entry].generation
                         => entry'[timers[t].entry].idle + timers'[t].left >= IdleTimeout
    BY <1>1, <1>2, <1>3, <1>6 DEF TimersWaitLongEnough, Running, PoolTypeOK
  <2>1. timers'[t].state = "due" => timers'[t].left = 0
    BY <1>6 DEF IInv, TimersWaitLongEnough
  <2>2. ASSUME Running(t), timers[t].entry \in active,
               timers[t].generation = entry[timers[t].entry].generation
        PROVE  entry'[timers[t].entry].idle + timers'[t].left >= IdleTimeout
    <3> DEFINE f == timers[t].entry
    <3>1. ~entry[f].busy
      BY <1>1, <2>2, FieldsInRange DEF IInv, TimersAreOlder, PoolTypeOK
    <3>2. entry[f].idle + timers[t].left >= IdleTimeout
      BY <2>2 DEF IInv, TimersWaitLongEnough
    <3>3. entry[f].idle \in Nat /\ timers[t].left \in Nat /\ IdleTimeout \in Nat
      BY <1>1, <2>2, FieldsInRange, LimitsAssumption DEF LimitsAssumption, PoolTypeOK
    <3>4. \/ entry'[f].idle = entry[f].idle + 1
          \/ entry[f].idle >= IdleTimeout /\ entry'[f].idle = entry[f].idle
      BY <1>4, <2>2, <3>1
    <3> QED BY <1>6, <3>2, <3>3, <3>4
  <2> QED BY <2>1, <2>2
<1> QED BY <1>7, <1>8, <1>9, <1>10, <1>11 DEF IInv

(* A cached entry that is evicted makes room for the new one.              *)
LEMMA CapacityCreate ==
  ASSUME IInv, NEW s \in Session \cup {None}, NEW m \in BOOLEAN, NEW purged,
         NEW v \in SUBSET Entry, NEW e \in Entry,
         v \in Evictions(s, m, purged), Persists(s, m, purged, v),
         entries' = [EntriesWithout(purged \cup v) EXCEPT ![s] = e]
  PROVE  Capacity'
<1> DEFINE before == {z \in Session : entries[z] # None}
           purgedSet == CachedSessions(purged)
           after == {z \in Session : entries'[z] # None}
<1>1. /\ IsFiniteSet(before) /\ IsFiniteSet(purgedSet) /\ IsFiniteSet(after)
  BY FiniteAssumption, FS_Subset DEF FiniteAssumption, CachedSessions
<1>2. purgedSet \subseteq before
  BY DEF CachedSessions, EntriesWithout
<1>3. /\ Cardinality(purgedSet) <= Cardinality(before)
      /\ Cardinality(purgedSet) \in Nat /\ Cardinality(before) \in Nat /\ Cardinality(after) \in Nat
  BY <1>1, <1>2, FS_Subset, FS_CardinalityType
<1>4. Cardinality(purgedSet) <= MaxSize /\ MaxSize \in Nat
  BY <1>3, LimitsAssumption DEF LimitsAssumption, IInv, Capacity
<1>5. s \in Session /\ s \notin purgedSet
  BY DEF Persists, Wanted, Cached, CachedSessions
<1>6. after \subseteq purgedSet \cup {s}
  BY <1>5 DEF CachedSessions, EntriesWithout
<1>7. CASE ~Full(purged)
  <2>1. Cardinality(purgedSet) < MaxSize
    BY <1>3, <1>4, <1>7 DEF Full
  <2>2. IsFiniteSet(purgedSet \cup {s}) /\ Cardinality(purgedSet \cup {s}) = Cardinality(purgedSet) + 1
    BY <1>1, <1>5, FS_AddElement
  <2>3. Cardinality(after) <= Cardinality(purgedSet \cup {s})
    BY <1>6, <2>2, FS_Subset
  <2> QED BY <1>3, <1>4, <2>1, <2>2, <2>3 DEF Capacity
<1>8. CASE Full(purged)
  <2>1. PICK w \in LeastRecent(purged) : v = {w}
    BY <1>8 DEF Persists, Evictions
  <2>2. PICK z \in Session : EntriesWithout(purged)[z] = w /\ w \in Entry
    BY <2>1 DEF LeastRecent
  <2>3. z \in purgedSet /\ z # s
    BY <1>5, <2>2, NoneAssumption DEF NoneAssumption, CachedSessions
  <2>4. z \notin after
    BY <1>5, <2>1, <2>2, <2>3 DEF EntriesWithout
  <2>5. IsFiniteSet(purgedSet \ {z}) /\ Cardinality(purgedSet \ {z}) = Cardinality(purgedSet) - 1
    BY <1>1, <2>3, FS_RemoveElement
  <2>6. /\ IsFiniteSet((purgedSet \ {z}) \cup {s})
        /\ Cardinality((purgedSet \ {z}) \cup {s}) = Cardinality(purgedSet \ {z}) + 1
    BY <1>5, <2>5, FS_AddElement
  <2>7. Cardinality(after) <= Cardinality((purgedSet \ {z}) \cup {s})
    BY <1>6, <2>4, <2>6, FS_Subset
  <2> QED BY <1>3, <1>4, <2>5, <2>6, <2>7 DEF Capacity
<1> QED BY <1>7, <1>8

(* Leasing a new entry, with the purge and the eviction that make room for *)
(* it, keeps the invariant.                                                *)
LEMMA ReserveNewStep ==
  ASSUME IInv, TypeOK', NEW c \in Caller, ReserveNew(c)
  PROVE  IInv'
<1>0. PICK s \in Session \cup {None}, x \in Endpoint, m \in BOOLEAN, e \in Entry :
        /\ Fresh(e)
        /\ \E v \in SUBSET Entry : Create(s, x, m, e, v)
        /\ Leased(c, e, m)
  BY DEF ReserveNew
<1>1. PICK v \in SUBSET Entry : Create(s, x, m, e, v)
  BY <1>0
<1> DEFINE gone == Stale(x) \cup v
<1>2. TypeOK /\ PoolTypeOK
  BY DEF IInv, TypeOK
<1>3. /\ entry'[e] = NewEntry(s, x)
      /\ \A f \in Entry \ {e} : f \in gone => IsGone(entry[f], entry'[f])
      /\ \A f \in Entry \ {e} : f \notin gone => entry'[f] = entry[f]
      /\ active' = (active \ gone) \cup {e}
      /\ timers' = Cancelled(gone)
      /\ entries' = IF Persists(s, m, Stale(x), v)
                      THEN [EntriesWithout(gone) EXCEPT ![s] = e]
                      ELSE EntriesWithout(gone)
      /\ v \in Evictions(s, m, Stale(x))
      /\ closed = FALSE /\ closed' = FALSE
  BY <1>1, <1>2, CreateEffect
<1>4. /\ e \notin active
      /\ \A t \in Timer : timers[t].entry # e
      /\ \A d \in Caller : lease[d] # e
  BY <1>0 DEF Fresh, Unreferenced
<1>5. gone \subseteq active /\ e \notin gone /\ gone \in SUBSET Entry
  <2>1. \A w \in v : w \in Entry /\ \E z \in Session : EntriesWithout(Stale(x))[z] = w
    BY <1>3 DEF Evictions, LeastRecent
  <2>2. v \subseteq active
    BY <2>1, NoneAssumption DEF NoneAssumption, EntriesWithout, IInv, IndexesAgree
  <2> QED BY <1>2, <1>4, <2>2 DEF Stale, PoolTypeOK
<1>6. /\ pc' = [pc EXCEPT ![c] = "leased"] /\ lease' = [lease EXCEPT ![c] = e]
      /\ ~Holding(c) /\ pc[c] # "scheduling"
  BY <1>0 DEF Leased, Goto, ReserveNew, Asking, Holding
<1>7. /\ entry'[e].sid = s /\ entry'[e].endpoint = x
      /\ entry'[e].valid = TRUE /\ entry'[e].busy = TRUE /\ entry'[e].timer = None
  BY <1>3 DEF NewEntry
<1>8. Persists(s, m, Stale(x), v) => s \in Session /\ EntriesWithout(gone)[s] = None
  BY DEF Persists, Wanted, Cached, EntriesWithout
<1>9. \A z \in Session : \/ entries'[z] = EntriesWithout(gone)[z]
                         \/ z = s /\ entries'[z] = e /\ EntriesWithout(gone)[z] = None
  BY <1>2, <1>3, <1>8, WithoutType
<1>10. \A f \in active' : f = e \/ (f \in active /\ f \in Entry /\ f \notin gone /\ entry'[f] = entry[f])
  BY <1>2, <1>3 DEF PoolTypeOK
<1>11. /\ \A t \in Timer : timers'[t] = timers[t] \/ timers'[t].state = "free"
       /\ \A t \in Timer : Running(t) /\ timers[t].entry \notin gone => timers'[t] = timers[t]
  BY <1>2, <1>3, <1>5, CancelledFacts DEF IInv
<1> HIDE DEF gone
<1>12. IndexesAgree'
  <2>1. \A f \in Entry : entry'[f].valid <=> f \in active'
    BY <1>2, <1>3, <1>5, <1>7 DEF IInv, IndexesAgree, IsGone, PoolTypeOK
  <2>2. ASSUME NEW z \in Session, entries'[z] # None
        PROVE  entries'[z] \in active' /\ entry'[entries'[z]].sid = z
    <3>1. CASE entries'[z] = EntriesWithout(gone)[z]
      BY <1>2, <1>3, <1>4, <2>2, <3>1 DEF IInv, IndexesAgree, EntriesWithout, PoolTypeOK
    <3>2. CASE z = s /\ entries'[z] = e
      BY <1>3, <1>7, <3>2
    <3> QED BY <1>9, <3>1, <3>2
  <2> QED BY <2>1, <2>2 DEF IndexesAgree
<1>13. OpenIsAttached'
  <2> SUFFICES ASSUME NEW d \in Caller, pc'[d] = "open"
               PROVE  entry'[lease'[d]].attached
    BY DEF OpenIsAttached
  <2>1. d # c /\ pc[d] = "open" /\ lease'[d] = lease[d]
    BY <1>2, <1>6 DEF TypeOK
  <2>2. lease[d] \in Entry \ {e} /\ entry[lease[d]].attached
    BY <1>2, <1>4, <2>1 DEF IInv, OpenIsAttached, TypeOK
  <2> QED BY <1>3, <2>1, <2>2 DEF IsGone
<1>14. LeaseExclusive'
  BY <1>2, <1>4, <1>6 DEF IInv, LeaseExclusive, Holding, TypeOK
<1>15. BusyMeansHeld'
  BY <1>2, <1>4, <1>6, <1>7, <1>10 DEF IInv, BusyMeansHeld, Holding, TypeOK
<1>16. IdleIsReusable'
  <2> SUFFICES ASSUME NEW f \in active', ~entry'[f].busy
               PROVE  /\ entry'[f].sid \in Session /\ entries'[entry'[f].sid] = f
                      /\ entry'[f].attached /\ entry'[f].base # None
    BY DEF IdleIsReusable
  <2>1. f \in active /\ f \in Entry /\ f \notin gone /\ entry'[f] = entry[f] /\ f # e
    BY <1>4, <1>7, <1>10
  <2>2. /\ entry[f].sid \in Session /\ entries[entry[f].sid] = f
        /\ entry[f].attached /\ entry[f].base # None
    BY <2>1 DEF IInv, IdleIsReusable
  <2>3. EntriesWithout(gone)[entry[f].sid] = f /\ f # None
    BY <2>1, <2>2, NoneAssumption DEF NoneAssumption, EntriesWithout
  <2> QED BY <1>9, <2>1, <2>2, <2>3
<1>17. TimerIsCurrent'
  <2> SUFFICES ASSUME NEW f \in Entry, entry'[f].timer # None
               PROVE  LET t == entry'[f].timer
                      IN  /\ f \in active' /\ ~entry'[f].busy
                          /\ timers'[t].state \in {"armed", "due"} /\ timers'[t].entry = f
                          /\ timers'[t].generation = entry'[f].generation
    BY DEF TimerIsCurrent, Running
  <2>1. f # e /\ f \notin gone /\ entry'[f] = entry[f]
    BY <1>3, <1>7 DEF IsGone
  <2>2. entry[f].timer \in Timer
    BY <1>2, <2>1, FieldsInRange
  <2>3. /\ f \in active /\ ~entry[f].busy
        /\ Running(entry[f].timer) /\ timers[entry[f].timer].entry = f
        /\ timers[entry[f].timer].generation = entry[f].generation
    BY <2>1 DEF IInv, TimerIsCurrent
  <2>4. timers'[entry[f].timer] = timers[entry[f].timer]
    BY <1>11, <2>1, <2>2, <2>3
  <2> QED BY <1>3, <2>1, <2>3, <2>4 DEF Running
<1>18. TimersAreOlder'
  <2> SUFFICES ASSUME NEW t \in Timer, timers'[t].state \in {"armed", "due"},
                      NEW f, f = timers'[t].entry
               PROVE  /\ f \in Entry
                      /\ f \in active' => timers'[t].generation <= entry'[f].generation
                      /\ f \in active' /\ entry'[f].busy
                           => timers'[t].generation < entry'[f].generation
    BY DEF TimersAreOlder, Running
  <2>1. timers'[t] = timers[t] /\ f # e
    BY <1>4, <1>11
  <2> QED BY <1>10, <2>1 DEF IInv, TimersAreOlder, Running
<1>19. IdleIsTimed'
  <2> SUFFICES ASSUME NEW f \in active', ~entry'[f].busy
               PROVE  \/ \E d \in Caller : pc'[d] = "scheduling" /\ lease'[d] = f
                      \/ \E t \in Timer : /\ timers'[t].state \in {"armed", "due"}
                                          /\ timers'[t].entry = f
                                          /\ timers'[t].generation = entry'[f].generation
    BY DEF IdleIsTimed, Running
  <2>1. f \in active /\ f \in Entry /\ f \notin gone /\ entry'[f] = entry[f] /\ f # e
    BY <1>4, <1>7, <1>10
  <2>2. CASE \E d \in Caller : pc[d] = "scheduling" /\ lease[d] = f
    BY <1>2, <1>6, <2>2 DEF TypeOK
  <2>3. CASE \E t \in Timer : Running(t) /\ timers[t].entry = f
                              /\ timers[t].generation = entry[f].generation
    BY <1>11, <2>1, <2>3 DEF Running
  <2> QED BY <2>1, <2>2, <2>3 DEF IInv, IdleIsTimed, Running
<1>20. TimersWaitLongEnough'
  <2> SUFFICES ASSUME NEW t \in Timer, NEW f, f = timers'[t].entry
               PROVE  /\ timers'[t].state = "due" => timers'[t].left = 0
                      /\ timers'[t].state \in {"armed", "due"} /\ f \in active'
                           /\ timers'[t].generation = entry'[f].generation
                         => entry'[f].idle + timers'[t].left >= IdleTimeout
    BY DEF TimersWaitLongEnough, Running
  <2>1. timers'[t].state \in {"armed", "due"} => timers'[t] = timers[t] /\ f # e
    BY <1>4, <1>11
  <2> QED BY <1>10, <2>1 DEF IInv, TimersWaitLongEnough, Running
<1>21. OneEndpoint'
  <2>1. \A f \in active : f \notin gone => entry[f].endpoint = x
    BY DEF gone, Stale
  <2> QED BY <1>7, <1>10, <2>1 DEF OneEndpoint
<1>22. ClosedIsEmpty' /\ RemovedHoldsNoHistory'
  BY <1>2, <1>3, <1>4, <1>5 DEF IInv, ClosedIsEmpty, RemovedHoldsNoHistory, IsGone
<1>23. Capacity'
  <2>1. CASE Persists(s, m, Stale(x), v)
    BY <1>3, <2>1, CapacityCreate DEF gone
  <2>2. CASE ~Persists(s, m, Stale(x), v)
    BY <1>3, <2>2, CapacityShrinks DEF IInv
  <2> QED BY <2>1, <2>2
<1> QED BY <1>12, <1>13, <1>14, <1>15, <1>16, <1>17, <1>18, <1>19, <1>20, <1>21, <1>22, <1>23, TypeOK' DEF IInv

-----------------------------------------------------------------------------
LEMMA InvInit == Init => IInv
<1> SUFFICES ASSUME Init PROVE IInv
  OBVIOUS
<1>1. TypeOK
  BY TypeInit
<1>2. \A e \in Entry : entry[e].valid = FALSE /\ entry[e].timer = None /\ entry[e].base = None
  BY DEF Init, PoolInit, Blank, NewEntry
<1>3. \A t \in Timer : timers[t].state = "free"
  BY DEF Init, PoolInit, FreeTimer
<1>4. active = {} /\ \A s \in Session : entries[s] = None
  BY DEF Init, PoolInit
<1>5. Capacity
  <2>1. {s \in Session : entries[s] # None} = {}
    BY <1>4
  <2> QED BY <2>1, FS_EmptySet, LimitsAssumption DEF LimitsAssumption, Capacity
<1>6. \A c \in Caller : pc[c] = "idle"
  BY DEF Init
<1> QED BY <1>1, <1>2, <1>3, <1>4, <1>5, <1>6
        DEF IInv, IndexesAgree, OpenIsAttached, LeaseExclusive, BusyMeansHeld, Holding,
            IdleIsReusable, TimerIsCurrent, TimersAreOlder, IdleIsTimed, TimersWaitLongEnough, Running,
            OneEndpoint, ClosedIsEmpty, RemovedHoldsNoHistory

LEMMA InvStep == IInv /\ [Next]_vars => IInv'
<1> SUFFICES ASSUME IInv, [Next]_vars PROVE IInv'
  OBVIOUS
<1>1. TypeOK /\ PoolTypeOK /\ TypeOK'
  BY TypeStep DEF IInv, TypeOK
<1>2. ASSUME NEW c \in Caller, ReserveCached(c) PROVE IInv'
  BY <1>1, <1>2, ReserveCachedStep
<1>3. ASSUME NEW c \in Caller, ReserveNew(c) PROVE IInv'
  BY <1>1, <1>3, ReserveNewStep
<1>4. ASSUME NEW c \in Caller, AttachSocket(c) \/ Plan(c) PROVE IInv'
  BY <1>1, <1>4, SocketStep
<1>5. ASSUME NEW c \in Caller, Keep(c) PROVE IInv'
  BY <1>1, <1>5, KeepStep
<1>6. ASSUME NEW c \in Caller, Drop(c) PROVE IInv'
  BY <1>1, <1>6, DropStep
<1>7. ASSUME NEW c \in Caller, ScheduleExpiry(c) PROVE IInv'
  <2>1. CASE \E t \in Timer : Schedule(lease[c], t)
    BY <1>1, <1>7, <2>1, ScheduleStep DEF ScheduleExpiry
  <2>2. CASE ScheduleNothing(lease[c])
    BY <1>1, <1>7, <2>2, ForgetStep DEF ScheduleExpiry, ScheduleNothing
  <2> QED BY <1>7, <2>1, <2>2 DEF ScheduleExpiry
<1>8. ASSUME NEW c \in Caller, Finish(c) PROVE IInv'
  BY <1>1, <1>8, ForgetStep DEF Finish
<1>9. ASSUME NEW t \in Timer, TimerStep(t) PROVE IInv'
  BY <1>1, <1>9, TimerInvStep
<1>10. CASE CloseSession
  <2>1. PICK s \in Session : ClearSession(s)
    BY <1>10 DEF CloseSession
  <2> QED BY <1>1, <1>10, <2>1, ClearStep DEF CloseSession, ClearSession, OfSession
<1>11. CASE Close
  BY <1>1, <1>11, ClearStep DEF Close, ClearAll
<1>12. CASE Pass
  BY <1>1, <1>12, PassStep
<1>13. CASE UNCHANGED vars
  BY <1>13 DEF vars, poolVars, IInv, TypeOK, PoolTypeOK, IndexesAgree, OpenIsAttached, LeaseExclusive,
     BusyMeansHeld, Holding, IdleIsReusable, TimerIsCurrent, TimersAreOlder, IdleIsTimed,
     TimersWaitLongEnough, Running, OneEndpoint, ClosedIsEmpty, RemovedHoldsNoHistory, Capacity
<1> QED BY <1>2, <1>3, <1>4, <1>5, <1>6, <1>7, <1>8, <1>9, <1>10, <1>11, <1>12, <1>13 DEF Next

(* The strengthened invariant holds in every reachable state.              *)
THEOREM Inductive == Spec => []IInv
  BY InvInit, InvStep, PTL DEF Spec

(* No two callers ever hold the same connection, for any number of         *)
(* callers, sessions, entries, timers and any limits.                      *)
THEOREM LeasesAreExclusive == Spec => []LeaseExclusive
<1>1. IInv => LeaseExclusive
  BY DEF IInv
<1> QED BY <1>1, Inductive, PTL

(* A connection is marked busy exactly while a caller holds it.            *)
THEOREM BusyIsHeld == Spec => []BusyMeansHeld
<1>1. IInv => BusyMeansHeld
  BY DEF IInv
<1> QED BY <1>1, Inductive, PTL

(* The pool's dictionary, its active set and the valid flags never         *)
(* disagree.                                                               *)
THEOREM IndexesStayConsistent == Spec => []IndexesAgree
<1>1. IInv => IndexesAgree
  BY DEF IInv
<1> QED BY <1>1, Inductive, PTL

(* An idle entry is cached, connected and has a baseline.                  *)
THEOREM IdleEntriesAreReusable == Spec => []IdleIsReusable
<1>1. IInv => IdleIsReusable
  BY DEF IInv
<1> QED BY <1>1, Inductive, PTL

(* An idle entry always has a timer of its generation, or a caller about   *)
(* to schedule one, also when two callers schedule out of order.           *)
THEOREM IdleEntriesAreTimed == Spec => []IdleIsTimed
<1>1. IInv => IdleIsTimed
  BY DEF IInv
<1> QED BY <1>1, Inductive, PTL

(* All connections of the pool go to one endpoint.                         *)
THEOREM EndpointsAgree == Spec => []OneEndpoint
<1>1. IInv => OneEndpoint
  BY DEF IInv
<1> QED BY <1>1, Inductive, PTL

(* The cache never exceeds session_cache_max_size.                         *)
THEOREM CapacityIsKept == Spec => []Capacity
<1>1. IInv => Capacity
  BY DEF IInv
<1> QED BY <1>1, Inductive, PTL

(* Once closed, the pool holds nothing.                                    *)
THEOREM ClosedStaysEmpty == Spec => []ClosedIsEmpty
<1>1. IInv => ClosedIsEmpty
  BY DEF IInv
<1> QED BY <1>1, Inductive, PTL

(* No late release commits history to an entry that was removed.           *)
THEOREM NoStaleHistory == Spec => []RemovedHoldsNoHistory
<1>1. IInv => RemovedHoldsNoHistory
  BY DEF IInv
<1> QED BY <1>1, Inductive, PTL

-----------------------------------------------------------------------------
(* What a step may never do.                                               *)

(* A timer that is due and becomes disposing took an idle entry that was   *)
(* not used for the whole idle timeout.                                    *)
LEMMA ExpireStep ==
  ASSUME IInv, [Next]_vars, NEW t \in Timer,
         timers[t].state = "due", timers'[t].state = "disposing"
  PROVE  LET e == timers[t].entry
         IN  e \in active /\ ~entry[e].busy /\ entry[e].idle = IdleTimeout
<1> DEFINE e == timers[t].entry
<1>1. TypeOK /\ PoolTypeOK
  BY DEF IInv, TypeOK
<1>2. \A es : Cancelled(es)[t].state # "disposing"
  BY DEF Cancelled, FreeTimer
<1>3. PICK u \in Timer : TimerStep(u)
  <2>1. ASSUME NEW c \in Caller, ReserveCached(c) \/ ReserveNew(c) \/ Drop(c) PROVE FALSE
    <3>1. CASE ReserveCached(c) \/ ReserveNew(c)
      <4>1. ASSUME NEW s, NEW x, NEW m, NEW f, Reuse(s, x, m, f)
            PROVE  \E es : timers' = Cancelled(es)
        BY <4>1 DEF Reuse
      <4>2. ASSUME NEW s, NEW x, NEW m, NEW f, NEW v, Create(s, x, m, f, v)
            PROVE  \E es : timers' = Cancelled(es)
        BY <4>2 DEF Create
      <4> QED BY <1>2, <3>1, <4>1, <4>2 DEF ReserveCached, ReserveNew
    <3>2. CASE Drop(c)
      BY <1>2, <3>2 DEF Drop, ReleaseDrop, RemoveEntries
    <3> QED BY <2>1, <3>1, <3>2
  <2>2. ASSUME NEW c \in Caller,
               AttachSocket(c) \/ Plan(c) \/ Keep(c) \/ ScheduleExpiry(c) \/ Finish(c)
        PROVE  FALSE
    BY <1>1, <2>2 DEF AttachSocket, Attach, Plan, DropBaseline, Keep, ReleaseKeep, ScheduleExpiry,
                      Schedule, ScheduleNothing, Finish, poolVars, PoolTypeOK
  <2>3. ~CloseSession /\ ~Close
    BY <1>2 DEF CloseSession, ClearSession, Close, ClearAll, RemoveEntries
  <2>4. ~Pass
    BY <1>1 DEF Pass, Tick, PoolTypeOK, TimerRecord
  <2>5. ~UNCHANGED vars
    BY DEF vars, poolVars
  <2> QED BY <2>1, <2>2, <2>3, <2>4, <2>5 DEF Next
<1>4. ~Outdated(t)
  <2>1. timers \in [Timer -> TimerRecord] /\ timers'[t] # timers[t]
    BY <1>1 DEF PoolTypeOK
  <2>2. ~Fire(u) /\ ~Dispose(u)
    BY <2>1 DEF Fire, Dispose, FreeTimer, TimerRecord
  <2>3. Expire(u) /\ u = t
    <3>1. Expire(u)
      BY <1>3, <2>2 DEF TimerStep
    <3>2. CASE Outdated(u)
      BY <2>1, <3>1, <3>2 DEF Expire
    <3>3. CASE ~Outdated(u)
      BY <1>2, <2>1, <3>1, <3>3 DEF Expire, Cancelled
    <3> QED BY <3>1, <3>2, <3>3
  <2> QED BY <2>1, <2>3 DEF Expire, FreeTimer
<1>5. Running(t) /\ e \in Entry /\ e \in active /\ ~entry[e].busy
  BY <1>4 DEF Outdated, IInv, IndexesAgree, TimersAreOlder, Running
<1>6. entry[e].idle + timers[t].left >= IdleTimeout /\ timers[t].left = 0
  <2>1. timers[t].generation = entry[e].generation
    BY <1>4 DEF Outdated
  <2> QED BY <1>5, <2>1 DEF IInv, TimersWaitLongEnough
<1>7. entry[e].idle \in 0..IdleTimeout /\ IdleTimeout \in Nat
  BY <1>1, <1>5, LimitsAssumption DEF LimitsAssumption, PoolTypeOK, EntryRecord
<1> QED BY <1>5, <1>6, <1>7

(* No timer, of this or of an earlier use, expires a connection early.     *)
THEOREM ExpiryIsNeverEarly == Spec => NeverExpiredEarly
<1>1. IInv /\ [Next]_vars =>
        [\A t \in Timer : timers[t].state = "due" /\ timers'[t].state = "disposing" =>
           LET e == timers[t].entry
           IN  e \in active /\ ~entry[e].busy /\ entry[e].idle = IdleTimeout]_vars
  BY ExpireStep
<1> QED BY <1>1, Inductive, PTL DEF Spec, NeverExpiredEarly

(* A caller that returns its lease leaves the entry in the pool only if    *)
(* it was cached and the body had no previous_response_id of its own.      *)
LEMMA ReturnStep ==
  ASSUME IInv, [Next]_vars, NEW c \in Caller, Holding(c), ~Holding(c)', lease[c] \in active'
  PROVE  ~manual[c] /\ \E s \in Session : entries[s] = lease[c]
<1>1. TypeOK /\ PoolTypeOK /\ lease[c] \in Entry
  BY DEF IInv, TypeOK, Holding
<1>2. pc'[c] # pc[c]
  BY DEF Holding
<1>3. Keep(c) \/ Drop(c)
  <2>1. ~UNCHANGED vars /\ ~CloseSession /\ ~Close /\ ~Pass /\ \A t \in Timer : ~TimerStep(t)
    BY <1>2 DEF vars, CloseSession, Close, Pass, TimerStep
  <2>2. PICK d \in Caller :
          \/ ReserveCached(d) \/ ReserveNew(d) \/ AttachSocket(d) \/ Plan(d)
          \/ Keep(d) \/ Drop(d) \/ ScheduleExpiry(d) \/ Finish(d)
    BY <2>1 DEF Next
  <2>3. d = c
    BY <1>1, <1>2, <2>2 DEF TypeOK, ReserveCached, ReserveNew, Leased, AttachSocket, Plan, Keep,
                            Drop, ScheduleExpiry, Finish, Forget, Goto
  <2>4. ~ReserveCached(c) /\ ~ReserveNew(c) /\ ~ScheduleExpiry(c) /\ ~Finish(c)
    BY DEF ReserveCached, ReserveNew, Asking, ScheduleExpiry, Finish, Holding
  <2>5. ~AttachSocket(c) /\ ~Plan(c)
    BY <1>1, <1>2 DEF AttachSocket, Plan, Goto, Holding, TypeOK
  <2> QED BY <2>2, <2>3, <2>4, <2>5
<1>4. ~Drop(c)
  BY DEF Drop, ReleaseDrop, RemoveEntries
<1>5. PICK b \in Baseline : ReleaseKeep(lease[c], manual[c], b)
  BY <1>3, <1>4 DEF Keep
<1> QED BY <1>1, <1>5 DEF ReleaseKeep, Keeps, PoolTypeOK, EntryRecord

(* One-shot and manual leases never leave a connection behind.             *)
THEOREM OneShotsAreDropped == Spec => OneShotIsDropped
<1>1. IInv /\ [Next]_vars =>
        [\A c \in Caller : Holding(c) /\ ~Holding(c)' =>
           LET e == lease[c]
           IN  e \in active' => ~manual[c] /\ \E s \in Session : entries[s] = e]_vars
  BY ReturnStep
<1> QED BY <1>1, Inductive, PTL DEF Spec, OneShotIsDropped


(* The pool grows only by entries no caller refers to.                     *)
LEMMA ActiveStep ==
  ASSUME TypeOK, [Next]_vars, NEW c \in Caller, lease[c] \notin active
  PROVE  lease[c] \notin active'
<1>1. PoolTypeOK
  BY DEF TypeOK
<1>2. ASSUME NEW d \in Caller, ReserveNew(d) PROVE lease[c] \notin active'
  <2>1. PICK s \in Session \cup {None}, x \in Endpoint, m \in BOOLEAN, e \in Entry :
          Fresh(e) /\ \E v \in SUBSET Entry : Create(s, x, m, e, v)
    BY <1>2 DEF ReserveNew
  <2> QED BY <2>1 DEF Fresh, Create
<1>3. ASSUME NEW d \in Caller, ReserveCached(d) PROVE lease[c] \notin active'
  BY <1>3 DEF ReserveCached, Reuse
<1>4. ASSUME NEW d \in Caller, AttachSocket(d) \/ Plan(d) \/ Keep(d) \/ Drop(d)
                                \/ ScheduleExpiry(d) \/ Finish(d)
      PROVE  lease[c] \notin active'
  BY <1>4 DEF AttachSocket, Attach, Plan, DropBaseline, Keep, ReleaseKeep, Drop, ReleaseDrop,
              RemoveEntries, ScheduleExpiry, Schedule, ScheduleNothing, Finish, poolVars
<1>5. ASSUME NEW t \in Timer, TimerStep(t) PROVE lease[c] \notin active'
  BY <1>5 DEF TimerStep, Fire, Expire, Dispose
<1>6. CASE CloseSession \/ Close \/ Pass \/ UNCHANGED vars
  BY <1>6 DEF CloseSession, ClearSession, Close, ClearAll, RemoveEntries, Pass, Tick, vars, poolVars
<1> QED BY <1>2, <1>3, <1>4, <1>5, <1>6 DEF Next

(* A caller becomes dropped only by a release that removed its entry.      *)
LEMMA DroppedStep ==
  ASSUME TypeOK, DroppedIsGone, [Next]_vars
  PROVE  DroppedIsGone'
<1> SUFFICES ASSUME NEW c \in Caller, pc'[c] = "dropped" PROVE lease'[c] \notin active'
  BY DEF DroppedIsGone
<1>1. CASE Drop(c)
  BY <1>1 DEF Drop, ReleaseDrop, RemoveEntries
<1>2. CASE pc[c] = "dropped" /\ lease'[c] = lease[c]
  BY <1>2, ActiveStep DEF DroppedIsGone
<1>3. Drop(c) \/ (pc[c] = "dropped" /\ lease'[c] = lease[c])
  <2>1. ASSUME NEW d \in Caller, ReserveCached(d) \/ ReserveNew(d)
        PROVE  pc'[c] = pc[c] /\ lease'[c] = lease[c]
    BY <2>1 DEF ReserveCached, ReserveNew, Leased, Goto, TypeOK
  <2>2. ASSUME NEW d \in Caller, AttachSocket(d) \/ Plan(d) \/ Keep(d)
        PROVE  pc'[c] = pc[c] /\ lease'[c] = lease[c]
    BY <2>2 DEF AttachSocket, Plan, Keep, Goto, TypeOK
  <2>3. ASSUME NEW d \in Caller, ScheduleExpiry(d) \/ Finish(d)
        PROVE  pc'[c] = pc[c] /\ lease'[c] = lease[c]
    BY <2>3 DEF ScheduleExpiry, Finish, Forget, Goto, TypeOK
  <2>4. ASSUME NEW d \in Caller, Drop(d), d # c
        PROVE  pc'[c] = pc[c] /\ lease'[c] = lease[c]
    BY <2>4 DEF Drop, Goto, TypeOK
  <2>5. ASSUME \/ \E t \in Timer : TimerStep(t)
               \/ CloseSession \/ Close \/ Pass \/ UNCHANGED vars
        PROVE  pc'[c] = pc[c] /\ lease'[c] = lease[c]
    BY <2>5 DEF TimerStep, CloseSession, Close, Pass, vars
  <2> QED BY <2>1, <2>2, <2>3, <2>4, <2>5 DEF Next
<1> QED BY <1>1, <1>2, <1>3

LEMMA DroppedAreGone == Spec => []DroppedIsGone
<1>1. Init => DroppedIsGone
  BY DEF Init, DroppedIsGone
<1>2. TypeOK /\ DroppedIsGone /\ [Next]_vars => DroppedIsGone'
  BY DroppedStep
<1> QED BY <1>1, <1>2, TypeInvariant, PTL DEF Spec

(* A busy entry leaves the pool by its holder's release, or with all the   *)
(* entries of its session, or with all the entries of its endpoint.        *)
LEMMA EvictionStep ==
  ASSUME IInv, DroppedIsGone, [Next]_vars, NEW e \in active \ active', entry[e].busy
  PROVE  \/ \E c \in Caller : Holding(c) /\ lease[c] = e /\ pc'[c] = "dropped"
         \/ \A f \in active' : f \in active /\ entry[f].sid # entry[e].sid
         \/ \A f \in active' : entry'[f].endpoint # entry[e].endpoint
<1> DEFINE Goal == \/ \E c \in Caller : Holding(c) /\ lease[c] = e /\ pc'[c] = "dropped"
                   \/ \A f \in active' : f \in active /\ entry[f].sid # entry[e].sid
                   \/ \A f \in active' : entry'[f].endpoint # entry[e].endpoint
<1>1. TypeOK /\ PoolTypeOK /\ e \in Entry
  BY DEF IInv, TypeOK, PoolTypeOK
<1>2. ASSUME NEW c \in Caller, ReserveCached(c) PROVE Goal
  <2>1. PICK s \in Session, x \in Endpoint, g \in Entry : Reuse(s, x, FALSE, g)
    BY <1>2 DEF ReserveCached
  <2>2. e \in Stale(x) /\ entry[e].endpoint # x
    BY <2>1 DEF Reuse, Stale
  <2>3. active' = active \ Stale(x) /\ active \subseteq Entry
    BY <1>1, <2>1 DEF Reuse, PoolTypeOK
  <2>4. \A f \in active' : entry'[f].endpoint = entry[f].endpoint
    BY <1>1, <2>1, <2>3, ReuseEffect DEF SameLease
  <2>5. \A f \in active' : entry[f].endpoint = x
    BY <2>3 DEF Stale
  <2> QED BY <2>2, <2>4, <2>5
<1>3. ASSUME NEW c \in Caller, ReserveNew(c) PROVE Goal
  <2>1. PICK s \in Session \cup {None}, x \in Endpoint, m \in BOOLEAN, g \in Entry :
          \E v \in SUBSET Entry : Create(s, x, m, g, v)
    BY <1>3 DEF ReserveNew
  <2>2. PICK v \in SUBSET Entry : Create(s, x, m, g, v)
    BY <2>1
  <2>3. v \in Evictions(s, m, Stale(x)) /\ active' = (active \ (Stale(x) \cup v)) \cup {g}
    BY <2>2 DEF Create
  <2>4. e \notin v
    BY <2>3 DEF Evictions, LeastRecent
  <2>5. entry[e].endpoint # x
    BY <2>3, <2>4 DEF Stale
  <2>6. /\ entry'[g] = NewEntry(s, x)
        /\ \A f \in Entry \ {g} : f \notin Stale(x) \cup v => entry'[f] = entry[f]
    BY <2>2 DEF Create, EntryWithout
  <2>7. entry'[g].endpoint = x
    BY <2>6 DEF NewEntry
  <2>8. \A f \in active' \ {g} : f \in active /\ f \notin Stale(x) \cup v /\ f \in Entry
    BY <1>1, <2>3 DEF PoolTypeOK
  <2>9. \A f \in active' \ {g} : entry'[f] = entry[f]
    BY <2>6, <2>8
  <2>10. \A f \in active' \ {g} : entry[f].endpoint = x
    BY <2>8 DEF Stale
  <2> QED BY <2>5, <2>7, <2>9, <2>10
<1>4. ASSUME NEW c \in Caller, Drop(c) PROVE Goal
  <2>1. lease[c] = e
    BY <1>4 DEF Drop, ReleaseDrop, RemoveEntries
  <2>2. Holding(c)
    BY <1>4, <2>1 DEF Drop, DroppedIsGone
  <2>3. pc'[c] = "dropped"
    BY <1>1, <1>4 DEF Drop, Goto, TypeOK
  <2> QED BY <2>1, <2>2, <2>3
<1>5. ASSUME NEW c \in Caller, AttachSocket(c) \/ Plan(c) \/ Keep(c) \/ ScheduleExpiry(c) \/ Finish(c)
      PROVE  FALSE
  BY <1>5 DEF AttachSocket, Attach, Plan, DropBaseline, Keep, ReleaseKeep, ScheduleExpiry,
              Schedule, ScheduleNothing, Finish, poolVars
<1>6. ASSUME NEW t \in Timer, TimerStep(t) PROVE FALSE
  BY <1>6 DEF TimerStep, Fire, Expire, Dispose, Outdated
<1>7. CASE CloseSession
  <2>1. PICK s \in Session : ClearSession(s)
    BY <1>7 DEF CloseSession
  <2>2. active' = active \ OfSession(s)
    BY <2>1 DEF ClearSession, RemoveEntries
  <2> QED BY <2>2 DEF OfSession
<1>8. CASE Close
  BY <1>8 DEF Close, ClearAll, RemoveEntries
<1>9. CASE Pass \/ UNCHANGED vars
  BY <1>9 DEF Pass, Tick, vars, poolVars
<1> QED BY <1>2, <1>3, <1>4, <1>5, <1>6, <1>7, <1>8, <1>9 DEF Next

(* Neither the capacity of the cache nor a timer takes a connection in use.*)
THEOREM BusyIsNeverEvicted == Spec => BusyNeverEvicted
<1>1. IInv /\ DroppedIsGone /\ [Next]_vars =>
        [\A e \in active \ active' : entry[e].busy =>
           \/ \E c \in Caller : Holding(c) /\ lease[c] = e /\ pc'[c] = "dropped"
           \/ \A f \in active' : f \in active /\ entry[f].sid # entry[e].sid
           \/ \A f \in active' : entry'[f].endpoint # entry[e].endpoint]_vars
  BY EvictionStep
<1> QED BY <1>1, Inductive, DroppedAreGone, PTL DEF Spec, BusyNeverEvicted
=============================================================================
