------------------------- MODULE SessionPool_proofs -------------------------
(***************************************************************************)
(* What the operations of the pool do, for the proofs about the threads    *)
(* that call them: each keeps the types of the pool, and changes the       *)
(* fields the invariants speak of as its lemma says.                       *)
(***************************************************************************)
EXTENDS SessionPool, FiniteSetTheorems, TLAPS

(* An entry with any session and endpoint is an entry record.              *)
LEMMA NewEntryType ==
  ASSUME NEW s \in Session \cup {None}, NEW x \in Endpoint \cup {None}
  PROVE  NewEntry(s, x) \in EntryRecord
  BY LimitsAssumption DEF LimitsAssumption, NewEntry, EntryRecord

LEMMA BlankType == Blank \in EntryRecord
<1>1. NewEntry(None, None) \in EntryRecord
  BY NewEntryType
<1> QED BY <1>1 DEF Blank, EntryRecord

(* What _remove does to an entry leaves it an entry.                       *)
LEMMA RemovedType ==
  ASSUME NEW r \in EntryRecord PROVE Removed(r) \in EntryRecord
<1>1. r.attached \in BOOLEAN
  BY DEF EntryRecord
<1> QED BY <1>1, BlankType DEF Removed, EntryRecord

(* The fields of a removed entry that the invariants speak of.             *)
LEMMA RemovedFields ==
  ASSUME NEW r \in EntryRecord
  PROVE  /\ Removed(r).valid = FALSE /\ Removed(r).busy = FALSE
         /\ Removed(r).timer = None /\ Removed(r).base = None
         /\ Removed(r).attached = r.attached
  BY DEF Removed, Blank, NewEntry, EntryRecord

LEMMA OlderType ==
  ASSUME NEW r \in EntryRecord PROVE Older(r) \in EntryRecord
<1>1. r.age \in 0..MaxAge /\ r.idle \in 0..IdleTimeout
  BY DEF EntryRecord
<1>2. (IF r.age < MaxAge THEN r.age + 1 ELSE r.age) \in 0..MaxAge
  BY <1>1, LimitsAssumption DEF LimitsAssumption
<1>3. (IF r.idle < IdleTimeout /\ ~r.busy THEN r.idle + 1 ELSE r.idle) \in 0..IdleTimeout
  BY <1>1, LimitsAssumption DEF LimitsAssumption
<1> QED BY <1>2, <1>3 DEF Older, EntryRecord

LEMMA FreeTimerType == FreeTimer \in TimerRecord
  BY LimitsAssumption DEF LimitsAssumption, FreeTimer, TimerRecord

(* Removing a set of entries keeps the types of the pool.                  *)
LEMMA WithoutType ==
  ASSUME PoolTypeOK, NEW gone
  PROVE  /\ EntryWithout(gone) \in [Entry -> EntryRecord]
         /\ EntriesWithout(gone) \in [Session -> Entry \cup {None}]
         /\ Cancelled(gone) \in [Timer -> TimerRecord]
<1>1. EntryWithout(gone) \in [Entry -> EntryRecord]
  BY RemovedType DEF PoolTypeOK, EntryWithout
<1>2. EntriesWithout(gone) \in [Session -> Entry \cup {None}]
  BY DEF PoolTypeOK, EntriesWithout
<1>3. Cancelled(gone) \in [Timer -> TimerRecord]
  BY FreeTimerType DEF PoolTypeOK, Cancelled
<1> QED BY <1>1, <1>2, <1>3

-----------------------------------------------------------------------------
(* Each operation of the pool keeps its types.                             *)
LEMMA TakenType ==
  ASSUME NEW r \in EntryRecord, r.generation < MaxGeneration
  PROVE  Taken(r) \in EntryRecord
<1>1. r.generation \in 0..MaxGeneration
  BY DEF EntryRecord
<1>2. r.generation + 1 \in 0..MaxGeneration /\ 0 \in 0..IdleTimeout
  BY <1>1, LimitsAssumption DEF LimitsAssumption
<1> QED BY <1>2 DEF Taken, EntryRecord

LEMMA ReturnedType ==
  ASSUME NEW r \in EntryRecord, NEW b \in Baseline
  PROVE  Returned(r, b) \in EntryRecord
<1>1. 0 \in 0..IdleTimeout
  BY LimitsAssumption DEF LimitsAssumption
<1> QED BY <1>1 DEF Returned, EntryRecord

(* The entry that Reuse takes survives the purge.                          *)
LEMMA ReuseFacts ==
  ASSUME PoolTypeOK, NEW s \in Session, NEW x \in Endpoint, NEW e \in Entry,
         Reuse(s, x, FALSE, e)
  PROVE  /\ e \notin Stale(x)
         /\ entries[s] = e
         /\ ~entry[e].busy
         /\ entry' = [EntryWithout(Stale(x)) EXCEPT ![e] = Taken(entry[e])]
<1>1. e \notin Stale(x) /\ entries[s] = e /\ ~entry[e].busy
  BY NoneAssumption DEF NoneAssumption, Reuse, Cached, EntriesWithout
<1>2. EntryWithout(Stale(x))[e] = entry[e]
  BY <1>1 DEF EntryWithout
<1> QED BY <1>1, <1>2 DEF Reuse

LEMMA ReuseType ==
  ASSUME PoolTypeOK, NEW s \in Session, NEW x \in Endpoint, NEW e \in Entry,
         Reuse(s, x, FALSE, e)
  PROVE  PoolTypeOK'
<1>1. entry[e] \in EntryRecord /\ entry[e].generation < MaxGeneration
  BY DEF Reuse, PoolTypeOK
<1>2. entry' \in [Entry -> EntryRecord]
  <2>1. entry' = [EntryWithout(Stale(x)) EXCEPT ![e] = Taken(entry[e])]
    BY ReuseFacts
  <2>2. Taken(entry[e]) \in EntryRecord
    BY <1>1, TakenType
  <2> QED BY <2>1, <2>2, WithoutType
<1>3. entries' \in [Session -> Entry \cup {None}] /\ timers' \in [Timer -> TimerRecord]
  BY WithoutType DEF Reuse
<1>4. active' \subseteq Entry /\ closed' \in BOOLEAN
  BY DEF Reuse, PoolTypeOK
<1> QED BY <1>2, <1>3, <1>4 DEF PoolTypeOK

LEMMA CreateType ==
  ASSUME PoolTypeOK, NEW s \in Session \cup {None}, NEW x \in Endpoint, NEW m \in BOOLEAN,
         NEW e \in Entry, NEW v \in SUBSET Entry, Create(s, x, m, e, v)
  PROVE  PoolTypeOK'
<1>1. entry' \in [Entry -> EntryRecord]
  BY NewEntryType, WithoutType DEF Create
<1>2. entries' \in [Session -> Entry \cup {None}]
  BY WithoutType DEF Create
<1>3. active' \subseteq Entry
  BY DEF Create, PoolTypeOK
<1>4. timers' \in [Timer -> TimerRecord]
  BY WithoutType DEF Create
<1> QED BY <1>1, <1>2, <1>3, <1>4 DEF Create, PoolTypeOK

LEMMA RemoveType ==
  ASSUME PoolTypeOK, NEW gone, RemoveEntries(gone), closed' \in BOOLEAN
  PROVE  PoolTypeOK'
  BY WithoutType DEF RemoveEntries, PoolTypeOK

LEMMA FieldTypes ==
  ASSUME PoolTypeOK, NEW e \in Entry
  PROVE  /\ [entry[e] EXCEPT !.attached = TRUE] \in EntryRecord
         /\ [entry[e] EXCEPT !.base = None] \in EntryRecord
         /\ \A t \in Timer : [entry[e] EXCEPT !.timer = t] \in EntryRecord
         /\ \A b \in Baseline : Returned(entry[e], b) \in EntryRecord
<1> DEFINE r == entry[e]
<1>1. r \in EntryRecord
  BY DEF PoolTypeOK
<1> HIDE DEF r
<1>2. [r EXCEPT !.attached = TRUE] \in EntryRecord
  BY <1>1 DEF EntryRecord
<1>3. [r EXCEPT !.base = None] \in EntryRecord
  BY <1>1 DEF EntryRecord
<1>4. \A t \in Timer : [r EXCEPT !.timer = t] \in EntryRecord
  BY <1>1 DEF EntryRecord
<1>5. \A b \in Baseline : Returned(r, b) \in EntryRecord
  BY <1>1, ReturnedType
<1> QED BY <1>2, <1>3, <1>4, <1>5 DEF r

LEMMA AttachType ==
  ASSUME PoolTypeOK, NEW e \in Entry,
         Attach(e) \/ DropBaseline(e) \/ \E b \in Baseline, m \in BOOLEAN : ReleaseKeep(e, m, b)
  PROVE  PoolTypeOK'
<1>1. entry' \in [Entry -> EntryRecord]
  BY FieldTypes DEF PoolTypeOK, Attach, DropBaseline, ReleaseKeep
<1> QED BY <1>1 DEF PoolTypeOK, Attach, DropBaseline, ReleaseKeep

LEMMA ScheduleType ==
  ASSUME PoolTypeOK, NEW e \in Entry, NEW t \in Timer, Schedule(e, t)
  PROVE  PoolTypeOK'
<1>1. entry' \in [Entry -> EntryRecord]
  BY FieldTypes DEF PoolTypeOK, Schedule
<1>2. entry[e].generation \in 0..MaxGeneration
  BY DEF PoolTypeOK, EntryRecord
<1>3. timers' \in [Timer -> TimerRecord]
  BY <1>2, LimitsAssumption DEF LimitsAssumption, PoolTypeOK, Schedule, TimerRecord
<1> QED BY <1>1, <1>3 DEF PoolTypeOK, Schedule

LEMMA TimerType ==
  ASSUME PoolTypeOK, NEW t \in Timer, Fire(t) \/ Expire(t) \/ Dispose(t)
  PROVE  PoolTypeOK'
<1>1. \A state \in {"due", "disposing"} : [timers[t] EXCEPT !.state = state] \in TimerRecord
  BY DEF PoolTypeOK, TimerRecord
<1>2. timers' \in [Timer -> TimerRecord]
  BY <1>1, FreeTimerType, WithoutType DEF PoolTypeOK, Fire, Expire, Dispose
<1>3. entry' \in [Entry -> EntryRecord] /\ entries' \in [Session -> Entry \cup {None}]
  BY WithoutType DEF PoolTypeOK, Fire, Expire, Dispose
<1> QED BY <1>2, <1>3 DEF PoolTypeOK, Fire, Expire, Dispose

LEMMA TickType ==
  ASSUME PoolTypeOK, Tick PROVE PoolTypeOK'
<1>1. entry' \in [Entry -> EntryRecord]
  BY OlderType DEF PoolTypeOK, Tick
<1>2. \A t \in Timer : timers[t].left > 0 => [timers[t] EXCEPT !.left = @ - 1] \in TimerRecord
  BY LimitsAssumption DEF LimitsAssumption, PoolTypeOK, TimerRecord
<1>3. timers' \in [Timer -> TimerRecord]
  BY <1>2 DEF PoolTypeOK, Tick
<1> QED BY <1>1, <1>3 DEF PoolTypeOK, Tick

-----------------------------------------------------------------------------
(* What each operation does, field by field: the facts the invariance      *)
(* proofs use instead of the records themselves.                           *)

IsGone(r, q) ==
  /\ q.valid = FALSE /\ q.busy = FALSE /\ q.timer = None /\ q.base = None
  /\ q.attached = r.attached

SameLease(r, q) ==
  q.sid = r.sid /\ q.endpoint = r.endpoint /\ q.valid = r.valid /\ q.attached = r.attached

LEMMA WithoutFacts ==
  ASSUME PoolTypeOK, NEW gone, NEW e \in Entry
  PROVE  /\ e \in gone => IsGone(entry[e], EntryWithout(gone)[e])
         /\ e \notin gone => EntryWithout(gone)[e] = entry[e]
<1>1. entry[e] \in EntryRecord
  BY DEF PoolTypeOK
<1> QED BY <1>1, RemovedFields DEF EntryWithout, IsGone

LEMMA TakenFields ==
  ASSUME NEW r \in EntryRecord
  PROVE  /\ SameLease(r, Taken(r)) /\ Taken(r).busy = TRUE /\ Taken(r).timer = None
         /\ Taken(r).base = r.base /\ Taken(r).idle = 0
         /\ Taken(r).generation = r.generation + 1
  BY DEF Taken, SameLease, EntryRecord

LEMMA ReturnedFields ==
  ASSUME NEW r \in EntryRecord, NEW b
  PROVE  /\ SameLease(r, Returned(r, b)) /\ Returned(r, b).busy = FALSE
         /\ Returned(r, b).timer = r.timer /\ Returned(r, b).base = b
         /\ Returned(r, b).idle = 0 /\ Returned(r, b).generation = r.generation
  BY DEF Returned, SameLease, EntryRecord

LEMMA OlderFields ==
  ASSUME NEW r \in EntryRecord
  PROVE  /\ SameLease(r, Older(r)) /\ Older(r).busy = r.busy
         /\ Older(r).timer = r.timer /\ Older(r).base = r.base
         /\ Older(r).generation = r.generation
         /\ Older(r).idle = IF r.idle < IdleTimeout /\ ~r.busy THEN r.idle + 1 ELSE r.idle
  BY DEF Older, SameLease, EntryRecord

LEMMA ReuseEffect ==
  ASSUME PoolTypeOK, NEW s \in Session, NEW x \in Endpoint, NEW e \in Entry,
         Reuse(s, x, FALSE, e)
  PROVE  /\ SameLease(entry[e], entry'[e])
         /\ entry'[e].busy = TRUE /\ entry'[e].timer = None /\ entry'[e].base = entry[e].base
         /\ entry'[e].idle = 0 /\ entry'[e].generation = entry[e].generation + 1
         /\ \A f \in Entry : f \in Stale(x) => IsGone(entry[f], entry'[f])
         /\ \A f \in Entry \ {e} : f \notin Stale(x) => entry'[f] = entry[f]
         /\ entries' = EntriesWithout(Stale(x)) /\ active' = active \ Stale(x)
         /\ timers' = Cancelled(Stale(x) \cup {e})
         /\ closed = FALSE /\ closed' = FALSE
<1>1. entry[e] \in EntryRecord
  BY DEF PoolTypeOK
<1>2. e \notin Stale(x) /\ entry' = [EntryWithout(Stale(x)) EXCEPT ![e] = Taken(entry[e])]
  BY ReuseFacts
<1>3. EntryWithout(Stale(x)) \in [Entry -> EntryRecord]
  BY WithoutType
<1>4. entry'[e] = Taken(entry[e])
  BY <1>2, <1>3
<1>5. \A f \in Entry \ {e} : entry'[f] = EntryWithout(Stale(x))[f]
  BY <1>2, <1>3
<1>6. closed = FALSE /\ closed' = FALSE
  BY DEF Reuse, PoolTypeOK
<1>7. entries' = EntriesWithout(Stale(x)) /\ active' = active \ Stale(x)
      /\ timers' = Cancelled(Stale(x) \cup {e})
  BY DEF Reuse
<1> QED BY <1>1, <1>2, <1>4, <1>5, <1>6, <1>7, TakenFields, WithoutFacts

LEMMA CreateEffect ==
  ASSUME PoolTypeOK, NEW s \in Session \cup {None}, NEW x \in Endpoint, NEW m \in BOOLEAN,
         NEW e \in Entry, NEW v \in SUBSET Entry, Create(s, x, m, e, v)
  PROVE  /\ entry'[e] = NewEntry(s, x)
         /\ \A f \in Entry \ {e} : f \in Stale(x) \cup v => IsGone(entry[f], entry'[f])
         /\ \A f \in Entry \ {e} : f \notin Stale(x) \cup v => entry'[f] = entry[f]
         /\ active' = (active \ (Stale(x) \cup v)) \cup {e}
         /\ timers' = Cancelled(Stale(x) \cup v)
         /\ entries' = IF Persists(s, m, Stale(x), v)
                         THEN [EntriesWithout(Stale(x) \cup v) EXCEPT ![s] = e]
                         ELSE EntriesWithout(Stale(x) \cup v)
         /\ v \in Evictions(s, m, Stale(x))
         /\ closed = FALSE /\ closed' = FALSE
<1> DEFINE gone == Stale(x) \cup v
<1>1. entry' = [EntryWithout(gone) EXCEPT ![e] = NewEntry(s, x)]
  BY DEF Create
<1>2. EntryWithout(gone) \in [Entry -> EntryRecord]
  BY WithoutType
<1>3. entry'[e] = NewEntry(s, x)
  BY <1>1, <1>2
<1>4. \A f \in Entry \ {e} : entry'[f] = EntryWithout(gone)[f]
  BY <1>1, <1>2
<1>5. closed = FALSE /\ closed' = FALSE
  BY DEF Create, PoolTypeOK
<1> QED BY <1>3, <1>4, <1>5, WithoutFacts DEF Create

LEMMA RemoveEffect ==
  ASSUME PoolTypeOK, NEW gone, RemoveEntries(gone)
  PROVE  /\ \A f \in Entry : f \in gone => IsGone(entry[f], entry'[f])
         /\ \A f \in Entry : f \notin gone => entry'[f] = entry[f]
         /\ entries' = EntriesWithout(gone) /\ active' = active \ gone
         /\ timers' = Cancelled(gone)
  BY WithoutFacts DEF RemoveEntries

(* The fields that the timer invariants compare.                           *)
LEMMA FieldsInRange ==
  ASSUME PoolTypeOK
  PROVE  /\ \A f \in Entry : /\ entry[f].generation \in Nat /\ entry[f].idle \in Nat
                             /\ entry[f].timer \in Timer \cup {None}
         /\ \A t \in Timer : /\ timers[t].generation \in Nat /\ timers[t].left \in Nat
                             /\ timers[t].entry \in Entry \cup {None}
  BY LimitsAssumption DEF LimitsAssumption, PoolTypeOK, EntryRecord, TimerRecord

-----------------------------------------------------------------------------
(* What the operations of the pool mean for sockets and conversations.     *)
AttachedStays == \A f \in Entry : entry'[f].attached = entry[f].attached

DisposingStays ==
  \A t \in Timer : /\ timers'[t].state = "disposing" <=> timers[t].state = "disposing"
                   /\ timers[t].state = "disposing" => timers'[t].entry = timers[t].entry

SameUse(f) ==
  /\ entry'[f].base = entry[f].base /\ entry'[f].busy = entry[f].busy
  /\ entry'[f].generation = entry[f].generation

LEMMA CancelledDisposing ==
  ASSUME PoolTypeOK, NEW es, timers' = Cancelled(es)
  PROVE  DisposingStays
  BY DEF PoolTypeOK, Cancelled, FreeTimer, DisposingStays

LEMMA RemoveUse ==
  ASSUME PoolTypeOK, NEW gone, RemoveEntries(gone)
  PROVE  /\ active' = active \ gone /\ AttachedStays /\ DisposingStays
         /\ \A f \in active' : SameUse(f)
<1>1. DisposingStays
  BY CancelledDisposing DEF RemoveEntries
<1>2. active' = active \ gone /\ active \subseteq Entry
  BY DEF RemoveEntries, PoolTypeOK
<1>3. AttachedStays
  BY RemoveEffect DEF AttachedStays, IsGone
<1>4. \A f \in active' : SameUse(f)
  BY <1>2, RemoveEffect DEF SameUse
<1> QED BY <1>1, <1>2, <1>3, <1>4

LEMMA ReuseUse ==
  ASSUME PoolTypeOK, NEW s \in Session, NEW x \in Endpoint, NEW e \in Entry,
         Reuse(s, x, FALSE, e)
  PROVE  /\ active' = active \ Stale(x) /\ AttachedStays /\ DisposingStays
         /\ \A f \in active' \ {e} : SameUse(f)
         /\ entry'[e].base = entry[e].base /\ entry'[e].busy /\ ~entry[e].busy
         /\ entry'[e].generation = entry[e].generation + 1
<1>1. DisposingStays
  BY CancelledDisposing DEF Reuse
<1>2. active \subseteq Entry /\ entry[e].busy \in BOOLEAN
  BY DEF PoolTypeOK, EntryRecord
<1>3. active' = active \ Stale(x)
  BY ReuseEffect
<1>4. AttachedStays
  BY ReuseEffect DEF AttachedStays, IsGone, SameLease
<1>5. \A f \in active' \ {e} : SameUse(f)
  <2>1. \A f \in Entry \ {e} : f \notin Stale(x) => entry'[f] = entry[f]
    BY ReuseEffect
  <2> QED BY <1>2, <1>3, <2>1 DEF SameUse
<1>6. ~entry[e].busy
  BY <1>2, ReuseFacts
<1>7. entry'[e].base = entry[e].base /\ entry'[e].busy
      /\ entry'[e].generation = entry[e].generation + 1
  BY ReuseEffect
<1> QED BY <1>1, <1>3, <1>4, <1>5, <1>6, <1>7

LEMMA CreateUse ==
  ASSUME PoolTypeOK, NEW s \in Session \cup {None}, NEW x \in Endpoint, NEW m \in BOOLEAN,
         NEW e \in Entry, NEW v \in SUBSET Entry, Create(s, x, m, e, v)
  PROVE  /\ active' = (active \ (Stale(x) \cup v)) \cup {e} /\ DisposingStays
         /\ \A f \in Entry \ {e} : entry'[f].attached = entry[f].attached
         /\ \A f \in active' \ {e} : SameUse(f)
         /\ ~entry'[e].attached /\ entry'[e].base = None
<1>1. DisposingStays
  BY CancelledDisposing DEF Create
<1>2. active \subseteq Entry
  BY DEF PoolTypeOK
<1>3. /\ entry'[e] = NewEntry(s, x)
      /\ \A f \in Entry \ {e} : f \in Stale(x) \cup v => IsGone(entry[f], entry'[f])
      /\ \A f \in Entry \ {e} : f \notin Stale(x) \cup v => entry'[f] = entry[f]
      /\ active' = (active \ (Stale(x) \cup v)) \cup {e}
      /\ timers' = Cancelled(Stale(x) \cup v)
      /\ entries' = IF Persists(s, m, Stale(x), v)
                      THEN [EntriesWithout(Stale(x) \cup v) EXCEPT ![s] = e]
                      ELSE EntriesWithout(Stale(x) \cup v)
      /\ v \in Evictions(s, m, Stale(x))
      /\ closed = FALSE /\ closed' = FALSE
  BY CreateEffect
<1>4. \A f \in Entry \ {e} : entry'[f].attached = entry[f].attached
  BY <1>3 DEF IsGone
<1>5. \A f \in active' \ {e} : SameUse(f)
  BY <1>2, <1>3 DEF SameUse
<1>6. ~entry'[e].attached /\ entry'[e].base = None
  BY <1>3 DEF NewEntry
<1> QED BY <1>1, <1>3, <1>4, <1>5, <1>6

(* Operations on one entry of the pool leave the others alone.             *)
LEMMA FieldUse ==
  ASSUME PoolTypeOK, NEW e \in Entry,
         \/ Attach(e) \/ DropBaseline(e) \/ \E t \in Timer : Schedule(e, t)
         \/ \E b \in Baseline, m \in BOOLEAN : ReleaseKeep(e, m, b)
  PROVE  /\ active' = active /\ DisposingStays
         /\ \A f \in Entry \ {e} : entry'[f] = entry[f]
         /\ entry'[e].generation = entry[e].generation
<1>1. CASE Attach(e) \/ DropBaseline(e)
  BY <1>1 DEF PoolTypeOK, EntryRecord, Attach, DropBaseline, DisposingStays
<1>2. ASSUME NEW t \in Timer, Schedule(e, t)
      PROVE  /\ active' = active /\ DisposingStays
             /\ \A f \in Entry \ {e} : entry'[f] = entry[f]
             /\ entry'[e].generation = entry[e].generation
  BY <1>2 DEF PoolTypeOK, EntryRecord, Schedule, DisposingStays
<1>3. ASSUME NEW b \in Baseline, NEW m \in BOOLEAN, ReleaseKeep(e, m, b)
      PROVE  /\ active' = active /\ DisposingStays
             /\ \A f \in Entry \ {e} : entry'[f] = entry[f]
             /\ entry'[e].generation = entry[e].generation
  BY <1>3, ReturnedFields DEF PoolTypeOK, ReleaseKeep, DisposingStays
<1> QED BY <1>1, <1>2, <1>3

LEMMA AttachUse ==
  ASSUME PoolTypeOK, NEW e \in Entry, Attach(e)
  PROVE  /\ entry'[e].attached /\ SameUse(e)
         /\ \A f \in Entry \ {e} : entry'[f] = entry[f]
         /\ active' = active /\ DisposingStays /\ entry[e].valid
<1>1. entry'[e].attached /\ SameUse(e)
  BY DEF PoolTypeOK, EntryRecord, Attach, SameUse
<1> QED BY <1>1, FieldUse DEF Attach

LEMMA DropUse ==
  ASSUME PoolTypeOK, NEW e \in Entry, DropBaseline(e)
  PROVE  /\ entry'[e].base = None /\ entry'[e].busy = entry[e].busy
         /\ entry'[e].generation = entry[e].generation
         /\ \A f \in Entry \ {e} : entry'[f] = entry[f]
         /\ active' = active /\ AttachedStays /\ DisposingStays
<1>1. entry'[e].attached = entry[e].attached /\ entry'[e].base = None
      /\ entry'[e].busy = entry[e].busy
  BY DEF PoolTypeOK, EntryRecord, DropBaseline
<1>2. /\ active' = active /\ DisposingStays
      /\ \A f \in Entry \ {e} : entry'[f] = entry[f]
      /\ entry'[e].generation = entry[e].generation
  BY FieldUse
<1> QED BY <1>1, <1>2 DEF AttachedStays

LEMMA KeepUse ==
  ASSUME PoolTypeOK, NEW e \in Entry, NEW m \in BOOLEAN, NEW b \in Baseline, ReleaseKeep(e, m, b)
  PROVE  /\ entry'[e].base = b /\ ~entry'[e].busy
         /\ entry'[e].generation = entry[e].generation
         /\ \A f \in Entry \ {e} : entry'[f] = entry[f]
         /\ active' = active /\ AttachedStays /\ DisposingStays
<1>1. entry'[e].attached = entry[e].attached /\ entry'[e].base = b /\ ~entry'[e].busy
  <2>1. entry[e] \in EntryRecord /\ entry'[e] = Returned(entry[e], b)
    BY DEF PoolTypeOK, ReleaseKeep
  <2>2. /\ SameLease(entry[e], Returned(entry[e], b)) /\ Returned(entry[e], b).busy = FALSE
        /\ Returned(entry[e], b).base = b
    BY <2>1, ReturnedFields
  <2> QED BY <2>1, <2>2 DEF SameLease
<1>2. /\ active' = active /\ DisposingStays
      /\ \A f \in Entry \ {e} : entry'[f] = entry[f]
      /\ entry'[e].generation = entry[e].generation
  BY FieldUse
<1> QED BY <1>1, <1>2 DEF AttachedStays

LEMMA ScheduleUse ==
  ASSUME PoolTypeOK, NEW e \in Entry, NEW t \in Timer, Schedule(e, t)
  PROVE  /\ active' = active /\ AttachedStays /\ DisposingStays
         /\ \A f \in active' : SameUse(f)
<1>1. entry'[e].attached = entry[e].attached /\ SameUse(e)
  BY DEF PoolTypeOK, EntryRecord, Schedule, SameUse
<1>2. /\ active' = active /\ DisposingStays
      /\ \A f \in Entry \ {e} : entry'[f] = entry[f]
  BY FieldUse
<1> QED BY <1>1, <1>2 DEF AttachedStays, SameUse, PoolTypeOK

LEMMA TickUse ==
  ASSUME PoolTypeOK, Tick
  PROVE  /\ active' = active /\ AttachedStays /\ DisposingStays
         /\ \A f \in active' : SameUse(f)
<1>1. \A f \in Entry : entry'[f].attached = entry[f].attached /\ SameUse(f)
  <2> SUFFICES ASSUME NEW f \in Entry
               PROVE  entry'[f].attached = entry[f].attached /\ SameUse(f)
    OBVIOUS
  <2>1. entry'[f] = entry[f] \/ entry'[f] = Older(entry[f])
    BY DEF Tick
  <2>2. entry[f] \in EntryRecord
    BY DEF PoolTypeOK
  <2> QED BY <2>1, <2>2, OlderFields DEF SameLease, SameUse
<1>2. DisposingStays
  BY DEF PoolTypeOK, TimerRecord, Tick, DisposingStays
<1> QED BY <1>1, <1>2 DEF Tick, AttachedStays, PoolTypeOK

(* A timer thread removes one entry at most, to close its socket next.     *)
LEMMA TimerUse ==
  ASSUME PoolTypeOK, NEW t \in Timer, Fire(t) \/ Expire(t)
  PROVE  /\ active' \subseteq active /\ AttachedStays
         /\ \A f \in active' : SameUse(f)
         /\ \A u \in Timer : timers[u].state = "disposing" =>
              timers'[u].state = "disposing" /\ timers'[u].entry = timers[u].entry
         /\ \A u \in Timer : timers'[u].state = "disposing" /\ timers[u].state # "disposing" =>
              timers'[u].entry \notin active'
         /\ \A f \in active \ active' :
              \E u \in Timer : timers'[u].state = "disposing" /\ timers'[u].entry = f
<1>1. CASE Fire(t)
  <2>1. entry' = entry /\ active' = active
    BY <1>1 DEF Fire
  <2>2. timers' = [timers EXCEPT ![t] = [timers[t] EXCEPT !.state = "due"]]
        /\ timers[t].state = "armed"
    BY <1>1 DEF Fire, PoolTypeOK
  <2> QED BY <2>1, <2>2 DEF AttachedStays, SameUse, PoolTypeOK, TimerRecord
<1>2. CASE Expire(t) /\ Outdated(t)
  BY <1>2 DEF Expire, FreeTimer, AttachedStays, SameUse, PoolTypeOK, TimerRecord
<1>3. CASE Expire(t) /\ ~Outdated(t)
  <2> DEFINE e == timers[t].entry
  <2>1. /\ entry' = EntryWithout({e}) /\ active' = active \ {e} /\ timers[t].state = "due"
        /\ timers' = [Cancelled({e}) EXCEPT ![t] = [timers[t] EXCEPT !.state = "disposing"]]
    BY <1>3 DEF Expire
  <2>2. timers[t] \in TimerRecord /\ Cancelled({e}) \in [Timer -> TimerRecord]
    BY WithoutType DEF PoolTypeOK
  <2>3. timers'[t].state = "disposing" /\ timers'[t].entry = e
    BY <2>1, <2>2 DEF TimerRecord
  <2>4. \A u \in Timer \ {t} : timers'[u] = timers[u] \/ timers'[u] = FreeTimer
    BY <2>1, <2>2 DEF Cancelled
  <2>5. \A u \in Timer \ {t} : timers[u].state = "disposing" => timers'[u] = timers[u]
    BY <2>1, <2>2 DEF Cancelled
  <2>6. \A f \in Entry : entry'[f].attached = entry[f].attached
    BY <2>1, WithoutFacts DEF IsGone
  <2>7. \A f \in active' : SameUse(f)
    BY <2>1, WithoutFacts DEF SameUse, PoolTypeOK
  <2>8. \A u \in Timer \ {t} : timers'[u].state = "disposing" => timers[u].state = "disposing"
    BY <2>4 DEF FreeTimer
  <2>9. active' \subseteq active /\ e \notin active' /\ timers[t].state # "disposing"
    BY <2>1
  <2>10. \A f \in active \ active' : f = e
    BY <2>1
  <2>11. AttachedStays
    BY <2>6 DEF AttachedStays
  <2> HIDE DEF e
  <2>12. \A u \in Timer : timers[u].state = "disposing" =>
           timers'[u].state = "disposing" /\ timers'[u].entry = timers[u].entry
    BY <2>5, <2>9
  <2>13. \A u \in Timer : timers'[u].state = "disposing" /\ timers[u].state # "disposing" =>
           timers'[u].entry \notin active'
    BY <2>3, <2>8, <2>9
  <2>14. \A f \in active \ active' :
           \E u \in Timer : timers'[u].state = "disposing" /\ timers'[u].entry = f
    BY <2>3, <2>10
  <2> QED BY <2>7, <2>9, <2>11, <2>12, <2>13, <2>14
<1> QED BY <1>1, <1>2, <1>3
=============================================================================
