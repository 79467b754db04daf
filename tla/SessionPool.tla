---------------------------- MODULE SessionPool ----------------------------
(***************************************************************************)
(* The registry of WebSocket sessions (_session_pool.py).  Every method of *)
(* SessionPool runs under one lock, so each is one action here; the        *)
(* modules that extend this one add the threads that call them and say     *)
(* what happens between two calls.                                         *)
(*                                                                         *)
(* An Entry is a Python object, recycled once nothing refers to it.  Time  *)
(* enters only through the comparisons the code makes, so an entry keeps   *)
(* the age of its connection and of its last use, saturating at the two    *)
(* limits, instead of two clock readings.                                  *)
(***************************************************************************)
EXTENDS Integers, FiniteSets

CONSTANTS
  Entry,          \* the identities an Entry object can have
  Session,        \* session ids
  Endpoint,       \* WebSocket URLs
  Timer,          \* the identities an expiry timer can have
  Baseline,       \* what a completed response leaves for a continuation
  None,           \* Python's None
  MaxSize,        \* session_cache_max_size
  IdleTimeout,    \* session_cache_idle_timeout, in ticks
  MaxAge,         \* the 55 minutes a connection is reused for, in ticks
  MaxGeneration   \* bound: the generations one Entry object goes through

ASSUME LimitsAssumption ==
  /\ MaxSize \in Nat
  /\ IdleTimeout \in Nat \ {0}
  /\ MaxAge \in Nat \ {0}
  /\ MaxGeneration \in Nat \ {0}

ASSUME NoneAssumption ==
  None \notin Entry \cup Session \cup Endpoint \cup Timer \cup Baseline

ASSUME FiniteAssumption == IsFiniteSet(Session)

VARIABLES
  entry,     \* the fields of each Entry object
  entries,   \* SessionPool.entries: the entry cached under a session id
  active,    \* SessionPool.active: every entry not yet removed
  closed,    \* SessionPool.closed
  timers     \* the expiry timers started and not finished

poolVars == <<entry, entries, active, closed, timers>>

(***************************************************************************)
(* body, response_id and output of an entry are set together and cleared   *)
(* together under the lock; "base" is the three.  "attached" says that     *)
(* entry.socket is not None: an entry is given at most one socket, so the  *)
(* socket of an entry needs no name of its own.                            *)
(***************************************************************************)
EntryRecord ==
  [sid : Session \cup {None}, endpoint : Endpoint \cup {None},
   age : 0..MaxAge, idle : 0..IdleTimeout,
   busy : BOOLEAN, valid : BOOLEAN, attached : BOOLEAN,
   timer : Timer \cup {None}, generation : 0..MaxGeneration,
   base : Baseline \cup {None}]

NewEntry(s, endpoint) ==
  [sid |-> s, endpoint |-> endpoint, age |-> 0, idle |-> 0,
   busy |-> TRUE, valid |-> TRUE, attached |-> FALSE,
   timer |-> None, generation |-> 0, base |-> None]

(* An object nobody has created yet.                                       *)
Blank == [NewEntry(None, None) EXCEPT !.busy = FALSE, !.valid = FALSE]

(***************************************************************************)
(* A timer is armed until its delay has passed and its thread starts the   *)
(* callback; it is due while the callback waits for the lock, out of reach *)
(* of cancel(); it is disposing once the callback has removed its entry    *)
(* and goes on, without the lock, to close the socket.                     *)
(***************************************************************************)
TimerRecord ==
  [state : {"free", "armed", "due", "disposing"}, entry : Entry \cup {None},
   generation : 0..MaxGeneration, left : 0..IdleTimeout]

FreeTimer == [state |-> "free", entry |-> None, generation |-> 0, left |-> 0]

PoolTypeOK ==
  /\ entry \in [Entry -> EntryRecord]
  /\ entries \in [Session -> Entry \cup {None}]
  /\ active \subseteq Entry
  /\ closed \in BOOLEAN
  /\ timers \in [Timer -> TimerRecord]

PoolInit ==
  /\ entry = [e \in Entry |-> Blank]
  /\ entries = [s \in Session |-> None]
  /\ active = {}
  /\ closed = FALSE
  /\ timers = [t \in Timer |-> FreeTimer]

-----------------------------------------------------------------------------
(* _remove: what it does to each part of the state, for a set of entries.  *)

(* Mutant: a removed entry keeps its history.                              *)
RemovedWithHistory(r) == [Blank EXCEPT !.attached = r.attached, !.base = r.base]

(* Every method tests valid before it looks at another field, so what a    *)
(* removed entry still holds in them, its bumped generation included, is   *)
(* never read again: they go back to blank.  Only socket is still read, by *)
(* the thread that closes it.                                              *)
Removed(r) == [Blank EXCEPT !.attached = r.attached]

EntryWithout(gone) ==
  [e \in Entry |-> IF e \in gone THEN Removed(entry[e]) ELSE entry[e]]

(* Mutant: the index of sessions still names removed entries.              *)
EntriesUntouched(gone) == entries

EntriesWithout(gone) ==
  [s \in Session |-> IF entries[s] \in gone THEN None ELSE entries[s]]

(* timer.cancel() stops a timer whose callback has not started.            *)
Cancelled(es) ==
  [t \in Timer |-> IF timers[t].state = "armed" /\ \E e \in es : entry[e].timer = t
                   THEN FreeTimer ELSE timers[t]]

RemoveEntries(gone) ==
  /\ entry' = EntryWithout(gone)
  /\ entries' = EntriesWithout(gone)
  /\ active' = active \ gone
  /\ timers' = Cancelled(gone)

-----------------------------------------------------------------------------
(* reserve *)

(* The purge: entries of another endpoint, busy or not, and idle entries   *)
(* unused for too long or connected for too long.                          *)
Stale(endpoint) ==
  {e \in active : \/ entry[e].endpoint # endpoint
                  \/ /\ ~entry[e].busy
                     /\ entry[e].idle >= IdleTimeout \/ entry[e].age >= MaxAge}

Cached(s, gone) == IF s = None THEN None ELSE EntriesWithout(gone)[s]

CachedSessions(gone) == {s \in Session : EntriesWithout(gone)[s] # None}

(* Mutant: eviction looks at busy entries too.                             *)
LeastRecentOfAll(gone) == {e \in Entry : \E s \in Session : EntriesWithout(gone)[s] = e}

(* The idle cached entries that were used the longest time ago.            *)
LeastRecent(gone) ==
  LET idle == {e \in Entry : /\ \E s \in Session : EntriesWithout(gone)[s] = e
                             /\ ~entry[e].busy}
  IN  {e \in idle : \A f \in idle : entry[f].idle <= entry[e].idle}

(* Mutant: the timers of an earlier use pass for current ones.             *)
TakenInSameGeneration(r) == [r EXCEPT !.busy = TRUE, !.idle = 0, !.timer = None]

(* A cached entry leased again: its timers so far are of an older generation. *)
Taken(r) ==
  [r EXCEPT !.busy = TRUE, !.idle = 0, !.timer = None, !.generation = @ + 1]

(* Mutant: a second caller is given the connection in use.                 *)
ReuseBusy(s, endpoint, manual, e) ==
  LET gone == Stale(endpoint)
  IN  /\ ~closed /\ ~manual
      /\ e \in Entry /\ Cached(s, gone) = e
      /\ entry' = [EntryWithout(gone) EXCEPT ![e] = [@ EXCEPT !.busy = TRUE]]
      /\ entries' = EntriesWithout(gone)
      /\ active' = active \ gone
      /\ timers' = Cancelled(gone \cup {e})
      /\ UNCHANGED closed

(* The cached idle connection of the session is leased again.              *)
Reuse(s, endpoint, manual, e) ==
  LET gone == Stale(endpoint)
  IN  /\ ~closed
      /\ ~manual
      /\ Cached(s, gone) = e
      /\ e \in Entry
      /\ ~entry[e].busy
      /\ entry[e].generation < MaxGeneration
      /\ entry' = [EntryWithout(gone) EXCEPT ![e] = Taken(@)]
      /\ entries' = EntriesWithout(gone)
      /\ active' = active \ gone
      /\ timers' = Cancelled(gone \cup {e})
      /\ UNCHANGED closed

Wanted(s, manual, gone) ==
  s # None /\ ~manual /\ Cached(s, gone) = None /\ MaxSize > 0

(* Mutant: one session too many.                                           *)
FullPastMax(gone) == Cardinality(CachedSessions(gone)) > MaxSize

Full(gone) == Cardinality(CachedSessions(gone)) >= MaxSize

(* What a new entry evicts: nothing while there is room, else the least    *)
(* recently used idle entry, if there is one.                              *)
Evictions(s, manual, gone) ==
  IF Wanted(s, manual, gone) /\ Full(gone) /\ LeastRecent(gone) # {}
    THEN {{v} : v \in LeastRecent(gone)}
    ELSE {{}}

Persists(s, manual, gone, evicted) ==
  Wanted(s, manual, gone) /\ (Full(gone) => evicted # {})

(* A new entry, cached or one-shot; e is an object nothing refers to.      *)
Create(s, endpoint, manual, e, evicted) ==
  LET purged == Stale(endpoint)
      gone == purged \cup evicted
      cached == Cached(s, purged)
  IN  /\ ~closed
      /\ cached # None /\ ~manual => entry[cached].busy
      /\ evicted \in Evictions(s, manual, purged)
      /\ entry' = [EntryWithout(gone) EXCEPT ![e] = NewEntry(s, endpoint)]
      /\ entries' = IF Persists(s, manual, purged, evicted)
                      THEN [EntriesWithout(gone) EXCEPT ![s] = e]
                      ELSE EntriesWithout(gone)
      /\ active' = (active \ gone) \cup {e}
      /\ timers' = Cancelled(gone)
      /\ UNCHANGED closed

(* No part of the pool, and no timer, refers to the object.                *)
Unreferenced(e) == e \notin active /\ \A t \in Timer : timers[t].entry # e

-----------------------------------------------------------------------------
(* attach succeeds on a valid entry; on a removed one it changes nothing.  *)
Attach(e) ==
  /\ entry[e].valid
  /\ entry' = [entry EXCEPT ![e].attached = TRUE]
  /\ UNCHANGED <<entries, active, closed, timers>>

(* plan_request drops the baseline of an entry it cannot continue from.    *)
DropBaseline(e) ==
  /\ entry' = [entry EXCEPT ![e].base = None]
  /\ UNCHANGED <<entries, active, closed, timers>>

(* Mutant: an entry that was not cached is kept.                           *)
KeepsUncached(e, completed, manual) ==
  entry[e].valid /\ entry[e].sid # None /\ completed /\ ~manual

(* release keeps the connection only for a completed response with an id   *)
(* on a cached entry, and only for a body without previous_response_id.    *)
Keeps(e, completed, manual) ==
  /\ entry[e].valid
  /\ entry[e].sid # None
  /\ entries[entry[e].sid] = e
  /\ completed
  /\ ~manual

(* Mutant: the entry stays busy.                                           *)
ReturnedBusy(r, base) == [r EXCEPT !.base = base, !.idle = 0]

Returned(r, base) == [r EXCEPT !.base = base, !.busy = FALSE, !.idle = 0]

ReleaseKeep(e, manual, base) ==
  /\ Keeps(e, TRUE, manual)
  /\ entry' = [entry EXCEPT ![e] = Returned(@, base)]
  /\ UNCHANGED <<entries, active, closed, timers>>

(* Mutant: the caller does not remove what it is about to close.           *)
ReleaseDropForgets(e, completed, manual) ==
  ~Keeps(e, completed, manual) /\ UNCHANGED poolVars

ReleaseDrop(e, completed, manual) ==
  /\ ~Keeps(e, completed, manual)
  /\ RemoveEntries({e})
  /\ UNCHANGED closed

(* Mutant: the timer carries the generation of a new entry.                *)
ScheduleUnstamped(e, t) ==
  /\ entry[e].valid /\ ~entry[e].busy
  /\ timers[t].state = "free"
  /\ timers' = [timers EXCEPT ![t] = [state |-> "armed", entry |-> e,
                                     generation |-> 0, left |-> IdleTimeout]]
  /\ entry' = [entry EXCEPT ![e].timer = t]
  /\ UNCHANGED <<entries, active, closed>>

(* schedule arms a timer for an idle entry; the timer entry.timer already  *)
(* names, if any, is overwritten and not cancelled.                        *)
Schedule(e, t) ==
  /\ entry[e].valid /\ ~entry[e].busy
  /\ timers[t].state = "free"
  /\ timers' = [timers EXCEPT ![t] =
                  [state |-> "armed", entry |-> e,
                   generation |-> entry[e].generation, left |-> IdleTimeout]]
  /\ entry' = [entry EXCEPT ![e].timer = t]
  /\ UNCHANGED <<entries, active, closed>>

ScheduleNothing(e) ==
  /\ ~entry[e].valid \/ entry[e].busy
  /\ UNCHANGED poolVars

(* The delay is over and the timer thread calls expire().                  *)
Fire(t) ==
  /\ timers[t].state = "armed" /\ timers[t].left = 0
  /\ timers' = [timers EXCEPT ![t].state = "due"]
  /\ UNCHANGED <<entry, entries, active, closed>>

(* Mutant: a late timer of an earlier use expires the entry.               *)
OutdatedByUse(t) ==
  LET e == timers[t].entry
  IN  ~entry[e].valid \/ entry[e].busy

(* expire() gives up on an entry removed, leased or used since it was      *)
(* scheduled.                                                              *)
Outdated(t) ==
  LET e == timers[t].entry
  IN  ~entry[e].valid \/ entry[e].busy \/ entry[e].generation # timers[t].generation

Expire(t) ==
  LET e == timers[t].entry
  IN  /\ timers[t].state = "due"
      /\ \/ /\ Outdated(t)
            /\ timers' = [timers EXCEPT ![t] = FreeTimer]
            /\ UNCHANGED <<entry, entries, active>>
         \/ /\ ~Outdated(t)
            /\ entry' = EntryWithout({e})
            /\ entries' = EntriesWithout({e})
            /\ active' = active \ {e}
            /\ timers' = [Cancelled({e}) EXCEPT ![t] =
                            [timers[t] EXCEPT !.state = "disposing"]]
      /\ UNCHANGED closed

(* dispose(entry), after the lock is released.                             *)
Dispose(t) ==
  /\ timers[t].state = "disposing"
  /\ timers' = [timers EXCEPT ![t] = FreeTimer]
  /\ UNCHANGED <<entry, entries, active, closed>>

(* clear(session_id), for close_session; clear(close=True), for close.     *)
OfSession(s) == {e \in active : entry[e].sid = s}

ClearSession(s) == RemoveEntries(OfSession(s)) /\ UNCHANGED closed

ClearAll == RemoveEntries(active) /\ closed' = TRUE

(* One unit of time.  A busy entry has no idle time: release restarts it.  *)
Older(r) ==
  [r EXCEPT !.age = IF @ < MaxAge THEN @ + 1 ELSE @,
            !.idle = IF @ < IdleTimeout /\ ~r.busy THEN @ + 1 ELSE @]

Tick ==
  /\ entry' = [e \in Entry |-> IF e \in active THEN Older(entry[e]) ELSE entry[e]]
  /\ timers' = [t \in Timer |-> IF timers[t].left > 0
                                  THEN [timers[t] EXCEPT !.left = @ - 1] ELSE timers[t]]
  /\ UNCHANGED <<entries, active, closed>>
=============================================================================
