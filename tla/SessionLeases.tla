--------------------------- MODULE SessionLeases ---------------------------
(***************************************************************************)
(* The pool with the threads that use it, as far as the pool can tell:     *)
(* callers that lease an entry, give it a socket, return it and schedule   *)
(* its expiry, in four separate critical sections; the threads of the      *)
(* expiry timers; and a thread that clears sessions or closes the client.  *)
(* What a caller does with the connection in between is left open, so this *)
(* is the contract every transport built on the pool has to keep.          *)
(***************************************************************************)
EXTENDS SessionPool

CONSTANT Caller

VARIABLES
  pc,      \* where each caller is between two calls of the pool
  lease,   \* the entry the caller holds, or gave back last
  manual   \* the caller's body has a previous_response_id of its own

vars == <<poolVars, pc, lease, manual>>

Holding(c) == pc[c] \in {"leased", "open"}

(* Python reuses an object only when no thread refers to it any more.      *)
Fresh(e) == Unreferenced(e) /\ \A c \in Caller : lease[c] # e

Init ==
  /\ PoolInit
  /\ pc = [c \in Caller |-> "idle"]
  /\ lease = [c \in Caller |-> None]
  /\ manual = [c \in Caller |-> FALSE]

Goto(c, place) == pc' = [pc EXCEPT ![c] = place]

Leased(c, e, m) ==
  /\ Goto(c, "leased")
  /\ lease' = [lease EXCEPT ![c] = e]
  /\ manual' = [manual EXCEPT ![c] = m]

(* A caller whose lease was dropped may ask for another one: the recovery. *)
Asking(c) == pc[c] \in {"idle", "dropped"}

ReserveCached(c) ==
  /\ Asking(c)
  /\ \E s \in Session, x \in Endpoint, e \in Entry :
       Reuse(s, x, FALSE, e) /\ Leased(c, e, FALSE)

ReserveNew(c) ==
  /\ Asking(c)
  /\ \E s \in Session \cup {None}, x \in Endpoint, m \in BOOLEAN, e \in Entry :
       /\ Fresh(e)
       /\ \E v \in SUBSET Entry : Create(s, x, m, e, v)
       /\ Leased(c, e, m)

AttachSocket(c) ==
  /\ pc[c] = "leased"
  /\ ~entry[lease[c]].attached
  /\ Attach(lease[c])
  /\ UNCHANGED <<pc, lease, manual>>

(* plan_request on an entry that has a socket, with or without dropping    *)
(* the baseline.                                                           *)
Plan(c) ==
  /\ pc[c] = "leased"
  /\ entry[lease[c]].attached
  /\ Goto(c, "open")
  /\ DropBaseline(lease[c]) \/ UNCHANGED poolVars
  /\ UNCHANGED <<lease, manual>>

(* A completed response can only come over an open connection.             *)
Keep(c) ==
  /\ pc[c] = "open"
  /\ \E b \in Baseline : ReleaseKeep(lease[c], manual[c], b)
  /\ Goto(c, "scheduling")
  /\ UNCHANGED <<lease, manual>>

(* A failed caller may release twice: once where it failed, once in close. *)
Drop(c) ==
  /\ Holding(c) \/ pc[c] = "dropped"
  /\ \E completed \in {FALSE, pc[c] = "open"} :
       ReleaseDrop(lease[c], completed, manual[c])
  /\ Goto(c, "dropped")
  /\ UNCHANGED <<lease, manual>>

(* Mutant: the caller still refers to the entry.                           *)
ForgetKeepsLease(c) == Goto(c, "idle") /\ UNCHANGED <<lease, manual>>

Forget(c) ==
  /\ Goto(c, "idle")
  /\ lease' = [lease EXCEPT ![c] = None]
  /\ manual' = [manual EXCEPT ![c] = FALSE]

ScheduleExpiry(c) ==
  /\ pc[c] = "scheduling"
  /\ (\E t \in Timer : Schedule(lease[c], t)) \/ ScheduleNothing(lease[c])
  /\ Forget(c)

Finish(c) ==
  /\ pc[c] = "dropped"
  /\ Forget(c)
  /\ UNCHANGED poolVars

TimerStep(t) ==
  /\ Fire(t) \/ Expire(t) \/ Dispose(t)
  /\ UNCHANGED <<pc, lease, manual>>

CloseSession ==
  /\ \E s \in Session : ClearSession(s)
  /\ UNCHANGED <<pc, lease, manual>>

Close ==
  /\ ClearAll
  /\ UNCHANGED <<pc, lease, manual>>

Pass ==
  /\ Tick
  /\ UNCHANGED <<pc, lease, manual>>

Next ==
  \/ \E c \in Caller :
       \/ ReserveCached(c) \/ ReserveNew(c) \/ AttachSocket(c) \/ Plan(c)
       \/ Keep(c) \/ Drop(c) \/ ScheduleExpiry(c) \/ Finish(c)
  \/ \E t \in Timer : TimerStep(t)
  \/ CloseSession \/ Close \/ Pass

Spec == Init /\ [][Next]_vars

(***************************************************************************)
(* The fairness of the scheduler: time passes, a timer thread that can     *)
(* take a step takes it, and a caller between release and schedule goes on *)
(* (the two calls follow each other in close()).  Nothing says that a      *)
(* caller ever ends its stream.                                            *)
(***************************************************************************)
Fairness ==
  /\ WF_vars(Pass)
  /\ \A t \in Timer : WF_vars(TimerStep(t))
  /\ \A c \in Caller : WF_vars(ScheduleExpiry(c))

FairSpec == Spec /\ Fairness

-----------------------------------------------------------------------------
TypeOK ==
  /\ PoolTypeOK
  /\ pc \in [Caller -> {"idle", "leased", "open", "scheduling", "dropped"}]
  /\ lease \in [Caller -> Entry \cup {None}]
  /\ \A c \in Caller : lease[c] = None <=> pc[c] = "idle"
  /\ manual \in [Caller -> BOOLEAN]

(* A connection carries one response at a time: no two callers hold the    *)
(* same entry, however leases, clears and expiries interleave.             *)
LeaseExclusive ==
  \A c, d \in Caller : c # d /\ Holding(c) /\ Holding(d) => lease[c] # lease[d]

(* An entry of the pool is busy exactly while a caller holds it, so a      *)
(* busy entry is never orphaned and an idle one never in use.              *)
BusyMeansHeld ==
  \A e \in active : entry[e].busy <=> \E c \in Caller : Holding(c) /\ lease[c] = e

(* The two indexes of the pool and the valid flag agree: a cached entry is *)
(* active and cached under its own session id, and exactly the active      *)
(* entries are valid.                                                      *)
IndexesAgree ==
  /\ \A e \in Entry : entry[e].valid <=> e \in active
  /\ \A s \in Session : entries[s] # None =>
       entries[s] \in active /\ entry[entries[s]].sid = s

(* An idle entry is one a later caller may lease as it is: it is cached,   *)
(* has a socket and carries the baseline of a completed response.          *)
IdleIsReusable ==
  \A e \in active : ~entry[e].busy =>
    /\ entry[e].sid \in Session /\ entries[entry[e].sid] = e
    /\ entry[e].attached
    /\ entry[e].base # None

(* No idle connection is forgotten: its current generation has a timer, or *)
(* the caller that returned it is about to schedule one.                   *)
IdleIsTimed ==
  \A e \in active : ~entry[e].busy =>
    \/ \E c \in Caller : pc[c] = "scheduling" /\ lease[c] = e
    \/ \E t \in Timer : /\ timers[t].state \in {"armed", "due"}
                        /\ timers[t].entry = e
                        /\ timers[t].generation = entry[e].generation

(* A change of endpoint leaves no connection to another endpoint behind.   *)
OneEndpoint == \A e, f \in active : entry[e].endpoint = entry[f].endpoint

(* The cache never holds more sessions than session_cache_max_size.        *)
Capacity == Cardinality({s \in Session : entries[s] # None}) <= MaxSize

(* After close() the pool is empty and stays empty.                        *)
ClosedIsEmpty == closed => active = {} /\ \A s \in Session : entries[s] = None

(* A removed entry keeps no body or output, and a late release does not    *)
(* put them back.                                                          *)
RemovedHoldsNoHistory == \A e \in Entry \ active : entry[e].base = None

(***************************************************************************)
(* What makes the invariants above inductive: an open lease has a socket;  *)
(* entry.timer names the timer of the current generation, so cancelling it *)
(* cancels no other entry's; every other timer of an entry is of an older  *)
(* generation, and stays so while the entry is in use; and a timer of the  *)
(* current generation has at least as long to wait as the entry has left.  *)
(***************************************************************************)
OpenIsAttached == \A c \in Caller : pc[c] = "open" => entry[lease[c]].attached

Running(t) == timers[t].state \in {"armed", "due"}

TimerIsCurrent ==
  \A e \in Entry : entry[e].timer # None =>
    LET t == entry[e].timer
    IN  /\ e \in active /\ ~entry[e].busy
        /\ Running(t) /\ timers[t].entry = e
        /\ timers[t].generation = entry[e].generation

TimersAreOlder ==
  \A t \in Timer : Running(t) =>
    LET e == timers[t].entry
    IN  /\ e \in Entry
        /\ e \in active => timers[t].generation <= entry[e].generation
        /\ e \in active /\ entry[e].busy => timers[t].generation < entry[e].generation

TimersWaitLongEnough ==
  \A t \in Timer :
    /\ timers[t].state = "due" => timers[t].left = 0
    /\ Running(t) =>
         LET e == timers[t].entry
         IN  e \in active /\ timers[t].generation = entry[e].generation =>
               entry[e].idle + timers[t].left >= IdleTimeout

IInv ==
  /\ TypeOK /\ IndexesAgree /\ OpenIsAttached
  /\ LeaseExclusive /\ BusyMeansHeld /\ IdleIsReusable
  /\ TimerIsCurrent /\ TimersAreOlder /\ IdleIsTimed /\ TimersWaitLongEnough
  /\ OneEndpoint /\ ClosedIsEmpty /\ RemovedHoldsNoHistory /\ Capacity

(* A caller that was told its lease is gone refers to an entry that has    *)
(* left the pool, so its second release removes nothing.                   *)
DroppedIsGone == \A c \in Caller : pc[c] = "dropped" => lease[c] \notin active

(* A timer never takes a connection away that was used less than the idle  *)
(* timeout ago, whatever timer of an earlier use fires late.               *)
NeverExpiredEarly ==
  [][\A t \in Timer : timers[t].state = "due" /\ timers'[t].state = "disposing" =>
       LET e == timers[t].entry
       IN  e \in active /\ ~entry[e].busy /\ entry[e].idle = IdleTimeout]_vars

(* A caller loses a busy entry only to its own release, to a clear of the  *)
(* whole session or client, or to a change of endpoint: never to the       *)
(* capacity of the cache or to a timer.                                    *)
BusyNeverEvicted ==
  [][\A e \in active \ active' : entry[e].busy =>
       \/ \E c \in Caller : Holding(c) /\ lease[c] = e /\ pc'[c] = "dropped"
       \/ \A f \in active' : f \in active /\ entry[f].sid # entry[e].sid
       \/ \A f \in active' : entry'[f].endpoint # entry[e].endpoint]_vars

(* A one-shot or manual lease leaves no connection behind, even if the     *)
(* session was free when its response completed: what stays in the pool    *)
(* was cached, for a body the SDK may continue.                            *)
OneShotIsDropped ==
  [][\A c \in Caller : Holding(c) /\ ~Holding(c)' =>
       LET e == lease[c]
       IN  e \in active' => ~manual[c] /\ \E s \in Session : entries[s] = e]_vars

(* Every idle connection is leased again or removed in the end.            *)
IdleEnds == \A e \in Entry : (e \in active /\ ~entry[e].busy) ~> (e \notin active \/ entry[e].busy)

(* docs/responses.md: close() clears all the expiry tasks.                 *)
CloseClearsTimers == closed => \A t \in Timer : timers[t].state # "armed"
=============================================================================
