------------------------ MODULE AsyncWebSocketSource ------------------------
(***************************************************************************)
(* Streams of the asynchronous client over the shared pool                 *)
(* (AsyncWebSocketSource of _websocket.py, driven by AsyncResponseStream   *)
(* of _async_stream.py), as tasks of one event loop.  A task runs from one *)
(* await to the next: while it is at a place of RunPoint it has not yet    *)
(* suspended and nobody else runs.  Wherever it is suspended it may be     *)
(* cancelled, and CancelledError passes every "except Exception".          *)
(*                                                                         *)
(* Closing a socket sends the closing frame before it first suspends, so a *)
(* close that was begun counts as done; what can be lost is a close that   *)
(* was never begun.                                                        *)
(***************************************************************************)
EXTENDS SessionPool

CONSTANTS
  Caller,     \* tasks that stream responses
  Closer,     \* tasks that call aclose_session() or aclose()
  Request,    \* the calls they make: session, endpoint, manual
  Transport   \* "websocket" or "auto"

(* A frame is the response it continues from, or the whole input.         *)
FullFrame == 0

ASSUME TaskAssumption ==
  /\ \A r \in Request : /\ r.session \in Session \cup {None}
                        /\ r.endpoint \in Endpoint /\ r.manual \in BOOLEAN
  /\ Baseline \subseteq Nat \ {FullFrame}
  /\ None \notin Request /\ None # FullFrame

VARIABLES
  task,    \* the locals of each streaming task: see NoTask
  conn,    \* per entry, the responses completed on its open socket
  closer,  \* the entries a closing task has still to close
  submits  \* history: how often each stream submitted its request

vars == <<poolVars, task, conn, closer, submits>>

(* "io" is the child task of wait_for_io; "delivered" is history, and says *)
(* that the consumer was given output of the request.                      *)
NoTask ==
  [pc |-> "idle", lease |-> None, request |-> None, garbage |-> {}, frame |-> None,
   recovered |-> FALSE, seen |-> FALSE, failure |-> None, io |-> FALSE, delivered |-> FALSE]

NoCloser == [pc |-> "idle", todo |-> {}, all |-> FALSE]

Init ==
  /\ PoolInit
  /\ task = [c \in Caller |-> NoTask]
  /\ conn = [e \in Entry |-> None]
  /\ closer = [k \in Closer |-> NoCloser]
  /\ submits = [c \in Caller |-> 0]

At(c, place) == task[c].pc = place
Lease(c) == task[c].lease
IsManual(c) == task[c].request.manual

(***************************************************************************)
(* The event loop.  A timer that is due runs its callback before anything  *)
(* else does: TimerHandle.cancel() works until the callback runs, so for   *)
(* the pool "due" lasts no time.                                           *)
(***************************************************************************)
RunPoint ==
  {"sweeping", "planning", "failing", "refused", "checking",
   "completed", "scheduling", "finishing", "refinishing"}

(* The places of a task without a lease, with one, and after it gave one   *)
(* back; between release and schedule it is at "scheduling".               *)
Unleased == {"idle", "reserving"}
Acquiring == {"sweeping", "swept", "connecting", "rejecting", "planning", "failing"}
Opened ==
  {"ready", "checking", "sending", "receiving", "draining", "yielded", "completed", "finishing"}
Parted == {"failed", "refused", "refinishing", "recovering", "closing", "sse"}

Running(c) == task[c].pc \in RunPoint

LoopFree ==
  /\ \A c \in Caller : ~Running(c)
  /\ \A t \in Timer : timers[t].state # "due"
  /\ \A k \in Closer : closer[k].pc \notin {"clearing", "cancelling"}

(* The task that runs goes on; a suspended one resumes when none runs.     *)
Scheduled(c) == Running(c) \/ LoopFree

Become(c, r) == task' = [task EXCEPT ![c] = r]
Goto(c, place) == Become(c, [task[c] EXCEPT !.pc = place])
Fail(c, error, place) == Become(c, [task[c] EXCEPT !.pc = place, !.failure = error])
StopIo(c, place) == Become(c, [task[c] EXCEPT !.pc = place, !.io = FALSE])

(* aclose_socket does nothing, and does not suspend, without a socket.     *)
WithSocket(es) == {e \in es : entry[e].attached}
Closed(es) == [e \in Entry |-> IF e \in WithSocket(es) THEN None ELSE conn[e]]

Forget(c, r) == Become(c, r) /\ submits' = [submits EXCEPT ![c] = 0]

End(c) == Forget(c, NoTask)

(* All that is still read of a task that only has a socket to close.       *)
Finish(c) ==
  Forget(c, [NoTask EXCEPT !.pc = "closing", !.lease = Lease(c), !.request = task[c].request])

-----------------------------------------------------------------------------
(* _acquire *)

Start(c) ==
  /\ At(c, "idle")
  /\ \E r \in Request : Become(c, [NoTask EXCEPT !.pc = "reserving", !.request = r])
  /\ UNCHANGED <<poolVars, conn, closer, submits>>

(* First from __aenter__, and again when the socket of a rejected          *)
(* continuation is closed.                                                 *)
Reserving(c) == task[c].pc \in {"reserving", "recovering"} /\ LoopFree

Unused(e) ==
  /\ Unreferenced(e) /\ conn[e] = None
  /\ \A k \in Closer : e \notin closer[k].todo
  /\ \A c \in Caller : Lease(c) # e /\ e \notin task[c].garbage

Reserved(c, e, garbage) ==
  Become(c, [task[c] EXCEPT !.pc = "sweeping", !.lease = e, !.garbage = WithSocket(garbage)])

Reserve(c) ==
  LET r == task[c].request
  IN  /\ Reserving(c)
      /\ \E e \in Entry :
           \/ /\ Reuse(r.session, r.endpoint, r.manual, e)
              /\ Reserved(c, e, Stale(r.endpoint))
           \/ /\ Unused(e)
              /\ \E v \in SUBSET Entry :
                   /\ Create(r.session, r.endpoint, r.manual, e, v)
                   /\ Reserved(c, e, Stale(r.endpoint) \cup v)
      /\ UNCHANGED <<conn, closer, submits>>

(* reserve raises: the client is closed.  In a recovery, the stream then   *)
(* closes its source, which still names the entry released before.         *)
ReserveRefused(c) ==
  /\ Reserving(c) /\ closed
  /\ IF task[c].recovered
       THEN Fail(c, "StreamError", "refinishing") /\ UNCHANGED submits
       ELSE End(c)
  /\ UNCHANGED <<poolVars, conn, closer>>

(* The garbage of a reserve is closed one socket after the other, each     *)
(* behind an await; then the task connects or plans.                       *)
Sweep(c) ==
  /\ task[c].pc \in {"sweeping", "swept"} /\ Scheduled(c)
  /\ \/ \E e \in task[c].garbage :
          /\ conn' = Closed({e})
          /\ Become(c, [task[c] EXCEPT !.pc = "swept", !.garbage = @ \ {e}])
     \/ /\ task[c].garbage = {}
        /\ Goto(c, IF entry[Lease(c)].attached THEN "planning" ELSE "connecting")
        /\ UNCHANGED conn
  /\ UNCHANGED <<poolVars, closer, submits>>

(* The connector's socket is attached without another await.  If the entry *)
(* was removed meanwhile, it is closed again.                              *)
Connect(c) ==
  /\ At(c, "connecting") /\ LoopFree
  /\ \/ /\ Attach(Lease(c))
        /\ conn' = [conn EXCEPT ![Lease(c)] = 0]
        /\ Goto(c, "planning")
     \/ /\ ~entry[Lease(c)].valid
        /\ Fail(c, "StreamError", "rejecting")
        /\ UNCHANGED <<poolVars, conn>>
     \/ /\ \E error \in {"ConnectFailure", "APIStatusError"} : Fail(c, error, "failing")
        /\ UNCHANGED <<poolVars, conn>>
  /\ UNCHANGED <<closer, submits>>

Rejected(c) ==
  /\ At(c, "rejecting") /\ LoopFree
  /\ Goto(c, "failing")
  /\ UNCHANGED <<poolVars, conn, closer, submits>>

Planned(c, frame) ==
  Become(c, [task[c] EXCEPT !.frame = frame,
                            !.pc = IF task[c].recovered THEN "checking" ELSE "ready"])

(* Mutant: a recovery sends the request planned for the old connection.    *)
PlanOnce(c) ==
  /\ At(c, "planning")
  /\ Planned(c, CASE task[c].recovered -> task[c].frame
                  [] IsManual(c) \/ entry[Lease(c)].base = None -> FullFrame
                  [] OTHER -> entry[Lease(c)].base)
  /\ UNCHANGED <<poolVars, conn, closer, submits>>

(* plan_request runs without an await: it continues from the baseline, or  *)
(* drops a baseline the body does not extend.                              *)
Plan(c) ==
  LET base == entry[Lease(c)].base
  IN  /\ At(c, "planning")
      /\ \/ /\ ~IsManual(c) /\ base # None
            /\ Planned(c, base) /\ UNCHANGED poolVars
         \/ /\ ~IsManual(c) /\ base # None
            /\ Planned(c, FullFrame) /\ DropBaseline(Lease(c))
         \/ /\ IsManual(c) \/ base = None
            /\ Planned(c, FullFrame) /\ UNCHANGED poolVars
      /\ UNCHANGED <<conn, closer, submits>>

(* Mutant: the failed acquisition closes the socket and keeps the lease.   *)
AcquireFailedKeeps(c) ==
  /\ At(c, "failing")
  /\ conn' = Closed({Lease(c)})
  /\ Goto(c, IF entry[Lease(c)].attached THEN "failed" ELSE "refused")
  /\ UNCHANGED <<poolVars, closer, submits>>

(* except BaseException: release the entry and close its socket.           *)
AcquireFailed(c) ==
  /\ At(c, "failing")
  /\ ReleaseDrop(Lease(c), FALSE, IsManual(c))
  /\ conn' = Closed({Lease(c)})
  /\ Goto(c, IF entry[Lease(c)].attached THEN "failed" ELSE "refused")
  /\ UNCHANGED <<closer, submits>>

(* The exception leaves _acquire: into the fallback of open(), out of      *)
(* __aenter__, or, in a recovery, through events() into aclose().          *)
Raise(c) ==
  /\ task[c].pc \in {"failed", "refused"} /\ Scheduled(c)
  /\ IF task[c].recovered THEN Goto(c, "refinishing") /\ UNCHANGED submits
     ELSE IF task[c].failure = "ConnectFailure" /\ Transport = "auto" /\ ~closed
       THEN Goto(c, "sse") /\ UNCHANGED submits
       ELSE End(c)
  /\ UNCHANGED <<poolVars, conn, closer>>

-----------------------------------------------------------------------------
(* events() *)

(* The valid check, and wait_for_io(send): the child starts to send.       *)
CheckValid(c) ==
  /\ task[c].pc \in {"ready", "checking"} /\ Scheduled(c)
  /\ IF entry[Lease(c)].valid
       THEN /\ Become(c, [task[c] EXCEPT !.pc = "sending", !.io = TRUE, !.seen = FALSE])
            /\ submits' = [submits EXCEPT ![c] = @ + 1]
       ELSE Goto(c, "finishing") /\ UNCHANGED submits
  /\ UNCHANGED <<poolVars, conn, closer>>

(* The consumer leaves the stream between two of its awaits.               *)
Leave(c) ==
  /\ task[c].pc \in {"ready", "yielded"} /\ LoopFree
  /\ Goto(c, "finishing")
  /\ UNCHANGED <<poolVars, conn, closer, submits>>

Sent(c) ==
  /\ At(c, "sending") /\ LoopFree
  /\ conn[Lease(c)] # None
  /\ Goto(c, "receiving")
  /\ UNCHANGED <<poolVars, conn, closer, submits>>

(* send or recv raises: closed meanwhile, broken, or not the JSON of an    *)
(* event; or the stream of events ends in an error.                        *)
Interrupted(c) ==
  /\ task[c].pc \in {"sending", "receiving"} /\ LoopFree
  /\ StopIo(c, "finishing")
  /\ UNCHANGED <<poolVars, conn, closer, submits>>

(* Mutant: the child is left running when its time is over.                *)
TimeoutUndrained(c) ==
  /\ task[c].pc \in {"sending", "receiving"} /\ LoopFree
  /\ Goto(c, "finishing")
  /\ UNCHANGED <<poolVars, conn, closer, submits>>

(* wait_for_io gives up on a child that does not finish in time: it        *)
(* cancels the child and waits for it to end.                              *)
Timeout(c) ==
  /\ task[c].pc \in {"sending", "receiving"} /\ LoopFree
  /\ Goto(c, "draining")
  /\ UNCHANGED <<poolVars, conn, closer, submits>>

Drained(c) ==
  /\ At(c, "draining") /\ LoopFree
  /\ StopIo(c, "finishing")
  /\ UNCHANGED <<poolVars, conn, closer, submits>>

(* An event other than the last one, with output or without, is yielded to *)
(* the consumer, who asks for the next one.                                *)
Receive(c) ==
  /\ At(c, "receiving") /\ LoopFree
  /\ conn[Lease(c)] # None
  /\ IF entry[Lease(c)].valid
       THEN \E output \in BOOLEAN :
              Become(c, [task[c] EXCEPT !.pc = "yielded", !.io = FALSE,
                                        !.seen = @ \/ output, !.delivered = @ \/ output])
       ELSE StopIo(c, "finishing")
  /\ UNCHANGED <<poolVars, conn, closer, submits>>

Continue(c) ==
  /\ At(c, "yielded") /\ LoopFree
  /\ Become(c, [task[c] EXCEPT !.pc = "receiving", !.io = TRUE])
  /\ UNCHANGED <<poolVars, conn, closer, submits>>

(* Bounds: the responses the server completes on one connection, and the   *)
(* expiry timers at one time.                                              *)
CanComplete(c) ==
  /\ conn[Lease(c)] + 1 \in Baseline
  /\ \E t \in Timer : timers[t].state = "free"

(* The terminal event: AsyncResponseStream closes its source with it.      *)
ReceiveCompleted(c) ==
  /\ At(c, "receiving") /\ LoopFree
  /\ conn[Lease(c)] # None /\ CanComplete(c)
  /\ conn' = [conn EXCEPT ![Lease(c)] = @ + 1]
  /\ IF entry[Lease(c)].valid
       THEN StopIo(c, "completed")
       ELSE StopIo(c, "finishing")
  /\ UNCHANGED <<poolVars, closer, submits>>

(* Mutant: the recovery may follow output.                                 *)
RecoverableLate(c) ==
  ~task[c].recovered /\ task[c].frame # FullFrame /\ ~IsManual(c)

(* Mutant: the recovery may follow another recovery.                       *)
RecoverableAgain(c) ==
  ~task[c].seen /\ task[c].frame # FullFrame /\ ~IsManual(c)

Recoverable(c) ==
  /\ ~task[c].seen /\ ~task[c].recovered
  /\ task[c].frame # FullFrame /\ ~IsManual(c)

(* previous_response_not_found: the entry is released, its socket closed   *)
(* behind an await, and _acquire called again.                             *)
ReceiveMissing(c) ==
  /\ At(c, "receiving") /\ LoopFree
  /\ conn[Lease(c)] # None /\ (task[c].frame # FullFrame \/ IsManual(c))
  /\ IF entry[Lease(c)].valid /\ Recoverable(c)
       THEN /\ ReleaseDrop(Lease(c), FALSE, FALSE)
            /\ conn' = Closed({Lease(c)})
            /\ Become(c, [task[c] EXCEPT !.pc = "recovering", !.io = FALSE, !.recovered = TRUE])
       ELSE StopIo(c, "finishing") /\ UNCHANGED <<poolVars, conn>>
  /\ UNCHANGED <<closer, submits>>

-----------------------------------------------------------------------------
(* close(response) *)

CloseCompleted(c) ==
  /\ At(c, "completed")
  /\ \/ /\ ReleaseKeep(Lease(c), IsManual(c), conn[Lease(c)])
        /\ Goto(c, "scheduling")
        /\ UNCHANGED <<conn, submits>>
     \/ /\ ReleaseDrop(Lease(c), TRUE, IsManual(c))
        /\ conn' = Closed({Lease(c)})
        /\ Finish(c)
  /\ UNCHANGED closer

(* Mutant: an interrupted stream returns its entry without closing it.     *)
CloseFailedOpen(c) ==
  /\ task[c].pc \in {"finishing", "refinishing"}
  /\ ReleaseDrop(Lease(c), FALSE, IsManual(c))
  /\ Finish(c)
  /\ UNCHANGED <<conn, closer>>

CloseFailed(c) ==
  /\ task[c].pc \in {"finishing", "refinishing"}
  /\ ReleaseDrop(Lease(c), FALSE, IsManual(c))
  /\ conn' = Closed({Lease(c)})
  /\ Finish(c)
  /\ UNCHANGED closer

ScheduleExpiry(c) ==
  /\ At(c, "scheduling")
  /\ (\E t \in Timer : Schedule(Lease(c), t)) \/ ScheduleNothing(Lease(c))
  /\ End(c)
  /\ UNCHANGED <<conn, closer>>

(* The socket's close() has returned, or the SSE stream has ended.         *)
Ended(c) ==
  /\ task[c].pc \in {"closing", "sse"} /\ LoopFree
  /\ End(c)
  /\ UNCHANGED <<poolVars, conn, closer>>

-----------------------------------------------------------------------------
(* Cancellation of a streaming task, at each of its awaits.                *)

CancelAcquire(c) ==
  /\ task[c].pc \in {"swept", "connecting", "rejecting"} /\ LoopFree
  /\ Become(c, [task[c] EXCEPT !.pc = "failing", !.failure = "CancelledError", !.garbage = {}])
  /\ UNCHANGED <<poolVars, conn, closer, submits>>

CancelRaise(c) ==
  /\ task[c].pc \in {"failed", "closing", "sse"} /\ LoopFree
  /\ IF At(c, "failed") /\ task[c].recovered
       THEN Goto(c, "refinishing") /\ UNCHANGED submits
       ELSE End(c)
  /\ UNCHANGED <<poolVars, conn, closer>>

(* wait_for_io drains its child before the cancellation goes on.           *)
CancelStream(c) ==
  /\ LoopFree
  /\ \/ /\ task[c].pc \in {"ready", "yielded"}
        /\ Goto(c, "finishing")
     \/ /\ At(c, "recovering")
        /\ Goto(c, "refinishing")
     \/ /\ task[c].pc \in {"sending", "receiving"}
        /\ Goto(c, "draining")
  /\ UNCHANGED <<poolVars, conn, closer, submits>>

-----------------------------------------------------------------------------
(* The timers of the loop, and the cleanup task _dispose_later creates.    *)
TimerStep(t) ==
  /\ \/ LoopFree /\ Fire(t) /\ UNCHANGED conn
     \/ Expire(t) /\ UNCHANGED conn
     \/ LoopFree /\ Dispose(t) /\ conn' = Closed({timers[t].entry})
  /\ UNCHANGED <<task, closer, submits>>

(* aclose_session(id) and aclose() *)
Clear(k) ==
  /\ closer[k].pc = "idle" /\ LoopFree
  /\ \/ \E s \in Session :
          /\ ClearSession(s)
          /\ closer' = [closer EXCEPT ![k] = [pc |-> "clearing", todo |-> WithSocket(OfSession(s)), all |-> FALSE]]
     \/ /\ ClearAll
        /\ closer' = [closer EXCEPT ![k] = [pc |-> "clearing", todo |-> WithSocket(active), all |-> TRUE]]
  /\ UNCHANGED <<task, conn, submits>>

Cleaning == {t \in Timer : timers[t].state = "disposing"}

CloseNext(k) ==
  /\ closer[k].pc = "clearing" \/ (closer[k].pc = "closing" /\ LoopFree)
  /\ \/ \E e \in closer[k].todo :
          /\ conn' = Closed({e})
          /\ closer' = [closer EXCEPT ![k].pc = "closing", ![k].todo = @ \ {e}]
     \/ /\ closer[k].todo = {}
        /\ closer' = [closer EXCEPT ![k] = IF @.all /\ Cleaning # {}
                        THEN [@ EXCEPT !.pc = "gathering"] ELSE NoCloser]
        /\ UNCHANGED conn
  /\ UNCHANGED <<poolVars, task, submits>>

Gathered(k) ==
  /\ closer[k].pc = "gathering" /\ LoopFree /\ Cleaning = {}
  /\ closer' = [closer EXCEPT ![k] = NoCloser]
  /\ UNCHANGED <<poolVars, task, conn, submits>>

(* A cancelled aclose() leaves its loop; in gather(), it goes on to cancel *)
(* the cleanup tasks.                                                      *)
CancelClose(k) ==
  /\ closer[k].pc \in {"closing", "gathering"} /\ LoopFree
  /\ closer' = [closer EXCEPT ![k] = IF @.pc = "gathering"
                                       THEN [@ EXCEPT !.pc = "cancelling"] ELSE NoCloser]
  /\ UNCHANGED <<poolVars, task, conn, submits>>

(* gather() cancels one cleanup task after the other, without an await; a  *)
(* task that has not started never closes its socket.                      *)
CancelCleanup(k) ==
  /\ closer[k].pc = "cancelling"
  /\ \/ (\E t \in Timer : Dispose(t)) /\ UNCHANGED closer
     \/ /\ Cleaning = {}
        /\ closer' = [closer EXCEPT ![k] = NoCloser]
        /\ UNCHANGED poolVars
  /\ UNCHANGED <<task, conn, submits>>

Pass == LoopFree /\ Tick /\ UNCHANGED <<task, conn, closer, submits>>

CallerStep(c) ==
  \/ Reserve(c) \/ ReserveRefused(c) \/ Sweep(c) \/ Connect(c) \/ Rejected(c) \/ Plan(c)
  \/ AcquireFailed(c) \/ Raise(c)
  \/ CheckValid(c) \/ Leave(c) \/ Sent(c) \/ Interrupted(c) \/ Timeout(c) \/ Drained(c)
  \/ Receive(c) \/ ReceiveCompleted(c) \/ ReceiveMissing(c)
  \/ CloseCompleted(c) \/ CloseFailed(c) \/ ScheduleExpiry(c) \/ Ended(c)

CancelStep(c) == CancelAcquire(c) \/ CancelRaise(c) \/ CancelStream(c)

CloserStep(k) == CloseNext(k) \/ Gathered(k)

Next ==
  \/ \E c \in Caller : Start(c) \/ CallerStep(c) \/ Continue(c) \/ CancelStep(c)
  \/ \E t \in Timer : TimerStep(t)
  \/ \E k \in Closer : Clear(k) \/ CloserStep(k) \/ CancelClose(k) \/ CancelCleanup(k)
  \/ Pass

Spec == Init /\ [][Next]_vars

-----------------------------------------------------------------------------
TaskRecord ==
  [pc : Unleased \cup Acquiring \cup Opened \cup {"scheduling"} \cup Parted,
   lease : Entry \cup {None}, request : Request \cup {None}, garbage : SUBSET Entry,
   frame : Baseline \cup {FullFrame, None}, recovered : BOOLEAN, seen : BOOLEAN,
   failure : {None, "StreamError", "ConnectFailure", "APIStatusError", "CancelledError"},
   io : BOOLEAN, delivered : BOOLEAN]

CloserRecord ==
  [pc : {"idle", "clearing", "closing", "gathering", "cancelling"},
   todo : SUBSET Entry, all : BOOLEAN]

TypeOK ==
  /\ PoolTypeOK
  /\ task \in [Caller -> TaskRecord]
  /\ conn \in [Entry -> Baseline \cup {FullFrame, None}]
  /\ closer \in [Closer -> CloserRecord]
  /\ submits \in [Caller -> 0..2]

(* wait_for_io: no send or recv outlives the stream it was started for.    *)
(* The child of a task that times out, fails or is cancelled has ended     *)
(* before its entry is given back, so no connection has two readers.       *)
IoIsDrained ==
  \A c \in Caller : task[c].io =>
    /\ task[c].pc \in {"sending", "receiving", "draining"}
    /\ \A d \in Caller \ {c} : task[d].io => Lease(c) # Lease(d)

(* What a task sends as a continuation continues the last response of the  *)
(* very connection it is sent on.                                          *)
ContinuesItsConnection ==
  \A c \in Caller :
    task[c].pc \in {"sending", "receiving"} /\ task[c].frame # FullFrame =>
      conn[Lease(c)] \in {None, task[c].frame}

(* A request is submitted twice at most, and again only after a rejected   *)
(* continuation: at no submission has the consumer been given output of an *)
(* earlier one.  SSE never follows a submission, and never starts for a    *)
(* cancelled task.                                                         *)
NoResubmission ==
  \A c \in Caller :
    /\ submits[c] <= IF task[c].recovered THEN 2 ELSE 1
    /\ At(c, "sending") => ~task[c].delivered
    /\ At(c, "sse") => submits[c] = 0 /\ task[c].failure = "ConnectFailure"

Owned(e) ==
  \/ e \in active
  \/ \E c \in Caller : Lease(c) = e \/ e \in task[c].garbage
  \/ \E k \in Closer : e \in closer[k].todo
  \/ \E t \in Cleaning : timers[t].entry = e

Leaked == {e \in Entry : conn[e] # None /\ ~Owned(e)}

(* No socket is lost by an exception, a timeout, a clear or the end of a   *)
(* stream: the one way to lose the owner of an open socket is to cancel a  *)
(* task that is closing the sockets of others.                             *)
OnlyCancelledCleanupLeaks ==
  [][\/ Leaked' \subseteq Leaked
     \/ \E c \in Caller : At(c, "swept") /\ task'[c].pc = "failing"
     \/ \E k \in Closer : CancelClose(k) \/ CancelCleanup(k)]_vars

(* docs/responses.md: "close() / await aclose() clears all SDK-owned       *)
(* WebSockets": when aclose() returns, no socket is left open that nobody  *)
(* will close.                                                             *)
AcloseClosesSockets ==
  [][\A k \in Closer : CloserStep(k) /\ closer[k].all /\ closer'[k] = NoCloser
        => Leaked' = {}]_vars

(* To the pool, a task is a caller that keeps the contract of leases.      *)
LeasePlace(place) ==
  CASE place \in Unleased -> "idle"
    [] place \in Acquiring -> "leased"
    [] place \in Opened -> "open"
    [] place = "scheduling" -> "scheduling"
    [] place \in Parted -> "dropped"

LeasePc == [c \in Caller |-> LeasePlace(task[c].pc)]
LeaseEntry == [c \in Caller |-> Lease(c)]
LeaseManual == [c \in Caller |-> Lease(c) # None /\ IsManual(c)]

Leases == INSTANCE SessionLeases WITH pc <- LeasePc, lease <- LeaseEntry, manual <- LeaseManual

PoolContract == Leases!Spec

-----------------------------------------------------------------------------
(***************************************************************************)
(* What makes the invariants above inductive, next to the invariant of the *)
(* pool's contract.                                                        *)
(***************************************************************************)

(* The task that has not suspended runs alone: no other one does, no timer *)
(* callback waits, and no closing task is in a loop without an await.      *)
RunsAlone ==
  \A c \in Caller : Running(c) =>
    /\ \A d \in Caller \ {c} : ~Running(d)
    /\ \A t \in Timer : timers[t].state # "due"
    /\ \A k \in Closer : closer[k].pc \notin {"clearing", "cancelling"}

(* Who has asked, who holds something to give back, and who reads.         *)
TasksKnowTheirEntry ==
  \A c \in Caller :
    /\ task[c].request = None <=> At(c, "idle")
    /\ task[c].lease = None <=> task[c].pc \in Unleased
    /\ task[c].pc \in Unleased => ~task[c].recovered
    /\ At(c, "recovering") => task[c].recovered
    /\ task[c].garbage # {} => task[c].pc \in {"sweeping", "swept"}
    /\ task[c].io => task[c].pc \in {"sending", "receiving", "draining"}

(* Places before a request of this lease is sent.                          *)
Unsent == Unleased \cup Acquiring \cup {"failed", "refused", "recovering", "ready", "checking", "sse"}

SubmissionsAreCounted ==
  \A c \in Caller :
    /\ submits[c] <= (IF task[c].recovered THEN 1 ELSE 0)
                       + (IF task[c].pc \in Unsent THEN 0 ELSE 1)
    /\ task[c].pc \in Unsent \cup {"sending"} => ~task[c].delivered
    /\ task[c].pc \in {"receiving", "yielded"} /\ task[c].delivered => task[c].seen
    /\ At(c, "sse") => ~task[c].recovered /\ task[c].failure = "ConnectFailure"

ControlInv == TypeOK /\ RunsAlone /\ TasksKnowTheirEntry /\ SubmissionsAreCounted

(* What is being closed has left the pool for good.                        *)
GoneForGood ==
  /\ \A c \in Caller : task[c].garbage \cap active = {}
  /\ \A k \in Closer : closer[k].todo \cap active = {}
  /\ \A t \in Cleaning : timers[t].entry \notin active

(* A closing task is in its loop while it has something left to close.     *)
ClosersLoop ==
  \A k \in Closer : closer[k].todo # {} => closer[k].pc \in {"clearing", "closing"}

(* An open socket is the socket of its entry; one that a task gave back    *)
(* and did not schedule is closed.                                         *)
SocketsAreAttached ==
  /\ \A e \in Entry : conn[e] # None => entry[e].attached
  /\ \A c \in Caller :
       /\ At(c, "connecting") => ~entry[Lease(c)].attached
       /\ At(c, "planning") => entry[Lease(c)].attached
       /\ At(c, "scheduling") => Lease(c) \in active
       /\ task[c].pc \in Parted => conn[Lease(c)] = None

SocketInv == GoneForGood /\ ClosersLoop /\ SocketsAreAttached

Framed == {"ready", "checking", "sending", "receiving", "draining", "yielded"}

FramesFit ==
  \A c \in Caller : task[c].pc \in Framed =>
    /\ task[c].frame # None
    /\ task[c].frame # FullFrame => conn[Lease(c)] \in {None, task[c].frame}

CompletedIsLatest ==
  \A c \in Caller : At(c, "completed") /\ Lease(c) \in active => conn[Lease(c)] \in Baseline

BaselinesMatch ==
  \A e \in active : entry[e].base # None =>
    conn[e] = entry[e].base \/ \E c \in Caller : At(c, "completed") /\ Lease(c) = e

ConversationInv == FramesFit /\ CompletedIsLatest /\ BaselinesMatch

(* The inductive invariant of the proofs.                                  *)
TaskInv ==
  /\ ControlInv /\ SocketInv /\ ConversationInv
  /\ Leases!IInv /\ Leases!DroppedIsGone
=============================================================================
