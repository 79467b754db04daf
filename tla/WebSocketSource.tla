-------------------------- MODULE WebSocketSource --------------------------
(***************************************************************************)
(* Streams of the synchronous client over the shared pool                  *)
(* (WebSocketSource of _websocket.py, driven by ResponseStream of          *)
(* _stream.py).  Each caller is a thread with one stream at a time; the    *)
(* calls it makes to the pool, to its socket and the unlocked reads of     *)
(* plan_request are separate steps, so clears, expiries and other callers  *)
(* fall between any two of them.                                           *)
(*                                                                         *)
(* The server is external: a connection remembers its last completed       *)
(* response, may forget it, and answers a request it accepts with output   *)
(* and one terminal event, or breaks off at any point.                     *)
(***************************************************************************)
EXTENDS SessionPool, Sequences, SequencesExt

CONSTANTS
  Caller,     \* threads that stream responses
  Request,    \* the calls they make: session, endpoint, config, input, manual
  Output,     \* the outputs the server may produce, sequences of items
  Transport   \* "websocket" or "auto"

(* The items a conversation is made of.                                    *)
Item == UNION {Range(r.input) : r \in Request} \cup UNION {Range(o) : o \in Output}

ASSUME RequestAssumption ==
  /\ None \notin Request
  /\ \A r \in Request : /\ r.session \in Session \cup {None} /\ r.endpoint \in Endpoint
                        /\ r.input \in Seq(Item)
  /\ Output \subseteq Seq(Item)

(* What a request without an id of its own leaves behind when it completes *)
(* is a baseline: its configuration and input, an output of the server,    *)
(* and the id of one of the responses an entry's connection can complete.  *)
ASSUME BaselineAssumption ==
  /\ \A r \in Request, o \in Output, e \in Entry, n \in 1..(MaxGeneration + 1) :
       r.manual = None =>
         [config |-> r.config, input |-> r.input, output |-> o, id |-> <<e, n>>] \in Baseline
  /\ \A b \in Baseline : /\ b.config \in {r.config : r \in Request} /\ b.id # None
                         /\ b.input \in Seq(Item) /\ b.output \in Seq(Item)

VARIABLES
  pc,        \* where each caller is
  lease,     \* WebSocketSource.entry
  request,   \* the body, session and endpoint of the caller's stream
  garbage,   \* entries its reserve removed and it has still to close
  saved,     \* what plan_request has read of the entry so far
  frame,     \* WebSocketSource.request: what goes over the wire
  recovered, \* the local variable of events()
  seen,      \* seen_output of events()
  failure,   \* the exception that is on its way to the consumer
  conn,      \* per entry, the open connection: the server's memory of it
  closing,   \* entries close_session() and close() have still to close
  sent,      \* the conversation the server reads into the frame it was sent
  submits,   \* history: how often the request was submitted
  delivered  \* history: the consumer was given output

callerVars == <<pc, lease, request, garbage, saved, frame, recovered, seen, failure>>
history == <<sent, submits, delivered>>
vars == <<poolVars, callerVars, conn, closing, history>>

(* manual: the caller's own previous_response_id, or None.                 *)
IsManual(r) == r.manual # None

(* What the server remembers of a connection: its last completed response, *)
(* and of a new one nothing.                                               *)
ConnectionRecord ==
  [id : (Entry \X Nat) \cup {None}, config : {r.config : r \in Request} \cup {None},
   context : Seq(Item), count : Nat]

ASSUME ConnectionAssumption == None \notin ConnectionRecord

NewConnection == [id |-> None, config |-> None, context |-> <<>>, count |-> 0]

Init ==
  /\ PoolInit
  /\ pc = [c \in Caller |-> "idle"]
  /\ lease = [c \in Caller |-> None]
  /\ request = [c \in Caller |-> None]
  /\ garbage = [c \in Caller |-> {}]
  /\ saved = [c \in Caller |-> None]
  /\ frame = [c \in Caller |-> None]
  /\ recovered = [c \in Caller |-> FALSE]
  /\ seen = [c \in Caller |-> FALSE]
  /\ failure = [c \in Caller |-> None]
  /\ conn = [e \in Entry |-> None]
  /\ closing = {}
  /\ sent = [c \in Caller |-> None]
  /\ submits = [c \in Caller |-> 0]
  /\ delivered = [c \in Caller |-> FALSE]

Goto(c, place) == pc' = [pc EXCEPT ![c] = place]

Fail(c, error) == failure' = [failure EXCEPT ![c] = error]

(* close_socket: nothing to close for an entry that was never attached.    *)
Closed(es) == [e \in Entry |-> IF e \in es /\ entry[e].attached THEN None ELSE conn[e]]

Unused(e) ==
  /\ Unreferenced(e)
  /\ e \notin closing
  /\ conn[e] = None
  /\ \A c \in Caller : lease[c] # e /\ e \notin garbage[c]

-----------------------------------------------------------------------------
(* A new stream: __enter__ opens the source.                               *)
Start(c) ==
  /\ pc[c] = "idle"
  /\ \E r \in Request : request' = [request EXCEPT ![c] = r]
  /\ Goto(c, "reserving")
  /\ UNCHANGED <<poolVars, lease, garbage, saved, frame, recovered, seen, failure,
                 conn, closing, history>>

(* _acquire, first step: reserve, which may raise because the client is    *)
(* closed.  The entries it removed are the caller's to close.              *)
Reserve(c) ==
  LET r == request[c]
  IN  /\ pc[c] = "reserving"
      /\ \E e \in Entry :
           /\ \/ /\ Reuse(r.session, r.endpoint, IsManual(r), e)
                 /\ garbage' = [garbage EXCEPT ![c] = Stale(r.endpoint)]
              \/ /\ Unused(e)
                 /\ \E v \in SUBSET Entry :
                      /\ Create(r.session, r.endpoint, IsManual(r), e, v)
                      /\ garbage' = [garbage EXCEPT ![c] = Stale(r.endpoint) \cup v]
           /\ lease' = [lease EXCEPT ![c] = e]
      /\ Goto(c, "disposing")
      /\ UNCHANGED <<request, saved, frame, recovered, seen, failure, conn, closing, history>>

ReserveRefused(c) ==
  /\ pc[c] = "reserving"
  /\ closed
  /\ Fail(c, "StreamError")
  /\ Goto(c, IF recovered[c] THEN "reclosing" ELSE "raised")
  /\ UNCHANGED <<poolVars, lease, request, garbage, saved, frame, recovered, seen,
                 conn, closing, history>>

(* The garbage is closed one socket after the other.                       *)
DisposeGarbage(c) ==
  /\ pc[c] = "disposing"
  /\ \E e \in garbage[c] :
       /\ conn' = Closed({e})
       /\ garbage' = [garbage EXCEPT ![c] = @ \ {e}]
  /\ UNCHANGED <<poolVars, pc, lease, request, saved, frame, recovered, seen, failure,
                 closing, history>>

GarbageDisposed(c) ==
  /\ pc[c] = "disposing" /\ garbage[c] = {}
  /\ Goto(c, IF entry[lease[c]].attached THEN "planning" ELSE "connecting")
  /\ UNCHANGED <<poolVars, lease, request, garbage, saved, frame, recovered, seen,
                 failure, conn, closing, history>>

(* The connector opens a socket, fails before anything was sent, or is     *)
(* rejected by the server's handshake.                                     *)
Connect(c) ==
  /\ pc[c] = "connecting"
  /\ \/ /\ conn' = [conn EXCEPT ![lease[c]] = NewConnection]
        /\ Goto(c, "attaching")
        /\ UNCHANGED failure
     \/ /\ \E error \in {"ConnectFailure", "APIStatusError"} : Fail(c, error)
        /\ Goto(c, "releasing")
        /\ UNCHANGED conn
  /\ UNCHANGED <<poolVars, lease, request, garbage, saved, frame, recovered, seen,
                 closing, history>>

(* A session cleared while it was connecting: the new socket is closed.    *)
AttachSocket(c) ==
  /\ pc[c] = "attaching"
  /\ \/ /\ Attach(lease[c])
        /\ Goto(c, "planning")
        /\ UNCHANGED <<failure, conn>>
     \/ /\ ~entry[lease[c]].valid
        /\ conn' = [conn EXCEPT ![lease[c]] = None]
        /\ Fail(c, "StreamError")
        /\ Goto(c, "releasing")
        /\ UNCHANGED poolVars
  /\ UNCHANGED <<lease, request, garbage, saved, frame, recovered, seen, closing, history>>

-----------------------------------------------------------------------------
(* plan_request reads the entry without the lock: whether there is a       *)
(* baseline, then its body, then its output, then its response id.  A      *)
(* clear in between resets the three in the order body, id, output.        *)

FullFrame(r) == [prev |-> r.manual, input |-> r.input]

Framed(c, f) ==
  /\ frame' = [frame EXCEPT ![c] = f]
  /\ saved' = [saved EXCEPT ![c] = None]
  /\ Goto(c, "ready")

PlanGuard(c) ==
  LET r == request[c]
  IN  /\ pc[c] = "planning"
      /\ IF IsManual(r) \/ entry[lease[c]].base = None
           THEN Framed(c, FullFrame(r))
           ELSE Goto(c, "comparing") /\ UNCHANGED <<saved, frame>>
      /\ UNCHANGED <<poolVars, lease, request, garbage, recovered, seen, failure,
                     conn, closing, history>>

(* entry.body.items() of a body that was reset meanwhile raises.           *)
PlanBody(c) ==
  LET base == entry[lease[c]].base
  IN  /\ pc[c] = "comparing" /\ saved[c] = None
      /\ IF base = None
           THEN Fail(c, "AttributeError") /\ Goto(c, "releasing") /\ UNCHANGED saved
           ELSE /\ saved' = [saved EXCEPT ![c] =
                               [config |-> base.config, input |-> base.input, whole |-> FALSE]]
                /\ UNCHANGED <<pc, failure>>
      /\ UNCHANGED <<poolVars, lease, request, garbage, frame, recovered, seen,
                     conn, closing, history>>

(* Mutant: the baseline is the input without the output.                   *)
PlanWithoutOutput(c) ==
  /\ pc[c] = "comparing" /\ saved[c] # None /\ ~saved[c].whole
  /\ saved' = [saved EXCEPT ![c].whole = TRUE]
  /\ UNCHANGED <<poolVars, pc, lease, request, garbage, frame, recovered, seen,
                 failure, conn, closing, history>>

(* entry.output or []                                                      *)
PlanOutput(c) ==
  LET base == entry[lease[c]].base
      output == IF base = None THEN <<>> ELSE base.output
  IN  /\ pc[c] = "comparing" /\ saved[c] # None /\ ~saved[c].whole
      /\ saved' = [saved EXCEPT ![c] = [config |-> saved[c].config,
                                        input |-> saved[c].input \o output, whole |-> TRUE]]
      /\ UNCHANGED <<poolVars, pc, lease, request, garbage, frame, recovered, seen,
                     failure, conn, closing, history>>

Continues(r, baseline) ==
  r.config = baseline.config /\ IsPrefix(baseline.input, r.input)

(* The suffix after the baseline, continuing from the entry's response, or *)
(* the whole input after dropping the baseline.                            *)
PlanCompare(c) ==
  LET r == request[c]
      base == entry[lease[c]].base
  IN  /\ pc[c] = "comparing" /\ saved[c] # None /\ saved[c].whole
      /\ IF Continues(r, saved[c])
           THEN /\ Framed(c, [prev |-> IF base = None THEN None ELSE base.id,
                              input |-> SubSeq(r.input, Len(saved[c].input) + 1, Len(r.input))])
                /\ UNCHANGED poolVars
           ELSE Framed(c, FullFrame(r)) /\ DropBaseline(lease[c])
      /\ UNCHANGED <<lease, request, garbage, recovered, seen, failure, conn, closing, history>>

-----------------------------------------------------------------------------
(* _acquire failed: release the entry, close its socket, and raise; open() *)
(* falls back to SSE when nothing was sent and the transport is "auto".    *)
ReleaseFailed(c) ==
  /\ pc[c] = "releasing"
  /\ ReleaseDrop(lease[c], FALSE, IsManual(request[c]))
  /\ Goto(c, "cleaning")
  /\ UNCHANGED <<lease, request, garbage, saved, frame, recovered, seen, failure,
                 conn, closing, history>>

CleanUp(c) ==
  /\ pc[c] = "cleaning"
  /\ conn' = Closed({lease[c]})
  /\ IF recovered[c]
       THEN Fail(c, "StreamError") /\ Goto(c, "reclosing")
       ELSE IF failure[c] = "ConnectFailure" /\ Transport = "auto" /\ ~closed
              THEN Fail(c, None) /\ Goto(c, "sse")
              ELSE Goto(c, "raised") /\ UNCHANGED failure
  /\ UNCHANGED <<poolVars, lease, request, garbage, saved, frame, recovered, seen,
                 closing, history>>

-----------------------------------------------------------------------------
(* events(): the valid check before the request is sent.                   *)
CheckValid(c) ==
  /\ pc[c] = "ready"
  /\ IF entry[lease[c]].valid
       THEN Goto(c, "sending") /\ UNCHANGED failure
       ELSE Goto(c, "closing") /\ Fail(c, "StreamError")
  /\ seen' = [seen EXCEPT ![c] = FALSE]
  /\ UNCHANGED <<poolVars, lease, request, garbage, saved, frame, recovered,
                 conn, closing, history>>

(* The consumer leaves a stream it has opened and not iterated.            *)
Abandon(c) ==
  /\ pc[c] = "ready" /\ ~recovered[c]
  /\ Goto(c, "closing")
  /\ UNCHANGED <<poolVars, lease, request, garbage, saved, frame, recovered, seen, failure,
                 conn, closing, history>>

(* What the server makes of a frame on a connection.                       *)
Reading(f, k) ==
  IF f.prev = None THEN f.input
  ELSE IF f.prev = k.id THEN k.context \o f.input
  ELSE None

(* send: on an open connection the frame may or may not arrive; on one     *)
(* that was closed it raises.                                              *)
Send(c) ==
  LET k == conn[lease[c]]
  IN  /\ pc[c] = "sending"
      /\ submits' = [submits EXCEPT ![c] = @ + 1]
      /\ \/ /\ k # None
            /\ sent' = [sent EXCEPT ![c] = Reading(frame[c], k)]
            /\ Goto(c, "receiving")
            /\ UNCHANGED failure
         \/ /\ Fail(c, "StreamError")
            /\ Goto(c, "closing")
            /\ UNCHANGED sent
      /\ UNCHANGED <<poolVars, lease, request, garbage, saved, frame, recovered, seen,
                     conn, closing, delivered>>

Receiving(c) == pc[c] = "receiving" /\ conn[lease[c]] # None

(* An output event on a valid entry is yielded to the consumer.            *)
ReceiveOutput(c) ==
  /\ Receiving(c)
  /\ sent[c] # None
  /\ entry[lease[c]].valid
  /\ ~seen[c]
  /\ seen' = [seen EXCEPT ![c] = TRUE]
  /\ delivered' = [delivered EXCEPT ![c] = TRUE]
  /\ UNCHANGED <<poolVars, pc, lease, request, garbage, saved, frame, recovered,
                 failure, conn, closing, sent, submits>>

(* The terminal event of a completed response: the server remembers it,    *)
(* and ResponseStream closes the source with it.                           *)
ReceiveCompleted(c) ==
  LET e == lease[c]
      n == conn[e].count + 1
  IN  /\ Receiving(c)
      /\ sent[c] # None
      /\ \E output \in Output :
           conn' = [conn EXCEPT ![e] =
                      [id |-> <<e, n>>, config |-> request[c].config,
                       context |-> sent[c] \o output, count |-> n]]
      /\ IF entry[e].valid
           THEN Goto(c, "completed") /\ UNCHANGED failure
           ELSE Goto(c, "closing") /\ Fail(c, "StreamError")
      /\ UNCHANGED <<poolVars, lease, request, garbage, saved, frame, recovered, seen,
                     closing, history>>

(* Mutant: recv has no timeout on a connection that was closed.            *)
ReceiveWhileOpen(c) ==
  /\ Receiving(c)
  /\ Fail(c, "StreamError")
  /\ Goto(c, "closing")
  /\ UNCHANGED <<poolVars, lease, request, garbage, saved, frame, recovered, seen,
                 conn, closing, history>>

(* Any other end: a failed or incomplete response, an error event, a       *)
(* timeout, a closed socket, or the consumer leaving early.                *)
ReceiveOtherwise(c) ==
  /\ pc[c] = "receiving"
  /\ Fail(c, "StreamError")
  /\ Goto(c, "closing")
  /\ UNCHANGED <<poolVars, lease, request, garbage, saved, frame, recovered, seen,
                 conn, closing, history>>

(* Mutant: a recovery after output was yielded.                            *)
RecoverableLate(c) ==
  ~recovered[c] /\ frame[c].prev # None /\ ~IsManual(request[c])

(* previous_response_not_found: the server has forgotten the response the  *)
(* frame continues from.  Only a continuation the SDK planned itself, that *)
(* produced no output and was not recovered before, is tried again.        *)
Recoverable(c) ==
  /\ ~seen[c] /\ ~recovered[c]
  /\ frame[c].prev # None
  /\ ~IsManual(request[c])

ReceiveMissing(c) ==
  /\ Receiving(c)
  /\ frame[c].prev # None
  /\ IF entry[lease[c]].valid /\ Recoverable(c)
       THEN /\ recovered' = [recovered EXCEPT ![c] = TRUE]
            /\ Goto(c, "recovering")
            /\ UNCHANGED failure
       ELSE /\ Goto(c, "closing")
            /\ Fail(c, "StreamError")
            /\ UNCHANGED recovered
  /\ UNCHANGED <<poolVars, lease, request, garbage, saved, frame, seen,
                 conn, closing, history>>

(* The recovery releases the entry, closes its socket and acquires again.  *)
RecoverRelease(c) ==
  /\ pc[c] = "recovering"
  /\ ReleaseDrop(lease[c], FALSE, IsManual(request[c]))
  /\ Goto(c, "recovered")
  /\ UNCHANGED <<lease, request, garbage, saved, frame, recovered, seen, failure,
                 conn, closing, history>>

(* Mutant: the socket of the first attempt is left open.                   *)
RecoverLeaky(c) ==
  /\ pc[c] = "recovered"
  /\ Goto(c, "reserving")
  /\ UNCHANGED <<poolVars, lease, request, garbage, saved, frame, recovered, seen,
                 failure, conn, closing, history>>

RecoverClose(c) ==
  /\ pc[c] = "recovered"
  /\ conn' = Closed({lease[c]})
  /\ Goto(c, "reserving")
  /\ UNCHANGED <<poolVars, lease, request, garbage, saved, frame, recovered, seen,
                 failure, closing, history>>

-----------------------------------------------------------------------------
(* Mutant: the baseline is what went over the wire.                        *)
CommitFrame(c) ==
  LET e == lease[c]
      output == SubSeq(conn[e].context, Len(sent[c]) + 1, Len(conn[e].context))
  IN  [config |-> request[c].config, input |-> frame[c].input, output |-> output,
       id |-> conn[e].id]

(* Mutant: the id of the response is not stored.                           *)
CommitWithoutId(c) ==
  [config |-> request[c].config, input |-> request[c].input, output |-> <<>>, id |-> None]

(* close(response): a completed response is kept, with the body, output    *)
(* and id it leaves on the connection; anything else drops the entry.  A   *)
(* stream whose recovery failed releases its entry a second time.          *)
Commit(c) ==
  LET e == lease[c]
      r == request[c]
      output == SubSeq(conn[e].context, Len(sent[c]) + 1, Len(conn[e].context))
  IN  [config |-> r.config, input |-> r.input, output |-> output, id |-> conn[e].id]

CloseCompleted(c) ==
  /\ pc[c] = "completed"
  /\ \/ /\ ReleaseKeep(lease[c], IsManual(request[c]), Commit(c))
        /\ Goto(c, "scheduling")
     \/ /\ ReleaseDrop(lease[c], TRUE, IsManual(request[c]))
        /\ Goto(c, "dropped")
  /\ UNCHANGED <<lease, request, garbage, saved, frame, recovered, seen, failure,
                 conn, closing, history>>

(* Mutant: the socket is closed without giving the entry back.             *)
CloseUnreleased(c) ==
  /\ pc[c] \in {"closing", "reclosing"}
  /\ Goto(c, "dropped")
  /\ UNCHANGED <<poolVars, lease, request, garbage, saved, frame, recovered, seen, failure,
                 conn, closing, history>>

CloseFailed(c) ==
  /\ pc[c] \in {"closing", "reclosing"}
  /\ ReleaseDrop(lease[c], FALSE, IsManual(request[c]))
  /\ Goto(c, "dropped")
  /\ UNCHANGED <<lease, request, garbage, saved, frame, recovered, seen, failure,
                 conn, closing, history>>

(* The stream is over; the source object goes away.                        *)
End(c) ==
  /\ Goto(c, "idle")
  /\ lease' = [lease EXCEPT ![c] = None]
  /\ request' = [request EXCEPT ![c] = None]
  /\ frame' = [frame EXCEPT ![c] = None]
  /\ recovered' = [recovered EXCEPT ![c] = FALSE]
  /\ seen' = [seen EXCEPT ![c] = FALSE]
  /\ failure' = [failure EXCEPT ![c] = None]
  /\ sent' = [sent EXCEPT ![c] = None]
  /\ submits' = [submits EXCEPT ![c] = 0]
  /\ delivered' = [delivered EXCEPT ![c] = FALSE]
  /\ UNCHANGED <<garbage, saved, closing>>

(* Mutant: a dropped connection is not closed.                             *)
DroppedUnclosed(c) == pc[c] = "dropped" /\ End(c) /\ UNCHANGED <<poolVars, conn>>

CloseDropped(c) ==
  /\ pc[c] = "dropped"
  /\ conn' = Closed({lease[c]})
  /\ End(c)
  /\ UNCHANGED poolVars

ScheduleExpiry(c) ==
  /\ pc[c] = "scheduling"
  /\ (\E t \in Timer : Schedule(lease[c], t)) \/ ScheduleNothing(lease[c])
  /\ End(c)
  /\ UNCHANGED conn

(* open() raised, so there is nothing to close; or the SSE stream ended.   *)
Leave(c) ==
  /\ pc[c] \in {"raised", "sse"}
  /\ End(c)
  /\ UNCHANGED <<poolVars, conn>>

-----------------------------------------------------------------------------
(* The timer threads, and the threads in close_session() and close().      *)
TimerStep(t) ==
  /\ \/ (Fire(t) \/ Expire(t)) /\ UNCHANGED conn
     \/ Dispose(t) /\ conn' = Closed({timers[t].entry})
  /\ UNCHANGED <<callerVars, closing, history>>

CloseSession ==
  /\ \E s \in Session :
       ClearSession(s) /\ closing' = closing \cup OfSession(s)
  /\ UNCHANGED <<callerVars, conn, history>>

Close ==
  /\ ClearAll
  /\ closing' = closing \cup active
  /\ UNCHANGED <<callerVars, conn, history>>

CloseNext ==
  /\ \E e \in closing : conn' = Closed({e}) /\ closing' = closing \ {e}
  /\ UNCHANGED <<poolVars, callerVars, history>>

Pass == Tick /\ UNCHANGED <<callerVars, conn, closing, history>>

CallerStep(c) ==
  \/ Reserve(c) \/ ReserveRefused(c) \/ DisposeGarbage(c) \/ GarbageDisposed(c)
  \/ Connect(c) \/ AttachSocket(c)
  \/ PlanGuard(c) \/ PlanBody(c) \/ PlanOutput(c) \/ PlanCompare(c)
  \/ ReleaseFailed(c) \/ CleanUp(c)
  \/ CheckValid(c) \/ Abandon(c) \/ Send(c)
  \/ ReceiveOutput(c) \/ ReceiveCompleted(c) \/ ReceiveOtherwise(c) \/ ReceiveMissing(c)
  \/ RecoverRelease(c) \/ RecoverClose(c)
  \/ CloseCompleted(c) \/ CloseFailed(c) \/ CloseDropped(c) \/ ScheduleExpiry(c) \/ Leave(c)

Next ==
  \/ \E c \in Caller : Start(c) \/ CallerStep(c)
  \/ \E t \in Timer : TimerStep(t)
  \/ CloseSession \/ Close \/ CloseNext \/ Pass

Spec == Init /\ [][Next]_vars

(***************************************************************************)
(* Fairness: every thread that can go on does.  For a caller that means    *)
(* that it reads its stream to the end or leaves it, that the connector    *)
(* and recv return or time out, and that a response is finite.             *)
(***************************************************************************)
FairSpec ==
  /\ Spec
  /\ \A c \in Caller : WF_vars(CallerStep(c))
  /\ \A t \in Timer : WF_vars(TimerStep(t))
  /\ WF_vars(CloseNext)
  /\ WF_vars(Pass)

-----------------------------------------------------------------------------
(* Where a caller holds its entry: before the source is open, and after.   *)
Acquiring == {"disposing", "connecting", "attaching", "planning", "comparing", "releasing"}
Opened == {"ready", "sending", "receiving", "completed", "closing", "recovering"}

(* Where it has given the entry back, if it ever had one.                  *)
Parted == {"idle", "reserving", "recovered", "cleaning", "reclosing", "raised", "sse", "dropped"}

SavedRecord ==
  [config : {r.config : r \in Request}, input : Seq(Item), whole : BOOLEAN]

FrameRecord ==
  [prev : {r.manual : r \in Request} \cup {b.id : b \in Baseline} \cup {None},
   input : Seq(Item)]

CallerTypeOK ==
  /\ pc \in [Caller -> Acquiring \cup Opened \cup Parted \cup {"scheduling"}]
  /\ lease \in [Caller -> Entry \cup {None}]
  /\ request \in [Caller -> Request \cup {None}]
  /\ garbage \in [Caller -> SUBSET Entry]
  /\ saved \in [Caller -> SavedRecord \cup {None}]
  /\ frame \in [Caller -> FrameRecord \cup {None}]
  /\ recovered \in [Caller -> BOOLEAN]
  /\ seen \in [Caller -> BOOLEAN]
  /\ failure \in [Caller -> {None, "StreamError", "ConnectFailure", "APIStatusError",
                             "AttributeError"}]

TypeOK ==
  /\ PoolTypeOK
  /\ CallerTypeOK
  /\ conn \in [Entry -> ConnectionRecord \cup {None}]
  /\ closing \subseteq Entry
  /\ sent \in [Caller -> Seq(Item) \cup {None}]
  /\ submits \in [Caller -> 0..2]
  /\ delivered \in [Caller -> BOOLEAN]

(* Whatever was planned incrementally, the server reads the caller's whole *)
(* conversation, under the caller's configuration.                         *)
ServerReadsWholeInput ==
  \A c \in Caller : pc[c] = "receiving" /\ ~IsManual(request[c]) =>
    /\ sent[c] = request[c].input
    /\ frame[c].prev # None /\ conn[lease[c]] # None =>
         conn[lease[c]].config = request[c].config

(* A request is never submitted again, over WebSocket or SSE, once an      *)
(* earlier submission may have produced output: at most twice in all, and  *)
(* the second time only after a missing continuation without output.       *)
NoResubmission ==
  /\ \A c \in Caller : /\ submits[c] <= IF recovered[c] THEN 2 ELSE 1
                       /\ pc[c] = "sse" => submits[c] = 0
  /\ \A c \in Caller : submits[c] = 2 /\ pc[c] = "receiving" /\ ~seen[c] => ~delivered[c]

(* No stream, expiry or clear closes a connection the pool still offers.   *)
PooledSocketsAreOpen == \A e \in active : entry[e].attached => conn[e] # None

(* Every open socket belongs to the pool or to a thread that will close    *)
(* it: to the caller that leases or connects it, to the one that removed   *)
(* it, to an expiry, or to close().                                        *)
NoSocketLeak ==
  \A e \in Entry : conn[e] # None =>
    \/ e \in active \cup closing
    \/ \E c \in Caller : lease[c] = e \/ e \in garbage[c]
    \/ \E t \in Timer : timers[t].state = "disposing" /\ timers[t].entry = e

(* Nobody sends a request over a connection another stream is using.       *)
OneStreamPerSocket ==
  \A c, d \in Caller : c # d /\ {pc[c], pc[d]} \subseteq {"sending", "receiving", "completed"}
    => lease[c] # lease[d]

(* What a connection continues from is the last response the server        *)
(* completed on it, with the conversation that led to it.                  *)
BaselineMatchesServer ==
  \A e \in active : entry[e].base # None /\ ~entry[e].busy =>
    /\ conn[e].id = entry[e].base.id
    /\ conn[e].config = entry[e].base.config
    /\ conn[e].context = entry[e].base.input \o entry[e].base.output

(* Every stream ends, whatever is cleared under it.                        *)
StreamsEnd == \A c \in Caller : pc[c] # "idle" ~> pc[c] = "idle"

(* After close(), every WebSocket the SDK opened is closed.                *)
CloseClosesSockets == closed ~> [](conn = [e \in Entry |-> None])

(* docs/responses.md: the recovery uses a fresh WebSocket and the full     *)
(* context.                                                                *)
RecoveryIsFresh ==
  \A c \in Caller : recovered[c] /\ pc[c] = "sending" => frame[c].prev = None

(* docs/errors.md: every exception of the package derives from CodexError. *)
OnlyCodexErrors == \A c \in Caller : failure[c] # "AttributeError"

(* To the pool, a stream is a caller that keeps the contract of leases.    *)
LeasePlace(place, entryOrNone) ==
  CASE place \in Parted -> IF entryOrNone = None THEN "idle" ELSE "dropped"
    [] place \in Acquiring -> "leased"
    [] place = "scheduling" -> "scheduling"
    [] OTHER -> "open"

LeasePc == [c \in Caller |-> LeasePlace(pc[c], lease[c])]

LeaseManual ==
  [c \in Caller |-> request[c] # None /\ lease[c] # None /\ IsManual(request[c])]

Leases == INSTANCE SessionLeases WITH pc <- LeasePc, lease <- lease, manual <- LeaseManual

(* The streams keep that contract, Leases!Spec.  Most of their steps are   *)
(* none of its steps, and that alternative comes first.                    *)
PoolContract ==
  Leases!Init /\ [][UNCHANGED Leases!vars \/ Leases!Next]_(Leases!vars)

-----------------------------------------------------------------------------
(***************************************************************************)
(* What makes the invariants above inductive, next to the invariant of the *)
(* pool's contract.                                                        *)
(***************************************************************************)

(* Who has asked and who holds something to give back.                     *)
CallersKnowTheirEntry ==
  \A c \in Caller :
    /\ pc[c] # "idle" => request[c] # None
    /\ pc[c] = "idle" => lease[c] = None
    /\ pc[c] \in {"recovered", "cleaning", "reclosing", "dropped"} \/ recovered[c] =>
         lease[c] # None

(* How often a caller has submitted its request, place by place.           *)
Unsent == Acquiring \cup {"reserving", "ready", "sending", "recovering", "recovered", "cleaning"}

SubmissionsAreCounted ==
  \A c \in Caller :
    /\ pc[c] \in {"idle", "sse"} => submits[c] = 0
    /\ submits[c] <= IF recovered[c] THEN 2 ELSE 1
    /\ pc[c] \in Unsent => submits[c] <= IF recovered[c] THEN 1 ELSE 0
    /\ pc[c] \in Unsent \cup {"idle"} => ~delivered[c]
    /\ pc[c] = "receiving" /\ delivered[c] => seen[c]

(* An entry the pool offers is nobody's to close, and a caller's garbage   *)
(* is disposed of before it goes on.                                       *)
GoneForGood ==
  /\ closing \cap active = {}
  /\ \A c \in Caller : garbage[c] \cap active = {}
  /\ \A c \in Caller : garbage[c] # {} => pc[c] = "disposing"
  /\ \A t \in Timer : timers[t].state = "disposing" => timers[t].entry \notin active

(* A socket is attached, or the caller that connected it is about to.      *)
SocketsAreAttached ==
  /\ \A c \in Caller :
       /\ pc[c] \in {"connecting", "attaching"} => ~entry[lease[c]].attached
       /\ pc[c] \in {"planning", "comparing"} => entry[lease[c]].attached
       /\ pc[c] = "attaching" => conn[lease[c]] # None
  /\ \A e \in Entry : conn[e] # None =>
       entry[e].attached \/ \E c \in Caller : pc[c] = "attaching" /\ lease[c] = e

(* The places where a caller has a socket to close or to hand on.          *)
Closers == {"attaching", "cleaning", "recovered", "dropped"}

(* An open socket outside the pool is in the hands of the thread that      *)
(* closes it next.                                                         *)
SocketsHaveACloser ==
  \A e \in Entry : conn[e] # None =>
    \/ e \in active \cup closing
    \/ \E c \in Caller :
         \/ e \in garbage[c]
         \/ lease[c] = e /\ pc[c] \in Closers
    \/ \E t \in Timer : timers[t].state = "disposing" /\ timers[t].entry = e

(* What a caller has read of a baseline that is still the pool's.          *)
PlansFrom(c) ==
  /\ saved[c] # None => pc[c] = "comparing"
  /\ pc[c] = "comparing" =>
       /\ ~IsManual(request[c])
       /\ lease[c] \in active =>
            LET base == entry[lease[c]].base
            IN  /\ base # None
                /\ saved[c] # None =>
                     /\ saved[c].config = base.config
                     /\ saved[c].input = IF saved[c].whole THEN base.input \o base.output
                                                           ELSE base.input

PlansFromItsEntry == \A c \in Caller : PlansFrom(c)

(* The frame of a request is all of it, or what follows on its connection. *)
Fits(c) ==
  LET k == conn[lease[c]]
  IN  IF frame[c].prev = None THEN frame[c].input = request[c].input
      ELSE k # None => /\ k.id = frame[c].prev
                       /\ k.config = request[c].config
                       /\ k.context \o frame[c].input = request[c].input

FrameFits(c) ==
  /\ pc[c] \in {"ready", "sending"} => frame[c] \in FrameRecord
  /\ pc[c] = "sending" => IsManual(request[c]) \/ Fits(c)
  /\ pc[c] = "ready" /\ lease[c] \in active => IsManual(request[c]) \/ Fits(c)

FramesFit == \A c \in Caller : FrameFits(c)

(* A completed response is the last one of its connection until it is kept. *)
IsLatest(c) ==
  pc[c] = "completed" /\ lease[c] \in active =>
    LET k == conn[lease[c]]
    IN  /\ k # None /\ sent[c] # None
        /\ ~IsManual(request[c]) => sent[c] = request[c].input
        /\ k.id = <<lease[c], k.count>> /\ k.count > 0
        /\ k.config = request[c].config
        /\ \E o \in Output : k.context = sent[c] \o o

CompletedIsLatest == \A c \in Caller : IsLatest(c)

Completing(e) == \E c \in Caller : pc[c] = "completed" /\ lease[c] = e

(* A baseline is its connection's last response, unless that one has just  *)
(* completed and is not kept yet.                                          *)
BaseMatches(e) ==
  entry[e].base # None =>
    \/ Completing(e)
    \/ /\ conn[e] # None
       /\ conn[e].id = entry[e].base.id
       /\ conn[e].config = entry[e].base.config
       /\ conn[e].context = entry[e].base.input \o entry[e].base.output

BaselinesMatch == \A e \in active : BaseMatches(e)

(* A connection completes one response per lease.                          *)
CountFits(e) ==
  conn[e] # None =>
    conn[e].count <= entry[e].generation +
                       (IF entry[e].busy /\ ~Completing(e) THEN 0 ELSE 1)

OneResponsePerLease == \A e \in active : CountFits(e)

ControlInv == TypeOK /\ CallersKnowTheirEntry /\ SubmissionsAreCounted

SocketInv ==
  /\ GoneForGood /\ SocketsAreAttached /\ SocketsHaveACloser /\ PooledSocketsAreOpen

ConversationInv ==
  /\ PlansFromItsEntry /\ FramesFit /\ ServerReadsWholeInput
  /\ CompletedIsLatest /\ BaselinesMatch /\ OneResponsePerLease

StreamInv ==
  /\ Leases!IInv /\ Leases!DroppedIsGone
  /\ ControlInv /\ SocketInv /\ ConversationInv
=============================================================================
