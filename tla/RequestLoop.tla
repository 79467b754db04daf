----------------------------- MODULE RequestLoop -----------------------------
(***************************************************************************)
(* The requests of the callers of one client: inference requests, whose    *)
(* headers hold the token of TokenCache (_stream and opened() of           *)
(* _client.py and _async_client.py), and fetches of the public model list  *)
(* with its cache (_models.py, _async_models.py).  Both retry failures     *)
(* that come before a usable answer.  Delays are in quarters of a second.  *)
(***************************************************************************)
EXTENDS TokenCache

CONSTANTS
  MaxRetries,      \* max_retries
  MaxRetryDelay,   \* max_retry_delay
  Status,          \* the statuses the server answers with
  Header,          \* numbers in retry-after-ms and retry-after
  MaxRegistry      \* bound: the versions of the model list

ASSUME RetryAssumption ==
  /\ MaxRetries \in Nat /\ MaxRetryDelay \in Nat
  /\ Header \subseteq Int /\ MaxRegistry \in Nat \ {0}
  /\ None \notin Int /\ None \notin {"CodexError", "httpx", "OSError", "CancelledError"}

VARIABLES
  kind,      \* what the callers ask for
  call,      \* the locals of each caller in its request: see NoCall
  registry,  \* the version of the published model list
  models     \* ModelsResource._cache and _cache_at

listVars == <<kind, registry, models>>
vars == <<tokenVars, listVars, call>>

NoCall ==
  [pc |-> "idle", attempt |-> 0, open |-> FALSE, delay |-> 0, asked |-> 0,
   served |-> FALSE, since |-> 0, list |-> 0, result |-> None]

(* Streams and model lists share no state but the retry loop, so that a    *)
(* behaviour with both is two behaviours side by side: one has one kind.   *)
Init ==
  /\ TokenInit
  /\ kind \in {"stream", "models"}
  /\ call = [c \in Caller |-> NoCall]
  /\ registry = 1
  /\ models = [list |-> 0, recent |-> FALSE]

Doing(c, place) == call[c].pc = place
Set(c, r) == call' = [call EXCEPT ![c] = r]
Step(c, place) == Set(c, [call[c] EXCEPT !.pc = place])

(* How a call ends: None, the kind of its exception, or its model list.    *)
Ended(c, result) ==
  [NoCall EXCEPT !.pc = "ended", !.result = result, !.since = call[c].since, !.list = call[c].list]

End(c, result) == Set(c, Ended(c, result))

-----------------------------------------------------------------------------
(* _errors.py                                                              *)

(* A header that is missing or no finite number is passed over.            *)
RetryAfter(ms, seconds) ==
  LET given == IF ms # None THEN ms ELSE seconds
  IN  IF given = None THEN None ELSE IF given < 0 THEN 0 ELSE given

(* error_from_response                                                     *)
ErrorClass(status) ==
  CASE status \in {401, 403} -> "AuthError"
    [] status = 429 -> "RateLimitError"
    [] status >= 500 -> "ServerError"
    [] OTHER -> "InvalidRequestError"

(* An AuthError is no APIError and has no delay.                           *)
ErrorFrom(status, quota, ms, seconds) ==
  [class |-> ErrorClass(status), status |-> status, quota |-> quota,
   after |-> IF ErrorClass(status) = "AuthError" THEN None ELSE RetryAfter(ms, seconds)]

ConnectionError == [class |-> "APIConnectionError", status |-> 0, quota |-> FALSE, after |-> None]

(* A 429 whose body speaks of a used up quota will not go away.            *)
Retryable(error) ==
  error.status \in {408, 429, 500, 502, 503, 504} /\ ~(error.status = 429 /\ error.quota)

Errors ==
  {ErrorFrom(status, quota, ms, seconds) :
     status \in Status, quota \in BOOLEAN, ms \in Header \cup {None}, seconds \in Header \cup {None}}

Backoff(attempt) == IF attempt >= 3 THEN 8 ELSE 2 ^ attempt

Delay(attempt, error) == IF error.after # None THEN error.after ELSE Backoff(attempt)

-----------------------------------------------------------------------------
(* The retry loop                                                          *)

(* retry_delay limits the delays of a stream; the model list has no limit. *)
TooLong(c, error) ==
  kind = "stream" /\ Delay(call[c].attempt, error) > MaxRetryDelay

(* Mutant: one attempt too many.                                           *)
RetryOnceMore(c, error) ==
  (error = ConnectionError \/ Retryable(error)) /\ call[c].attempt <= MaxRetries

MayRetry(c, error) ==
  /\ error = ConnectionError \/ Retryable(error)
  /\ call[c].attempt < MaxRetries
  /\ ~TooLong(c, error)

Sleeping(c, delay, error) ==
  [call[c] EXCEPT !.pc = "sleeping", !.open = FALSE, !.delay = delay,
                  !.asked = IF error.after = None THEN 0 ELSE error.after]

(* Mutant: a delay beyond the limit is cut instead of refused.             *)
RetryCut(c, error) ==
  Set(c, IF MayRetry(c, error) \/ (TooLong(c, error) /\ call[c].attempt < MaxRetries)
           THEN Sleeping(c, IF TooLong(c, error) THEN MaxRetryDelay
                            ELSE Delay(call[c].attempt, error), error)
           ELSE Ended(c, "CodexError"))

(* Mutant: the failed response stays open during the wait.                 *)
RetryUnclosed(c, error) ==
  Set(c, [IF MayRetry(c, error) THEN Sleeping(c, Delay(call[c].attempt, error), error)
          ELSE Ended(c, "CodexError") EXCEPT !.open = call[c].open])

(* After a failure: wait and try again, or raise it.                       *)
RetryOrRaise(c, error) ==
  Set(c, IF MayRetry(c, error) THEN Sleeping(c, Delay(call[c].attempt, error), error)
         ELSE Ended(c, "CodexError"))

(* _sleep_before_retry                                                     *)
Awake(c) ==
  /\ Doing(c, "sleeping")
  /\ Set(c, [call[c] EXCEPT !.pc = "opening", !.attempt = @ + 1, !.delay = 0, !.asked = 0])
  /\ UNCHANGED <<tokenVars, listVars>>

(* Mutant: only timeouts are caught.                                       *)
UnreachableUncaught(c) ==
  /\ Doing(c, "opening")
  /\ RetryOrRaise(c, ConnectionError) \/ End(c, "httpx")
  /\ UNCHANGED <<tokenVars, listVars>>

(* Connecting or waiting for the headers of the answer fails.              *)
Unreachable(c) ==
  /\ Doing(c, "opening")
  /\ RetryOrRaise(c, ConnectionError)
  /\ UNCHANGED <<tokenVars, listVars>>

-----------------------------------------------------------------------------
(* _stream: the headers are built once, outside of the retry loop          *)

BeginStream(c) ==
  /\ Doing(c, "idle") /\ kind = "stream"
  /\ Ask(c)
  /\ Set(c, [NoCall EXCEPT !.pc = "headers"])
  /\ UNCHANGED <<asynchronous, serverVars, file, memory, harm, listVars>>

HeadersBuilt(c) ==
  /\ Doing(c, "headers")
  /\ \/ At(c, "ready") /\ Step(c, "opening")
     \/ At(c, "failed") /\ End(c, IF auth[c].error = "AuthError" THEN "CodexError" ELSE auth[c].error)
  /\ Become(c, NoAuth)
  /\ UNCHANGED <<asynchronous, serverVars, file, memory, harm, listVars>>

(* The headers of an answer arrive, below 400 or not, with the body still  *)
(* to come.                                                                *)
Opened(c) ==
  /\ Doing(c, "opening") /\ kind = "stream"
  /\ \/ Set(c, [call[c] EXCEPT !.pc = "body", !.open = TRUE, !.served = TRUE])
     \/ Set(c, [call[c] EXCEPT !.pc = "reading", !.open = TRUE])
  /\ UNCHANGED <<tokenVars, listVars>>

(* The body of an error is read; a failure of that is caught by nobody.    *)
ErrorRead(c) ==
  /\ Doing(c, "reading")
  /\ (\E error \in Errors : RetryOrRaise(c, error)) \/ End(c, "httpx")
  /\ UNCHANGED <<tokenVars, listVars>>

(* Mutant: a stream that breaks before its first event is sent again.      *)
BodyRetried(c) ==
  /\ Doing(c, "body")
  /\ RetryOrRaise(c, ConnectionError)
  /\ UNCHANGED <<tokenVars, listVars>>

(* The stream ends, breaks or is left: whatever happened, it is over.      *)
BodyOver(c) ==
  /\ Doing(c, "body")
  /\ \E result \in {"CodexError", None} : End(c, result)
  /\ UNCHANGED <<tokenVars, listVars>>

-----------------------------------------------------------------------------
(* ModelsResource.list                                                     *)

BeginList(c) ==
  /\ Doing(c, "idle") /\ kind = "models"
  /\ \/ /\ models.recent
        /\ Set(c, [NoCall EXCEPT !.pc = "ended", !.list = models.list])
     \/ Set(c, [NoCall EXCEPT !.pc = "opening", !.since = registry])
  /\ UNCHANGED <<tokenVars, listVars>>

(* The whole answer is read by the one call that can fail.                 *)
Fetched(c) ==
  /\ Doing(c, "opening") /\ kind = "models"
  /\ \/ Set(c, [call[c] EXCEPT !.pc = "storing", !.list = registry])
     \/ \E error \in Errors : RetryOrRaise(c, error)
     \/ End(c, "CodexError")
  /\ UNCHANGED <<tokenVars, listVars>>

(* Mutant: the list returned is the one in the cache.                      *)
StoreAndReturnCached(c) ==
  /\ Doing(c, "storing")
  /\ models' = [list |-> call[c].list, recent |-> TRUE]
  /\ Set(c, [Ended(c, None) EXCEPT !.list = IF models.recent THEN models.list ELSE @])
  /\ UNCHANGED <<tokenVars, kind, registry>>

Store(c) ==
  /\ Doing(c, "storing")
  /\ models' = [list |-> call[c].list, recent |-> TRUE]
  /\ End(c, None)
  /\ UNCHANGED <<tokenVars, kind, registry>>

-----------------------------------------------------------------------------
(* The cancellation of a task at an await of its request, of its fetch, or *)
(* of its login in a thread; a response that is open is closed.            *)
CancelStream(c) ==
  /\ asynchronous /\ kind = "stream"
  /\ call[c].pc \in {"opening", "reading", "body", "sleeping"}
  /\ End(c, "CancelledError")
  /\ UNCHANGED <<tokenVars, listVars>>

CancelList(c) ==
  /\ asynchronous /\ kind = "models"
  /\ call[c].pc \in {"opening", "sleeping"}
  /\ End(c, "CancelledError")
  /\ UNCHANGED <<tokenVars, listVars>>

CancelLogin(c) ==
  /\ Detach(c)
  /\ End(c, "CancelledError")
  /\ UNCHANGED listVars

Return(c) ==
  /\ Doing(c, "ended")
  /\ Set(c, NoCall)
  /\ UNCHANGED <<tokenVars, listVars>>

TokenStep(c) == (AuthStep(c) \/ CancelAuth(c)) /\ UNCHANGED <<call, listVars>>

Environment ==
  \/ kind = "stream" /\ Expire /\ UNCHANGED <<call, listVars>>
  \/ /\ kind = "models" /\ registry < MaxRegistry /\ registry' = registry + 1
     /\ UNCHANGED <<tokenVars, kind, call, models>>
  \/ /\ models.recent /\ models' = [models EXCEPT !.recent = FALSE]
     /\ UNCHANGED <<tokenVars, kind, call, registry>>
  \/ /\ Crash
     /\ call' = [c \in Caller |-> NoCall]
     /\ models' = [list |-> 0, recent |-> FALSE]
     /\ UNCHANGED <<kind, registry>>

Next ==
  \/ \E c \in Caller :
       \/ BeginStream(c) \/ HeadersBuilt(c) \/ Opened(c) \/ ErrorRead(c) \/ BodyOver(c)
       \/ BeginList(c) \/ Fetched(c) \/ Store(c)
       \/ Awake(c) \/ Unreachable(c) \/ Return(c) \/ TokenStep(c)
       \/ CancelStream(c) \/ CancelList(c) \/ CancelLogin(c)
  \/ Environment

Spec == Init /\ [][Next]_vars

-----------------------------------------------------------------------------
CallRecord ==
  [pc : {"idle", "headers", "opening", "reading", "body", "sleeping", "storing", "ended"},
   attempt : 0..MaxRetries, open : BOOLEAN, delay : Nat, asked : Nat, served : BOOLEAN,
   since : 0..MaxRegistry, list : 0..MaxRegistry,
   result : {None, "CodexError", "AuthError", "httpx", "OSError", "CancelledError"}]

TypeOK ==
  /\ TokenTypeOK
  /\ kind \in {"stream", "models"}
  /\ registry \in 1..MaxRegistry
  /\ models \in [list : 0..registry, recent : BOOLEAN]
  /\ call \in [Caller -> CallRecord]
  /\ \A c \in Caller : At(c, "ready") \/ At(c, "failed") => Doing(c, "headers")

(* docs/streaming.md, "Retry boundary": a request is made again only       *)
(* before the body of an answer is read, with no response left open while  *)
(* the client waits or when the call is over.                              *)
RetryBoundary ==
  \A c \in Caller :
    /\ call[c].pc \in {"opening", "reading", "sleeping"} => ~call[c].served
    /\ call[c].open => call[c].pc \in {"reading", "body"}

(* A retry never comes sooner than the server asked for, and no stream     *)
(* waits longer than max_retry_delay.                                      *)
NeverSoonerThanAsked ==
  \A c \in Caller : Doing(c, "sleeping") =>
    /\ call[c].delay >= call[c].asked
    /\ kind = "stream" => call[c].delay <= MaxRetryDelay

(* An exception that is no CodexError (a cancellation aside) reaches the   *)
(* caller only while the token is read, obtained or saved, or from the     *)
(* body of an error answer: never from opening, reading or retrying.       *)
RawErrorsComeFromTokensAndErrorBodies ==
  [][\A c \in Caller :
       call'[c].result \in {"httpx", "OSError"} /\ call[c].result = None =>
         call[c].pc \in {"headers", "reading"}]_vars

(* docs/errors.md: "All package exceptions derive from `CodexError`", and  *)
(* failures of OAuth and of the token cache are an AuthError, failures to  *)
(* open the response an APIConnectionError: a call returns, is cancelled,  *)
(* or raises one of them.                                                  *)
OnlyCodexErrors ==
  \A c \in Caller : Doing(c, "ended") => call[c].result \in {None, "CodexError", "CancelledError"}

(* A call that fetches the model list returns one at least as new as the   *)
(* list published when it was called, whatever slower calls put into the   *)
(* cache.                                                                  *)
FetchIsCurrent ==
  \A c \in Caller : Doing(c, "ended") /\ call[c].list # 0 => call[c].list >= call[c].since

(***************************************************************************)
(* What makes the invariants above inductive: a caller with a token to     *)
(* come waits for it, unless its login was left to a thread; a caller that *)
(* sleeps has an attempt left; an answer is served in its body alone; and  *)
(* a list is fetched after the call began.                                 *)
(***************************************************************************)
TokensAreAwaited ==
  \A c \in Caller : auth[c].pc # "idle" /\ auth[c].by # "detached" => Doing(c, "headers")

CallsAreOrdered ==
  \A c \in Caller :
    /\ Doing(c, "sleeping") => call[c].attempt < MaxRetries
    /\ call[c].served => Doing(c, "body")
    /\ call[c].since <= registry /\ call[c].list <= registry
    /\ call[c].list # 0 => call[c].list >= call[c].since

CallInv ==
  /\ TypeOK /\ TokensAreAwaited /\ CallsAreOrdered /\ RetryBoundary /\ NeverSoonerThanAsked
=============================================================================
