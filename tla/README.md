# Verification of gpt-codex-client

TLA+ models of the Python SDK in `src/`, the TLC configurations that check them
on small instances, and TLAPS proofs of what holds for every instance. Source
files without a directory are in `src/gpt_codex_client/`.

## The system

The SDK is a client library: threads (or asyncio tasks) of an application call
it, and it talks HTTP and WebSocket to one service. It runs threads of its own
only for expiry timers. What several threads share is the session pool, the
token cache and the model list; the rest is per call.

| Component | State | Operations | Talks to | What makes it correct |
|---|---|---|---|---|
| Session pool (`_session_pool.py`) | entries by session, active set, closed flag; per entry busy, valid, generation, timer, history | reserve, attach, release, schedule/expire, clear, under one lock | called by both sources, timers and the client | one holder per connection; nothing idle is forgotten, nothing busy is evicted; no history after removal |
| Continuation planning (`plan_request`) | reads and clears an entry's history, without the lock | plan | called by the sources between attach and send | the service reads the caller's whole input |
| WebSocket source (`_websocket.py`) | entry, frame, recovery flag | acquire, open, events, close | pool, socket, SSE fallback, response stream | no leak, no use after clear, at most one resubmission and none after output |
| Async WebSocket source (`_websocket.py`) | the same, plus cleanup tasks | the same with awaits | the same, event loop | the same under cancellation |
| Response stream (`_stream.py`, `_async_stream.py`) | state of assembly, closed flag | enter, iterate, close; SSE decoding | source, response state | ends exactly once; a terminal event closes the source before it is seen |
| Response assembly (`_response_state.py`) | items, text, status | record, result, fail | response stream | partial results say they are partial |
| Client (`_client.py`, `_async_client.py`) | pool, auth, HTTP client | request, stream, close_session, close | everything | bounded retries, no retry of an ambiguous send |
| Errors (`_errors.py`) | none | classify, delay | client | only retryable errors retry, within the maximum delay |
| Authentication (`_auth.py`, `_async_auth.py`, `_config.py`) | token file | login, refresh, load, save | client, HTTP, file system | the stored token is the newest |
| Model list (`_models.py`, `_async_models.py`) | manifest | list | client | a newer list is not replaced by an older one |
| Chat (`_chat.py`, `_chat_projection.py`) | projection of one stream | feed | response stream | chunks in order, each tool call once |
| Converters, types, cache keys (`_converters.py`, `_types.py`, `_cache.py`) | none | pure | client, chat | a round trip keeps the conversation |
| `scripts/capture_protocol_case.py` | | | | a tool for recording traffic, not part of the package |

### What is hard here

- **Four critical sections per stream.** A lease is reserved, attached, released
  and scheduled under the lock, but connecting, planning, sending and closing
  happen outside it, and `close_session`, `close`, another endpoint or a timer
  can remove the entry between any two of them.
- **Late timers.** `threading.Timer.cancel` does not stop a callback that has
  started; it waits for the lock and finds an entry that was leased since.
- **A release has no token.** It names an entry, not a lease, and a failed
  recovery releases twice.
- **Two conversations must agree.** What the SDK remembers as the baseline of a
  connection must be what the service remembers, or a continuation silently
  answers another conversation.
- **Recovery.** A rejected continuation is tried again exactly once, and only
  when the consumer saw nothing.
- **Cancellation at every await.** A task may be cancelled while it closes the
  sockets of others, which are then out of the pool and open; between the release
  of a rejected continuation and the next lease; or while a child reads for it.
- **One token file, nobody's lock.** Callers refresh, log in, truncate and write
  it at once; the server may rotate refresh tokens; an answer may be lost, and a
  save may fail half-way.
- **Retries.** What may be sent again, after which wait, with which response still
  open, in two loops that differ.
- **Events that say things twice.** Deltas, whole texts, whole items and the whole
  output overlap, come in any order, and name items by index or by id. What they
  add up to must not depend on that, nor what Chat shows and sends back.

The list with lines and the properties that cover each is under `hazards` in
`PROJECT.json`.

## Modules

| Module | What it is |
|---|---|
| `SessionPool` | The state and methods of the pool. One action per method outcome, since each method runs under one lock; `Fire` is the timer thread starting. It has no next-state relation of its own. |
| `SessionLeases` | The pool and abstract callers: the contract of a caller of the pool, and the specification the proofs are about. |
| `SessionLeases_proofs` | The proofs about the pool and its contract. |
| `SessionPool_proofs` | Lemmas about the methods of the pool that all proofs cite: types, fields, what each does to an entry that stays and to a timer. |
| `WebSocketSource` | Synchronous streams over the pool, with sockets, the unlocked reads of `plan_request`, recovery, fallback, the consumer and an external server. |
| `WebSocketSource_proofs` | The proofs about it, with the refinement. |
| `AsyncWebSocketSource` | Asynchronous streams over the same pool as tasks of one event loop, with cancellation, `wait_for_io`, cleanup tasks, `aclose_session` and `aclose`. |
| `AsyncWebSocketSource_proofs` | The proofs about it, with the refinement. |
| `TokenCache` | The token in memory, the token file, refresh and login, and an external OAuth server. |
| `RequestLoop` | Inference requests with their headers and retries, and the model list with its cache, over `TokenCache`. |
| `RequestLoop_proofs` | The proofs about both. |
| `SseDecoder` | The decoder of server-sent events: pure operators. |
| `ResponseAssembly` | `ResponseState`: pure operators on the state of one response, over the decoder's events. |
| `ResponseAssembly_proofs` | Proofs about the order of a snapshot's output. |
| `ChatCompatibility` | The projection of snapshots to chunks, of a response to a message, and of a history to input: pure operators. |
| `ResponseStream` | A stream from the server to a native or Chat consumer, over the decoder, the assembly and Chat. |
| `ResponseStream_proofs` | The proofs about it, from the lines on the wire to the final response. |
| `MCSessionLeases`, `MCWebSocketSource`, `MCAsyncWebSocketSource`, `MCClient`, `MCProtocol` | The instances TLC checks. |

`WebSocketSource` and `AsyncWebSocketSource` both extend `SessionPool` and both
implement `SessionLeases`. `RequestLoop` extends `TokenCache`: the headers of a
stream are what `TokenCache` answers. `ResponseStream` sits on
`ChatCompatibility`, which sits on `ResponseAssembly` and `SseDecoder`. The source
modules and `ResponseStream` meet at the events: the former keep of an event only
what moves connections, the latter keeps its content and not where it came from.

### Correspondence with the code

*Entries.* An `Entry` object is an identity of the set `Entry`; `active`,
`entries` and `closed` are the fields of `SessionPool`. `body`, `response_id` and
`output` are set and cleared together under the lock and are the one field
`base`. Readers without the lock see them one after the other: in
`WebSocketSource` the reads are the separate steps `PlanGuard`, `PlanBody`,
`PlanOutput` and `PlanCompare`. `_remove` bumps the generation of an entry it
makes invalid; `valid` is always tested first, so a removed entry goes back to
blank values, and its identity is free again once no thread refers to it, as in
Python. An entry is given at most one socket, so `attached` stands for it and the
open connection is `conn[e]`.

*Time.* The code compares `now - last_used` with the idle timeout and
`now - created_at` with 55 minutes. The model keeps those two differences, which
saturate at the limit, and `Tick` advances them with the delays of the timers.
`last_used` of a busy entry is never read, so `idle` counts for idle entries
only. Ties of the LRU order are resolved either way.

*Timers.* A timer is armed, due (its callback waits for the lock and can no
longer be cancelled), disposing (it removed its entry and closes the socket
outside the lock) or free. `Schedule` overwrites `entry.timer` as the code does.

*Callers.* In `SessionLeases` a caller is idle, leased (reserved, no plan yet),
open (may send), scheduling (between a release that kept the entry and
`schedule`) or dropped (its lease is gone). In `WebSocketSource` it is at one of
21 places, between two calls that touch shared state; the map in `PROJECT.json`
gives the lines of each action.

*Requests.* A body is a configuration, a sequence of input items and the caller's
own `previous_response_id`; `canonical` equality is equality of these. A frame is
a previous id and an input. A connection of the server remembers the id,
configuration and conversation of the last response it completed; it may forget
(`ReceiveMissing`) or break off (`ReceiveOtherwise`) at any time, and a frame that
is sent may or may not have arrived.

*Tasks.* A task runs from one await to the next, so in `AsyncWebSocketSource` a
place of `RunPoint` is one where the task has not suspended and nobody else runs.
An await that may finish without suspending (closing a socket that was never
attached) does not suspend in the model either. Every place outside `RunPoint` has
a cancel action. `delivered` and `submits` are history: whether the consumer was
given output, and how often the request was sent. `closed` of a socket is the moment its `close()` starts: the
`websockets` library writes the closing frame before it first waits. A cancelled
`gather` of `aclose()` cancels the cleanup tasks one after the other without an
await (`CancelCleanup`); one that has not started never closes its socket.

*Tokens.* An access and a refresh token are the numbers under which the server
issued them. A file is nothing, a token, empty, or torn (a part of a token, or a
token over the end of a longer one). `save_token` is two steps, `Truncate` and
`Write`, since `O_TRUNC` empties the file before the data is written; of an
asynchronous client they run without an await, unless its login runs in a thread.
Either may raise `OSError` instead. `OpenFailed` is `mkdir` or `os.open`: the file
keeps what it had. `WriteFailed` is `write`, `flush`, `close` or `chmod`: nothing, a
part or all of the token is in the file. Both lose the new token for the caller,
since `get_token` catches `AuthError` only. `ReadFailed` is a token file that exists
and cannot be read. `harm` records crashes in a save, saves that failed before the
whole token was written, and overlaps of two saves.

*Requests of the client.* Delays are in quarters of a second, so that
`min(2.0, 0.25 * 2**attempt)` is 1, 2, 4, 8, 8. The callers of one behaviour all
stream or all list models, because the two share nothing but the code of the
sleep. The server's answers are independent of the token.

*Events.* A text is a sequence of units, a message a sequence of texts, the
arguments of a call a sequence of units. The server of `ResponseStream` keeps its
own account of what it has said, computed from the plan and from what was sent and
never from the operators under test; `heard` is that account for the events that
came out of the decoder. `sorted(self.items.items())` is `Listed`: the n-th item of
the output is the one with n - 1 indices before its own.

*Mutants.* An operator whose comment starts with "Mutant" is not part of a
specification. It is the definition that follows with a plausible mistake in it;
`PROJECT.json` pairs it with a property that TLC finds violated once it takes the
definition's place.

## Runs

| Run | Question | Distinct states |
|---|---|---|
| `MCSessionLeases` | Is the pool consistent in every interleaving of its critical sections, is the invariant of the proofs one, and does every idle connection end? | 670,076 |
| `MCStreams` | Do concurrent streams with five kinds of call keep connections and conversations apart, and the contract of the pool (`WebSocketSource` implements `SessionLeases`)? | 2,504,426 |
| `MCStreamsLive` | Does every stream end, and does `close()` close every socket? | 133,544 |
| `MCAsyncStreams` | Do tasks that are cancelled, timed out and cleared at any await keep the pool's contract and lose no socket? | 448,014 |
| `MCClient` | Can callers of one client break the token file, lose the session, retry what they must not, or get an old model list? | 4,451,747 |
| `MCProtocol` | Is what is assembled, streamed to Chat and replayed what the server said? | 494,522 |
| `MCCloseTimers`, `MCRecoveryFresh`, `MCCodexErrors`, `MCAsyncClose`, `MCRawErrors`, `MCStreamedReplay` | Six statements of the documentation the code does not keep. | violated |

### The safety properties

- `LeaseExclusive`, `BusyMeansHeld`, `IndexesAgree`, `IdleIsReusable`,
  `IdleIsTimed`, `Capacity`, `RemovedHoldsNoHistory`: the state of the pool against
  what callers hold. `IInv` is the conjunction the proofs need.
- `NeverExpiredEarly`, `BusyNeverEvicted`, `OneShotIsDropped`: what a step may
  never do.
- `ServerReadsWholeInput`: whatever frame was planned, and whatever was cleared
  under the plan, a frame that reaches a server that accepts it stands for the
  caller's whole input under the caller's configuration.
- `BaselineMatchesServer`: what an idle connection continues from is what the
  server last completed on it.
- `NoResubmission`: a request is sent at most twice, the second time only after a
  rejected continuation, and never over both transports. When it is sent again
  the consumer has been given no output: the history `delivered` is kept apart from
  `seen`, which the code tests.
- `NoSocketLeak`, `PooledSocketsAreOpen`, `OneStreamPerSocket`: who owns a socket.
- `IoIsDrained`: no `send` or `recv` outlives the stream it was started for.
- `ContinuesItsConnection`: a continuation is planned for the very connection it is
  sent on, also after a recovery.
- `OnlyCancelledCleanupLeaks`: an open socket loses its last owner only when a task
  is cancelled while it closes the sockets of others (the garbage of a reserve,
  `aclose_session`, `aclose`).
- `PoolContract`, of both sources: to the pool, streams are the callers of
  `SessionLeases`, so what is proved of it holds for them.
- `OnlyLostTokensKillTheSession`: a refresh token in the file that the server no
  longer accepts takes an answer that is lost, refused or cancelled, or a token that
  was answered and not saved, because of a crash or an error of the file system.
  Concurrent refreshes with one rotating token are safe because the loser is
  rejected before it saves.
- `BrokenOnlyByBadSaves`: outside a save the file is unreadable only after a crash
  during one, an error of the file system in one, or two that overlapped.
  `get_token` never repairs it; the user has to.
- `RetryBoundary`, `NeverSoonerThanAsked`: `docs/streaming.md`, "Retry boundary".
- `RawErrorsComeFromTokensAndErrorBodies`: where exceptions that are no `CodexError`
  come from: a token file that cannot be read or written, a refresh or a login that
  cannot reach its server, a second login on the callback port, and the body of an
  error answer that cannot be read. Opening, reading and retrying a response never
  raise one. That there are any is the finding of `MCRawErrors`.
- `FetchIsCurrent`: a caller that fetches never gets a list older than the one
  published when it asked. The cache itself may go back to an older list.
- `AssembledMatchesServer`: after every event the snapshot, the partial response of
  an error and the final response are the server's account.
- `EndsClosedWithOneOutcome`: a response or an error, never both; closed before the
  last event is seen, and in every other way a stream ends.
- `ChatMatchesAggregate`: the chunks of a stream add up to the completion without
  streaming, and fail where that fails; the calls in the same order if the server
  named them in order. The one exception is text that the server adds before text it
  has already sent, which chunks cannot express.
- `ReplayReproducesHistory`: the message assembled from a stream, sent back with its
  `provider_data`, gives the output items exactly. The one exception is a server
  that identifies a later call before an earlier one: the stream numbers calls in
  the order of their identification, the verification expects the order of the
  output, and the unedited message is refused as edited. The documentation excepts
  no such message: it is the finding of `MCStreamedReplay`.

### Bounds

- Two callers: every hazard listed needs two; the proofs cover any number.
  `MCStreamsLive` has one caller, since liveness rules out symmetry; the clears,
  closes and timers still interleave with it.
- Two entry objects, one for each caller, recycled through `MaxGeneration` uses
  each. Generation 1 is one reuse, which a continuation needs; generation 2
  lets a timer of the first use meet the second, and a conversation grow twice.
- One or two timers (three in `MCSessionLeases`): two make the out-of-order
  schedule. A caller waits for a free timer identity, which delays and forbids
  nothing else.
- `MaxSize = 1` makes the second session evict or go one-shot. `IdleTimeout = 1`
  and `MaxAge = 2` keep the two limits apart in the runs of the pool; in `MCStreams`
  a connection is too old as soon as it has expired (`MaxAge = 1`).
- Two endpoints, so the purge finds entries of the other one.
- `MCAsyncStreams`: two entries, two streaming tasks, one closing task that may
  close a session or the client again and again, two timers and one reuse
  (`Counts` 1..2). The second stream meets the connection the first returned; a
  task ends a response only while a timer is free (`CanComplete`).
- `MCClient`: two callers; `MaxIssued = 4` tokens (one from before, and a refresh
  and a login of both callers at most); `MaxRetries = 2`; a status of each class of
  errors; a Retry-After that is negative, below and above `MaxRetryDelay = 4`; two
  versions of the model list. Symmetry of the callers.
- `MCProtocol`: outputs of one message with two texts, two messages, two calls,
  reasoning with a message and a call, and a message with a call that Chat cannot
  show. Two items are what an order needs, two units what a delta needs. One stream
  per behaviour; three framings cover the four kinds of line.
- `CHECK_DEADLOCK FALSE` in `MCProtocol`: a stream that is over stays over.

### Fairness

`MCSessionLeases` assumes that time passes, that a timer thread which can move
does (`threading.Timer` runs its callback, the lock is held for short sections
only) and that a caller goes from `release` to `schedule` (consecutive calls in
`close`). It assumes nothing of a caller that holds a lease. `MCStreamsLive` also
assumes that a caller keeps moving: `connect` and `recv` have a timeout, so they
return, a response is finite, and the consumer reads its stream or leaves it.

### What the violations show

- `MCCloseTimers`: A releases, B leases and releases the same entry, then both
  schedule. The second assignment of `entry.timer` forgets a running timer, and
  `close()` cannot cancel it. It does no harm when it fires (`NeverExpiredEarly`
  holds) but keeps a thread and the entry for up to the idle timeout, where
  `docs/responses.md:132` says that expiry tasks are cleared.
- `MCRecoveryFresh`: the recovery calls `_acquire`, which may lease the idle
  connection another stream of the session has just returned, and plan another
  continuation. `docs/responses.md:114-116` promises a fresh WebSocket and the
  full context. `NoResubmission` still holds: there is one recovery.
- `MCCodexErrors`: a clear between two unlocked reads of `plan_request` raises
  `AttributeError` from `entry.body.items()`, not the `StreamError` that
  `docs/errors.md:3` leads a caller to expect. The stream fails either way.
- `MCAsyncClose`: `aclose()` takes all entries out of the pool at once and closes
  them one await after the other. Cancelled in between, or in `gather`, it leaves
  sockets that a second `aclose()` does not find. `docs/responses.md:132` says that
  it clears all of them.
- `MCRawErrors`: a token file that cannot be read makes a call raise `OSError`. The
  other sources named under `RawErrorsComeFromTokensAndErrorBodies` do the same.
  `docs/errors.md:3` says that all exceptions of the package are `CodexError`s,
  line 5 that failures of OAuth and of the token cache are an `AuthError`, line 9
  that a response that cannot be opened is an `APIConnectionError`.
- `MCStreamedReplay`: the server names call b, then call a, of an output [a, b]. The
  stream shows [b, a], and sending the message back with its `provider_data` raises
  "Message differs from provider_data". `docs/chat-compatibility.md:51-56` and
  `specs/response-context-replay/spec.md:30` (of the change
  `harden-codex-stream-and-chat-protocol`) promise that the streamed message replays
  and that only edited ones are refused.

## Proofs

TLAPS proves the following for every value of the constants: any number of
callers, tasks, sessions, entries, endpoints, timers, requests and retries,
conversations of any length, and outputs of any number of items, texts and units.
The strengthened invariant of each proof was first checked by TLC as an invariant
of the run of the same component.

| Module | Invariant | Runs' properties it states |
|---|---|---|
| `SessionLeases_proofs` | `IInv` | all of `MCSessionLeases` but `IdleEnds` |
| `WebSocketSource_proofs` | `StreamInv` | the eight of `MCStreams`, `PoolContract` among them |
| `AsyncWebSocketSource_proofs` | `TaskInv` | the six of `MCAsyncStreams`, `PoolContract` among them |
| `RequestLoop_proofs` | `TokenInv`, `CallInv` | the seven of `MCClient` |
| `ResponseStream_proofs` | `ProtocolInv` | `AssembledMatchesServer` and `EndsClosedWithOneOutcome` of `MCProtocol` |

`theorems` in `PROJECT.json` says what each theorem establishes.

### What is assumed

- Of the pool: `LimitsAssumption` (limits are positive naturals, `MaxSize` may be
  0), `NoneAssumption` (`None` is no entry, session, endpoint, timer or baseline)
  and `FiniteAssumption` (finitely many sessions, which only `Capacity` needs, for
  cardinalities).
- Of the synchronous streams: `RequestAssumption` (a request has a session, an
  endpoint and an input, and its outputs are a sequence of items),
  `BaselineAssumption` (the baselines of the pool have the shape of what a stream
  keeps of a completed request) and `ConnectionAssumption` (`None` is no record of
  a connection).
- Of the tasks: `TaskAssumption` (the same for calls without content; `FullFrame`
  is no response).
- Of the client: `IssuedAssumption`, `FileAssumption` (an unreadable file is no
  token) and `RetryAssumption` (bounds and delays are natural numbers, the header
  an integer; `None` is neither).
- Of the protocol: `NoneAssumption` of `ResponseAssembly` (Python's `None` is no
  string, number, text, item, response or event, and `NotText` is no text) and
  `PlanAssumption` (an output is a sequence of items whose identities differ;
  messages have texts, function calls have arguments, other items neither).
  `StringAssumption` only says of the string literals of the model that they are in
  `STRING`, which is true by definition and which the provers have no rule for.

They are checked by TLC on every run of their module, and say nothing the code
does not guarantee by the types of its values. `PlanAssumption` is about the
server: nothing in the SDK refuses two items with one identity, but then an event
that names it by its identity tells nobody which it means.

### The pool

None of the invariants of `SessionLeases` is inductive on its own. `IInv` adds

- `OpenIsAttached`: a caller past planning has a socket, so what it keeps is
  attached;
- `TimerIsCurrent`: the timer an entry names is a running timer of its own
  current generation, so cancelling it cancels nobody else's;
- `TimersAreOlder`: the generation of a running timer is at most its entry's, and
  smaller while the entry is in use. That is why `generation != ...` recognises
  every late callback, and why a reuse cannot make an old timer current again;
- `TimersWaitLongEnough`: a timer of the current generation has at least as long
  to wait as the entry has left, from which `NeverExpiredEarly` follows.

The proof has a lemma per action: what it does to the pool, then one step per
conjunct of `IInv` it can disturb. `TypeInvariant` is proved first, from the types
alone; `Inductive` combines the lemmas, and each invariant is a corollary.
`BusyNeverEvicted` needs one more invariant, `DroppedIsGone`: a caller that was
told its lease is gone refers to an entry that has left the pool, so a second
release removes nothing.

### The streams

Both sources implement `SessionLeases`: `StreamsKeepTheContract` and
`TasksKeepTheContract` show that, under the mapping of places to the five places
of a contract's caller, every step of a stream, timer or close is a step of the
contract or none. The theorems about the pool then hold of the streams without
another proof (`StreamsInheritTheContract`, `TasksInheritTheContract`).

The invariant and the refinement need each other. That a step keeps the contract
follows from the present invariant; the invariant of the pool then holds in the
next state because the *contract's* steps keep it; and what it says there
(`PoolFacts`: who leases what, what is attached, what has left the pool) carries
the rest, in this order: types, counts, sockets, conversations. `StreamInv` has,
besides `IInv` and `DroppedIsGone` under the mapping,

- `CallersKnowTheirEntry`, `SubmissionsAreCounted`: who holds something to give
  back, and how often it has submitted at each of its places. `NoResubmission`
  looks at the end of a stream only;
- `GoneForGood`: what is being closed has left the pool, so closing it closes
  nothing another caller can be given. `PooledSocketsAreOpen` rests on it;
- `SocketsAreAttached`, `SocketsHaveACloser`: between `connect` and `attach` an
  open socket belongs to its caller and not to the pool, and at each later place
  somebody is the next to close it. `NoSocketLeak` is the second without the places;
- `PlansFromItsEntry`: what the unlocked reads of `plan_request` have collected is
  a prefix of the baseline while the entry is in the pool. A removed entry may
  change between two reads; the valid check before the send is what saves the
  frame then, so `FramesFit` speaks of entries of the pool until that check and of
  any connection after it. `ServerReadsWholeInput` is what `FramesFit` says at the
  moment the server reads;
- `CompletedIsLatest`, `BaselinesMatch`, `OneResponsePerLease`: a connection and its
  baseline agree except while a completed response is not kept yet, and a
  connection completes one response per lease, so that response ids never repeat.

`TaskInv` is built the same way, and differs where an event loop does:

- `RunsAlone`: a task between two awaits is the only one that runs, no timer
  callback waits, and no closing task is in a loop without an await. Without it a
  task at `scheduling` could lose the entry it has just returned;
- `TasksKnowTheirEntry`: also that garbage is only at hand while it is swept, and
  that a child reads only for a task that waits for it. `IoIsDrained` follows with
  the exclusiveness of leases;
- `ClosersLoop`: a closing task that has something left to close is in its loop,
  so that the end of `aclose()`, or a cancelled `gather`, drops nothing;
- `SocketsAreAttached`: also that a task which gave an entry back without scheduling
  it has closed its socket before. A cancelled task may then forget the entry.

`OnlyCancelledCleanupLeaks` is proved from these one owner at a time: an entry
leaves the pool, a lease, a garbage list, a closing task or a cleanup task only
into the hands of the next owner, or closed.

### The client

`TokenInv` adds to the types what two concurrent refreshes rest on,

- `SavedTokensAreAccepted`: the refresh token of a token about to be saved is
  accepted, and with rotation neither the file nor another caller holds it, so that
  nobody can use it up before it is saved;
- `RefreshTokensWereIssued`: every refresh token in the file or in a caller's hands
  was issued, so that the next one is new;
- `WritersAreSeen`: a writer has the empty file to itself, or `harm` says why not;
  and a broken file has a writer, or a crash, a failure or an overlap on record;
- `AnswersAreForCallers`: a login that was left to its thread no longer answers.

`CallInv` adds `TokensAreAwaited` (a caller with a token to come waits for it) and
`CallsAreOrdered` (a caller that sleeps has an attempt left; a list is at least as
new as the call that fetched it). The action properties
`OnlyLostTokensKillTheSession` and `RawErrorsComeFromTokensAndErrorBodies` follow
from these and the step.

### The protocol

`AssembledMatchesServer` compares what was assembled with what was heard, and is
far from inductive: nothing in it says what the lines still to be read will do.
`ProtocolInv` is about those.

- `Settled` is the property with its outcomes: the state shows what was heard, and
  has a final response exactly if the server finished one.
- `InFlight`: either nothing is under way, and then the state `Follows` the server;
  or one event is, and it `Tells` what the server has said: recorded in the present
  state, it leads to the server's account of the present moment. The server speaks
  before the client reads, so the account is already ahead of the state.
- `Underway` is where that event's lines can be: in each framing, the ones before
  some line are in the decoder and the others on the wire. If the server hangs up,
  the decoder keeps what it has, and the rest never comes.
- `OpenUntilOutcome` ties the outcome to the connection and the consumer's place.
- `ServerOK` is what a server can have said: among others that the texts it began
  are the first ones of an item, and that an item without its identity is told only
  by a terse server.

A step of the server starts an event, and has to show that it tells. That is where
deltas, whole texts, whole items and whole outputs meet: `TargetFound` (an event
finds its item by place or by identity), `TextWritten` and `ArgumentsWritten`
(`record` adds to an item what the server sent of it), `MergedItem` (a whole item
over any part of itself is the whole item), `AbsorbFollows` (a response with its
output over any part of it), `EndTells` and `RefusedTells` (the outcomes). A step
that reads a line moves it from the wire to the decoder (`LineIsRead`), where the
last line completes exactly that event. After a hang-up, what is flushed is
nothing, a protocol error, or the whole event that only missed its blank line
(`LinesAreMissing`).

The order of a snapshot is `ListedInOrder`, a theorem of its own: with whatever
indices items arrived, they are listed once each, in the order of the indices. It
is by counting, without induction.

### Only model-checked

- Liveness (`IdleEnds`, `StreamsEnd`, `CloseClosesSockets`): it needs fairness and
  `ENABLED`, which the prover does not handle.
- `ChatMatchesAggregate` and `ReplayReproducesHistory`: what the projection, the
  flattening of texts and the selection of calls compute are folds over sequences,
  and to say what a fold computes for every sequence needs induction over data.
- The six violations, which are single behaviours.

## Plan

Built: the pool and its contract; both sources; the client's requests, tokens and
model list; the protocol from the lines of a stream to Chat; the proofs above. Every
safety property of the runs is proved but two, which are out of the provers' reach.
To come, in this order:

1. The projection of Chat without folds (tools as a function of the item's place),
   so that `ChatMatchesAggregate` can be split into a part about one item, which
   can be proved, and one about sequences.
2. `AsyncResponseStream` against `ResponseStream`: it repeats it with awaits, where
   a cancellation may come.

## Not modelled

`_request` of both clients, which nothing in the repository calls. `_responses.py`
and `create` of the Chat resource, which hand arguments on. The request body, tools
and tool choice of `_converters.py`, the parsing of the model manifest, PKCE, the
account id, and the text of error messages. Two iterators over one stream. A token
the server revokes before it expires, and other programs that write the token file.
Two saves over each other leave one of the two tokens or a torn file, never a
mixture that happens to be JSON.

Contents of WebSocket frames, headers and JSON beyond the fields named above;
formatting and validation of arguments; pydantic parsing; the browser and callback
server of the login; HTTP pooling inside httpx. Exceptions that Python raises
asynchronously (`KeyboardInterrupt`) and the failure of `threading.Timer` to start.
`SessionPool` with several event loops, which the documentation rules out.

## Running

    tlc -workers 2 -config MCStreams.cfg MCWebSocketSource
    tlapm SessionLeases_proofs.tla

`tlapm` takes the same form for the other modules whose name ends in `_proofs`. From
nothing `WebSocketSource_proofs`, `AsyncWebSocketSource_proofs` and
`ResponseStream_proofs` take a few minutes each.
