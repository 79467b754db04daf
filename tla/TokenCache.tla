----------------------------- MODULE TokenCache -----------------------------
(***************************************************************************)
(* The token of a client: the copy in memory (_client.py, _headers), the   *)
(* cache file (_config.py), the refresh and the login that fill it         *)
(* (_auth.py, _async_auth.py), and the OAuth server they ask.  The callers *)
(* share one client and its file: they are threads, or the tasks of one    *)
(* event loop when the client is asynchronous.  Nothing is locked.         *)
(*                                                                         *)
(* A token is named by the numbers of its access and its refresh token,    *)
(* in the order the server issued them; access tokens expire in that order.*)
(***************************************************************************)
EXTENDS Integers, FiniteSets

CONSTANTS
  Caller,
  None,        \* Python's None
  Empty,       \* a file that was truncated and not written: no JSON
  Torn,        \* part of a token, or one with the end of another behind it: no JSON
  MaxIssued    \* bound: the tokens the server issues

ASSUME IssuedAssumption == MaxIssued \in Nat \ {0}

Token == [access : 1..MaxIssued, refresh : 0..MaxIssued]

ASSUME FileAssumption ==
  /\ None # Empty /\ None # Torn /\ Empty # Torn
  /\ {None, Empty, Torn} \cap Token = {}

VARIABLES
  asynchronous,  \* AsyncCodexClient or CodexClient
  rotates,       \* a refresh replaces the refresh token
  issued,        \* the tokens issued so far
  expired,       \* the access tokens up to this one have expired
  accepted,      \* the refresh tokens the server accepts
  file,          \* the token cache
  memory,        \* client._token
  auth,          \* the locals of each caller in _headers: see NoAuth
  harm           \* history: what has happened to saves of the file

serverVars == <<rotates, issued, expired, accepted>>
tokenVars == <<asynchronous, serverVars, file, memory, auth, harm>>

Broken == {Empty, Torn}

(* "by" says what runs the code: the caller itself, the thread of its      *)
(* login, or that thread when the task that waits for it was cancelled.    *)
NoAuth == [pc |-> "idle", token |-> None, error |-> None, by |-> "caller"]

At(c, place) == auth[c].pc = place
Become(c, r) == auth' = [auth EXCEPT ![c] = r]
Goto(c, place) == Become(c, [auth[c] EXCEPT !.pc = place])
IsFresh(token) == token.access > expired

(* A token came with an earlier login of the user; it may have expired.    *)
TokenInit ==
  /\ asynchronous \in BOOLEAN /\ rotates \in BOOLEAN
  /\ issued = 1 /\ expired \in 0..1
  /\ accepted = {1}
  /\ file \in {None, [access |-> 1, refresh |-> 1]}
  /\ memory = None
  /\ auth = [c \in Caller |-> NoAuth]
  /\ harm = {}

(* A task runs to its next await, the exchange of a token or a login in a  *)
(* thread, before another task of the loop runs.  A login handler is       *)
(* called in the task.                                                     *)
RunPoint == {"loading", "rereading", "starting", "authorizing", "truncating", "writing"}

MayRun(c) ==
  asynchronous /\ auth[c].by = "caller" =>
    \A d \in Caller \ {c} : auth[d].pc \in RunPoint => auth[d].by # "caller"

-----------------------------------------------------------------------------
(* How a caller leaves get_token.  A detached thread has nobody to answer. *)
Raise(c, error) ==
  Become(c, IF auth[c].by = "detached" THEN NoAuth
            ELSE [NoAuth EXCEPT !.pc = "failed", !.error = error])

Answer(c, token) ==
  /\ Become(c, IF auth[c].by = "detached" THEN NoAuth ELSE [NoAuth EXCEPT !.pc = "ready"])
  /\ memory' = IF auth[c].by = "detached" THEN memory ELSE token

(* _headers: the token in memory will do unless it has expired.            *)
Ask(c) ==
  /\ At(c, "idle") /\ MayRun(c)
  /\ Goto(c, IF memory # None /\ IsFresh(memory) THEN "ready" ELSE "loading")

(* get_token: an unreadable cache is an AuthError that nothing catches.    *)
Load(c) ==
  /\ At(c, "loading") /\ MayRun(c)
  /\ CASE file = None -> Goto(c, "starting") /\ UNCHANGED memory
       [] file \in Broken -> Raise(c, "AuthError") /\ UNCHANGED memory
       [] OTHER ->
            IF IsFresh(file) THEN Answer(c, file)
            ELSE /\ Become(c, [auth[c] EXCEPT !.token = file, !.pc =
                                 IF file.refresh # 0 THEN "rereading" ELSE "starting"])
                 /\ UNCHANGED memory
  /\ UNCHANGED <<asynchronous, serverVars, file, harm>>

(* load_token: a file that is there cannot be read.                         *)
ReadFailed(c) ==
  /\ auth[c].pc \in {"loading", "rereading"} /\ MayRun(c)
  /\ file # None
  /\ Raise(c, "OSError")
  /\ UNCHANGED <<asynchronous, serverVars, file, memory, harm>>

(* refresh loads the cache again, which may have broken meanwhile; it then *)
(* uses the refresh token it was given, whatever the cache says by now.    *)
Reread(c) ==
  /\ At(c, "rereading") /\ MayRun(c)
  /\ Goto(c, IF file \in Broken THEN "starting" ELSE "posting")
  /\ UNCHANGED <<asynchronous, serverVars, file, memory, harm>>

-----------------------------------------------------------------------------
(* The refresh                                                             *)

(* Mutant: an answer without a refresh token is stored as it is.           *)
RefreshTokenAsAnswered(r) == IF rotates THEN issued + 1 ELSE 0

(* An answer that names no refresh token leaves the one that was used.     *)
RefreshTokenAfter(r) == IF rotates THEN issued + 1 ELSE r

Issue(replaced) ==
  /\ issued < MaxIssued
  /\ issued' = issued + 1
  /\ accepted' = IF replaced = 0 THEN accepted \cup {issued + 1}
                 ELSE IF rotates THEN (accepted \ {replaced}) \cup {issued + 1}
                 ELSE accepted
  /\ UNCHANGED <<rotates, expired>>

Refreshed(c) ==
  LET r == auth[c].token.refresh
  IN  /\ At(c, "posting") /\ MayRun(c)
      /\ r \in accepted
      /\ Issue(r)
      /\ Become(c, [auth[c] EXCEPT !.pc = "truncating",
           !.token = [access |-> issued + 1, refresh |-> RefreshTokenAfter(r)]])
      /\ UNCHANGED <<asynchronous, file, memory, harm>>

Unanswered(c) ==
  \/ auth[c].token.refresh \in accepted /\ Issue(auth[c].token.refresh)
  \/ UNCHANGED serverVars

(* A status of 400 or more, or an answer that is no token: AuthError, and  *)
(* get_token goes on to a login.                                           *)
RefreshRejected(c) ==
  /\ At(c, "posting") /\ MayRun(c)
  /\ Unanswered(c)
  /\ Become(c, [auth[c] EXCEPT !.pc = "starting", !.token = None])
  /\ UNCHANGED <<asynchronous, file, memory, harm>>

(* The request or its answer is lost: the httpx error is no AuthError.     *)
RefreshLost(c) ==
  /\ At(c, "posting") /\ MayRun(c)
  /\ Unanswered(c)
  /\ Raise(c, "httpx")
  /\ UNCHANGED <<asynchronous, file, memory, harm>>

-----------------------------------------------------------------------------
(* The login                                                               *)

(* alogin: without a handler, login runs in a thread.                      *)
LoginInThread(c) ==
  /\ asynchronous /\ At(c, "starting") /\ auth[c].by = "caller" /\ MayRun(c)
  /\ Become(c, [auth[c] EXCEPT !.by = "thread"])
  /\ UNCHANGED <<asynchronous, serverVars, file, memory, harm>>

(* start_login; the page is opened, and the callback awaited or the user   *)
(* asked for it.                                                           *)
StartLogin(c) ==
  /\ At(c, "starting") /\ MayRun(c)
  /\ Goto(c, "authorizing")
  /\ UNCHANGED <<asynchronous, serverVars, file, memory, harm>>

(* _wait_for_callback: a second loopback server cannot bind the port.      *)
PortTaken(c) ==
  /\ At(c, "authorizing") /\ \E d \in Caller \ {c} : At(d, "authorizing")
  /\ Raise(c, "OSError")
  /\ UNCHANGED <<asynchronous, serverVars, file, memory, harm>>

(* _code_from_callback: an error, another login's state or a callback      *)
(* without a code is an AuthError.                                         *)
Callback(c) ==
  /\ At(c, "authorizing")
  /\ Goto(c, "exchanging") \/ Raise(c, "AuthError")
  /\ UNCHANGED <<asynchronous, serverVars, file, memory, harm>>

Exchanged(c) ==
  /\ At(c, "exchanging") /\ MayRun(c)
  /\ Issue(0)
  /\ Become(c, [auth[c] EXCEPT !.pc = "truncating",
                               !.token = [access |-> issued + 1, refresh |-> issued + 1]])
  /\ UNCHANGED <<asynchronous, file, memory, harm>>

ExchangeFailed(c) ==
  /\ At(c, "exchanging") /\ MayRun(c)
  /\ \E error \in {"AuthError", "httpx"} : Raise(c, error)
  /\ UNCHANGED <<asynchronous, serverVars, file, memory, harm>>

-----------------------------------------------------------------------------
(* save_token                                                              *)

(* Mutant: without O_TRUNC, the end of a longer token stays behind.        *)
OpenInPlace(c) ==
  /\ At(c, "truncating") /\ MayRun(c)
  /\ Goto(c, "writing")
  /\ UNCHANGED <<asynchronous, serverVars, file, memory, harm>>

Truncate(c) ==
  /\ At(c, "truncating") /\ MayRun(c)
  /\ file' = Empty
  /\ harm' = IF \E d \in Caller : At(d, "writing") THEN harm \cup {"overlap"} ELSE harm
  /\ Goto(c, "writing")
  /\ UNCHANGED <<asynchronous, serverVars, memory>>

(* The directory or the file cannot be made or opened for writing: the     *)
(* token of the answer is gone, and the file is what it was.               *)
OpenFailed(c) ==
  /\ At(c, "truncating") /\ MayRun(c)
  /\ Raise(c, "OSError")
  /\ UNCHANGED <<asynchronous, serverVars, file, memory, harm>>

(* The token is written from the start of the file: over another one, it   *)
(* leaves the end of that one if it is shorter.                            *)
WholeToken(c) == IF file \in {None, Empty} THEN {auth[c].token} ELSE {auth[c].token, Torn}

Write(c) ==
  /\ At(c, "writing") /\ MayRun(c)
  /\ file' \in WholeToken(c)
  /\ Answer(c, auth[c].token)
  /\ UNCHANGED <<asynchronous, serverVars, harm>>

(* write, flush or close fails with nothing or a part of the token written *)
(* over the file; or all of it is there, and the line end behind it or the *)
(* chmod fails.  The caller gets the error and no token.                   *)
WriteFailed(c) ==
  /\ At(c, "writing") /\ MayRun(c)
  /\ \/ file' \in {file, Torn} /\ harm' = harm \cup {"failure"}
     \/ file' \in WholeToken(c) /\ UNCHANGED harm
  /\ Raise(c, "OSError")
  /\ UNCHANGED <<asynchronous, serverVars, memory>>

-----------------------------------------------------------------------------
(* Cancellation of a task of the asynchronous client.  A login goes on in  *)
(* its thread, and saves what it gets, without the task.                   *)
CancelRefresh(c) ==
  /\ asynchronous /\ At(c, "posting") /\ MayRun(c)
  /\ Unanswered(c)
  /\ Raise(c, "CancelledError")
  /\ UNCHANGED <<asynchronous, file, memory, harm>>

CancelExchange(c) ==
  /\ asynchronous /\ At(c, "exchanging") /\ auth[c].by = "caller" /\ MayRun(c)
  /\ Raise(c, "CancelledError")
  /\ UNCHANGED <<asynchronous, serverVars, file, memory, harm>>

Detach(c) ==
  /\ auth[c].by = "thread"
  /\ Become(c, [auth[c] EXCEPT !.by = "detached"])
  /\ UNCHANGED <<asynchronous, serverVars, file, memory, harm>>

(* The process ends: the file is what remains.                             *)
Crash ==
  /\ auth' = [c \in Caller |-> NoAuth]
  /\ memory' = None
  /\ harm' = IF \E c \in Caller : At(c, "writing") THEN harm \cup {"crash"} ELSE harm
  /\ UNCHANGED <<asynchronous, serverVars, file>>

Expire ==
  /\ expired < issued
  /\ expired' = expired + 1
  /\ UNCHANGED <<asynchronous, rotates, issued, accepted, file, memory, auth, harm>>

AuthStep(c) ==
  \/ Load(c) \/ ReadFailed(c) \/ Reread(c)
  \/ Refreshed(c) \/ RefreshRejected(c) \/ RefreshLost(c)
  \/ LoginInThread(c) \/ StartLogin(c) \/ PortTaken(c) \/ Callback(c) \/ Exchanged(c) \/ ExchangeFailed(c)
  \/ Truncate(c) \/ OpenFailed(c) \/ Write(c) \/ WriteFailed(c)

CancelAuth(c) == CancelRefresh(c) \/ CancelExchange(c)

-----------------------------------------------------------------------------
AuthRecord ==
  [pc : {"idle", "loading", "rereading", "posting", "starting", "authorizing", "exchanging",
         "truncating", "writing", "ready", "failed"},
   token : Token \cup {None},
   error : {None, "AuthError", "httpx", "OSError", "CancelledError"},
   by : {"caller", "thread", "detached"}]

TokenTypeOK ==
  /\ asynchronous \in BOOLEAN /\ rotates \in BOOLEAN
  /\ issued \in 1..MaxIssued /\ expired \in 0..issued /\ accepted \subseteq 1..issued
  /\ file \in Token \cup Broken \cup {None}
  /\ memory \in Token \cup {None}
  /\ auth \in [Caller -> AuthRecord]
  /\ harm \subseteq {"overlap", "crash", "failure"}
  /\ \A c \in Caller :
       /\ auth[c].by # "caller" => asynchronous
       /\ auth[c].pc \in {"rereading", "posting", "truncating", "writing"} => auth[c].token # None

Saving == \E c \in Caller : auth[c].pc \in {"truncating", "writing"}

(* The cache holds a refresh token the server no longer accepts, or none,  *)
(* and no caller is about to replace it: the user has to log in again.     *)
SessionDead == file \in Token /\ file.refresh \notin accepted /\ ~Saving

(* Callers that refresh, log in and save in any order never leave a dead   *)
(* session behind: it takes an answer of the server that is lost or not    *)
(* readable, a task cancelled while it waits for that answer, or a token   *)
(* that the server gave and that is not saved, because of a crash or an    *)
(* error of the file system.                                               *)
OnlyLostTokensKillTheSession ==
  [][\/ SessionDead' => SessionDead
     \/ Crash
     \/ \E c \in Caller :
          \/ RefreshRejected(c) \/ RefreshLost(c) \/ CancelRefresh(c)
          \/ OpenFailed(c) \/ WriteFailed(c)]_tokenVars

(* A cache that is no token, and that nobody is writing, is what a crash   *)
(* during a save, a save that failed or two overlapping saves left.        *)
BrokenOnlyByBadSaves ==
  file \in Broken => Saving \/ harm # {}

(***************************************************************************)
(* What makes the two properties above inductive: the refresh token of a   *)
(* token that is being saved is accepted, and when the server rotates them *)
(* neither the file nor another caller holds it, so that nobody can use it *)
(* up before it is saved; and a writer has the empty file to itself, or    *)
(* harm says why not, as it does of a broken file that nobody writes: a    *)
(* writer that crashed, failed, or shared the file with another.           *)
(***************************************************************************)
SavedTokensAreAccepted ==
  \A c \in Caller : auth[c].pc \in {"truncating", "writing"} =>
    /\ auth[c].token.refresh \in accepted
    /\ rotates =>
         /\ file \in Token => file.refresh # auth[c].token.refresh
         /\ \A d \in Caller \ {c} : auth[d].token # None =>
              auth[d].token.refresh # auth[c].token.refresh

RefreshTokensWereIssued ==
  /\ file \in Token => file.refresh <= issued
  /\ \A c \in Caller : auth[c].token # None => auth[c].token.refresh <= issued

WritersAreSeen ==
  /\ \A c \in Caller : At(c, "writing") => file = Empty \/ harm # {}
  /\ \A c, d \in Caller : At(c, "writing") /\ At(d, "writing") /\ c # d => harm # {}
  /\ file \in Broken => harm # {} \/ \E c \in Caller : At(c, "writing")

(* The thread of a login ends with it, and so does the caller's answer.    *)
AnswersAreForCallers ==
  \A c \in Caller : auth[c].pc \in {"idle", "ready", "failed"} => auth[c].by = "caller"

TokenInv ==
  /\ TokenTypeOK /\ SavedTokensAreAccepted /\ RefreshTokensWereIssued
  /\ WritersAreSeen /\ AnswersAreForCallers
=============================================================================
