------------------------- MODULE RequestLoop_proofs -------------------------
(***************************************************************************)
(* Proofs about the token cache and the requests of a client, for any      *)
(* number of callers, retries, tokens and versions of the model list.      *)
(***************************************************************************)
EXTENDS RequestLoop, TLAPS

(* What a step of a request does to the token: it asks for one, or takes   *)
(* the answer.                                                             *)
AskStep(c) == Ask(c) /\ UNCHANGED <<asynchronous, serverVars, file, memory, harm>>

TakeAnswer(c) ==
  /\ At(c, "ready") \/ At(c, "failed")
  /\ Become(c, NoAuth)
  /\ UNCHANGED <<asynchronous, serverVars, file, memory, harm>>

TokenNext ==
  \/ \E c \in Caller : AuthStep(c) \/ CancelAuth(c) \/ Detach(c) \/ AskStep(c) \/ TakeAnswer(c)
  \/ Expire \/ Crash

(* To the token, every step of the client is one of these or none.         *)
LEMMA TokenSteps ==
  ASSUME [Next]_vars PROVE [TokenNext]_tokenVars
<1>1. CASE UNCHANGED vars
  BY <1>1 DEF vars
<1>2. ASSUME NEW c \in Caller, TokenStep(c) \/ CancelLogin(c) PROVE TokenNext
  BY <1>2 DEF TokenStep, CancelLogin, TokenNext
<1>3. ASSUME NEW c \in Caller, BeginStream(c) PROVE TokenNext
  BY <1>3 DEF BeginStream, TokenNext, AskStep
<1>4. ASSUME NEW c \in Caller, HeadersBuilt(c) PROVE TokenNext
  BY <1>4 DEF HeadersBuilt, TokenNext, TakeAnswer
<1>5. ASSUME NEW c \in Caller,
             \/ Opened(c) \/ ErrorRead(c) \/ BodyOver(c) \/ BeginList(c) \/ Fetched(c) \/ Store(c)
             \/ Awake(c) \/ Unreachable(c) \/ Return(c) \/ CancelStream(c) \/ CancelList(c)
      PROVE  UNCHANGED tokenVars
  BY <1>5 DEF Opened, ErrorRead, BodyOver, BeginList, Fetched, Store, Awake, Unreachable,
              Return, CancelStream, CancelList
<1>6. CASE Environment
  BY <1>6 DEF Environment, TokenNext
<1> QED BY <1>1, <1>2, <1>3, <1>4, <1>5, <1>6 DEF Next

-----------------------------------------------------------------------------
(* The invariant of the token cache *)

Saver(r) == r.pc \in {"truncating", "writing"}

LEMMA NoAuthType == NoAuth \in AuthRecord
  BY DEF NoAuth, AuthRecord

LEMMA TokenFields ==
  ASSUME NEW t \in Token PROVE t.access \in 1..MaxIssued /\ t.refresh \in 0..MaxIssued
  BY DEF Token

LEMMA TokensAreNoMarks ==
  ASSUME NEW t \in Token PROVE t # None /\ t \notin Broken
  BY FileAssumption DEF FileAssumption, Broken

(* A step of one caller that leaves the file and the server alone: it may  *)
(* forget its token or copy the one in the file, and save nothing new.     *)
LEMMA LocalStep ==
  ASSUME TokenInv, NEW c \in Caller, NEW r \in AuthRecord, auth' = [auth EXCEPT ![c] = r],
         UNCHANGED <<asynchronous, serverVars, file, harm>>, memory' \in Token \cup {None},
         r.by # "caller" => asynchronous,
         r.pc \in {"rereading", "posting"} => r.token # None,
         Saver(r) => r.pc = auth[c].pc /\ r.token = auth[c].token,
         auth[c].pc = "writing" => r.pc = "writing",
         r.token # None => r.token = auth[c].token \/ (r.token = file /\ file \in Token),
         r.pc \in {"idle", "ready", "failed"} => r.by = "caller"
  PROVE  TokenInv'
<1> USE DEF Saver
<1>1. /\ auth \in [Caller -> AuthRecord] /\ auth' \in [Caller -> AuthRecord]
      /\ auth'[c] = r /\ \A d \in Caller \ {c} : auth'[d] = auth[d]
  BY DEF TokenInv, TokenTypeOK
<1>2. UNCHANGED <<asynchronous, rotates, issued, expired, accepted, file, harm>>
  BY DEF serverVars
<1>3. TokenTypeOK'
  BY <1>1, <1>2 DEF TokenInv, TokenTypeOK
<1>4. SavedTokensAreAccepted'
  BY <1>1, <1>2 DEF TokenInv, SavedTokensAreAccepted
<1>5. RefreshTokensWereIssued'
  BY <1>1, <1>2 DEF TokenInv, RefreshTokensWereIssued
<1>6. WritersAreSeen'
  BY <1>1, <1>2 DEF TokenInv, WritersAreSeen, At
<1>7. AnswersAreForCallers'
  BY <1>1, <1>2 DEF TokenInv, AnswersAreForCallers
<1> QED BY <1>3, <1>4, <1>5, <1>6, <1>7 DEF TokenInv

(* What the server does when it issues a token.                            *)
LEMMA IssueFacts ==
  ASSUME TokenTypeOK, NEW used, Issue(used)
  PROVE  /\ issued' = issued + 1 /\ issued' \in 1..MaxIssued /\ expired' \in 0..issued'
         /\ UNCHANGED <<rotates, expired>>
         /\ accepted' \subseteq 1..issued'
         /\ accepted \ {used} \subseteq accepted'
         /\ used # 0 /\ ~rotates => accepted' = accepted
         /\ used = 0 \/ rotates => issued + 1 \in accepted'
         /\ \A t \in Token : t.refresh <= issued => t.refresh <= issued' /\ t.refresh # issued'
<1>1. issued \in 1..MaxIssued /\ issued < MaxIssued /\ issued' = issued + 1
  BY DEF Issue, TokenTypeOK
<1>2. issued' \in 1..MaxIssued /\ \A n \in 1..issued : n \in 1..issued'
  BY <1>1, IssuedAssumption DEF IssuedAssumption
<1>3. accepted' \subseteq accepted \cup {issued'} /\ accepted \subseteq 1..issued
  BY <1>1 DEF Issue, TokenTypeOK
<1>4. accepted' \subseteq 1..issued'
  BY <1>1, <1>2, <1>3, IssuedAssumption DEF IssuedAssumption
<1>5. expired' \in 0..issued' /\ UNCHANGED <<rotates, expired>>
  BY <1>1 DEF Issue, TokenTypeOK
<1>6. \A t \in Token : t.refresh <= issued => t.refresh <= issued' /\ t.refresh # issued'
  BY <1>1, TokenFields, IssuedAssumption DEF IssuedAssumption
<1> QED BY <1>1, <1>2, <1>4, <1>5, <1>6 DEF Issue

(* The server issues a token while one caller waits for it with a refresh  *)
(* token of its own, and the answer does not reach the caller: nobody who  *)
(* saves a token loses it.                                                 *)
LEMMA UnansweredStep ==
  ASSUME TokenInv, NEW c \in Caller, At(c, "posting"), Unanswered(c),
         NEW r \in AuthRecord, auth' = [auth EXCEPT ![c] = r], r.token = None,
         r.pc \notin {"rereading", "posting", "truncating", "writing"}, r.by # "caller" => asynchronous,
         r.pc \in {"idle", "ready", "failed"} => r.by = "caller",
         UNCHANGED <<asynchronous, file, memory, harm>>
  PROVE  TokenInv'
<1>0. auth[c].token \in Token /\ memory \in Token \cup {None}
  BY DEF TokenInv, TokenTypeOK, At, AuthRecord
<1>1. CASE UNCHANGED serverVars
  BY <1>0, <1>1, LocalStep DEF At, Saver
<1>2. CASE auth[c].token.refresh \in accepted /\ Issue(auth[c].token.refresh)
  <2> DEFINE used == auth[c].token.refresh
  <2>1. TokenTypeOK /\ used # 0
    BY <1>2 DEF TokenInv, TokenTypeOK
  <2>2. /\ auth \in [Caller -> AuthRecord] /\ auth' \in [Caller -> AuthRecord]
        /\ auth'[c] = r /\ \A d \in Caller \ {c} : auth'[d] = auth[d]
    BY <2>1 DEF TokenTypeOK
  <2>3. UNCHANGED <<asynchronous, rotates, file, memory, harm>>
    BY <1>2 DEF Issue
  <2>4. TokenTypeOK'
    BY <1>2, <2>1, <2>2, <2>3, IssueFacts DEF TokenTypeOK
  <2>5. SavedTokensAreAccepted'
    <3>1. accepted \ {used} \subseteq accepted' /\ (~rotates => accepted' = accepted)
      BY <1>2, <2>1, IssueFacts
    <3> QED BY <1>0, <2>2, <2>3, <3>1, TokensAreNoMarks DEF TokenInv, SavedTokensAreAccepted
  <2>6. RefreshTokensWereIssued'
    <3>1. \A t \in Token : t.refresh <= issued => t.refresh <= issued'
      BY <1>2, <2>1, IssueFacts
    <3> QED BY <2>2, <2>3, <3>1 DEF TokenInv, AuthRecord, RefreshTokensWereIssued
  <2>7. WritersAreSeen'
    BY <2>2, <2>3 DEF TokenInv, WritersAreSeen, At
  <2>8. AnswersAreForCallers'
    BY <2>2 DEF TokenInv, AnswersAreForCallers
  <2> QED BY <2>4, <2>5, <2>6, <2>7, <2>8 DEF TokenInv
<1> QED BY <1>1, <1>2 DEF Unanswered

(* A caller is given the token it asked for, and goes to save it.  The     *)
(* server has not issued its refresh token before, or keeps all of them.   *)
LEMMA SavingStep ==
  ASSUME TokenInv, NEW c \in Caller, auth[c].pc \in {"posting", "exchanging"},
         NEW used \in 0..MaxIssued, Issue(used),
         used # 0 => used \in accepted /\ auth[c].token # None /\ used = auth[c].token.refresh,
         NEW t \in Token,
         t.refresh = IF used = 0 \/ rotates THEN issued + 1 ELSE used,
         Become(c, [auth[c] EXCEPT !.pc = "truncating", !.token = t]),
         UNCHANGED <<asynchronous, file, memory, harm>>
  PROVE  TokenInv'
<1> DEFINE r == [auth[c] EXCEPT !.pc = "truncating", !.token = t]
<1>1. TokenTypeOK /\ auth[c] \in AuthRecord
  BY DEF TokenInv, TokenTypeOK
<1>2. /\ r \in AuthRecord /\ r.pc = "truncating" /\ r.token = t /\ r.by = auth[c].by
  BY <1>1 DEF AuthRecord
<1> HIDE DEF r
<1>3. /\ auth' \in [Caller -> AuthRecord]
      /\ auth'[c] = r /\ \A d \in Caller \ {c} : auth'[d] = auth[d]
  BY <1>1, <1>2 DEF Become, TokenTypeOK, r
<1>4. UNCHANGED <<asynchronous, rotates, file, memory, harm>>
  BY DEF Issue
<1>5. TokenTypeOK'
  BY <1>1, <1>2, <1>3, <1>4, IssueFacts, TokensAreNoMarks DEF TokenTypeOK
<1>6. SavedTokensAreAccepted'
  <2>1. t.refresh \in accepted'
    BY <1>1, IssueFacts
  <2>2. ASSUME NEW d \in Caller \ {c}, Saver(auth[d]) PROVE auth[d].token.refresh \in accepted'
    <3>1. /\ auth[d].token.refresh \in accepted /\ auth[d].token.refresh # 0
          /\ rotates /\ used # 0 => auth[d].token.refresh # used
      BY <1>1, <2>2 DEF TokenInv, SavedTokensAreAccepted, TokenTypeOK, Saver
    <3>2. accepted \ {used} \subseteq accepted' /\ (used # 0 /\ ~rotates => accepted' = accepted)
      BY <1>1, IssueFacts
    <3> QED BY <3>1, <3>2
  <2>3. ASSUME rotates, NEW u \in Token, u.refresh <= issued PROVE u.refresh # t.refresh
    BY <1>1, <2>3, IssueFacts
  <2>4. /\ file \in Token => file.refresh <= issued
        /\ \A d \in Caller : auth[d].token # None =>
             auth[d].token \in Token /\ auth[d].token.refresh <= issued
    BY <1>1 DEF TokenInv, RefreshTokensWereIssued, TokenTypeOK, AuthRecord
  <2>5. ASSUME rotates PROVE /\ file \in Token => file.refresh # t.refresh
                             /\ \A d \in Caller : auth[d].token # None => auth[d].token.refresh # t.refresh
    BY <2>3, <2>4, <2>5
  <2>6. \A d \in Caller \ {c} : Saver(auth[d]) => auth[d].token # None
    BY <1>1 DEF TokenTypeOK, Saver
  <2> QED BY <1>2, <1>3, <1>4, <2>1, <2>2, <2>5, <2>6
          DEF TokenInv, SavedTokensAreAccepted, Saver
<1>7. RefreshTokensWereIssued'
  <2>1. t.refresh <= issued'
    BY <1>1, IssueFacts DEF TokenTypeOK
  <2>2. \A u \in Token : u.refresh <= issued => u.refresh <= issued'
    BY <1>1, IssueFacts
  <2> QED BY <1>2, <1>3, <1>4, <2>1, <2>2 DEF TokenInv, TokenTypeOK, AuthRecord, RefreshTokensWereIssued
<1>8. WritersAreSeen'
  BY <1>2, <1>3, <1>4 DEF TokenInv, WritersAreSeen, At
<1>9. AnswersAreForCallers'
  BY <1>2, <1>3 DEF TokenInv, AnswersAreForCallers
<1> QED BY <1>5, <1>6, <1>7, <1>8, <1>9 DEF TokenInv

-----------------------------------------------------------------------------
(* The steps of get_token, of the refresh, the login and save_token        *)

LEMMA RaiseRecord ==
  ASSUME NEW c \in Caller, NEW error \in {"AuthError", "httpx", "OSError", "CancelledError"}, Raise(c, error)
  PROVE  \E r \in AuthRecord :
           /\ auth' = [auth EXCEPT ![c] = r] /\ r.token = None /\ r.by = "caller"
           /\ r.pc = IF auth[c].by = "detached" THEN "idle" ELSE "failed"
<1>1. NoAuth \in AuthRecord /\ [NoAuth EXCEPT !.pc = "failed", !.error = error] \in AuthRecord
  BY DEF NoAuth, AuthRecord
<1> QED BY <1>1 DEF Raise, Become, NoAuth

LEMMA AnswerRecord ==
  ASSUME NEW c \in Caller, NEW t, Answer(c, t)
  PROVE  /\ memory' \in {memory, t}
         /\ \E r \in AuthRecord :
              /\ auth' = [auth EXCEPT ![c] = r] /\ r.token = None /\ r.by = "caller"
              /\ r.pc = IF auth[c].by = "detached" THEN "idle" ELSE "ready"
<1>1. NoAuth \in AuthRecord /\ [NoAuth EXCEPT !.pc = "ready"] \in AuthRecord
  BY DEF NoAuth, AuthRecord
<1> QED BY <1>1 DEF Answer, Become, NoAuth

LEMMA GotoRecord ==
  ASSUME TokenInv, NEW c \in Caller, NEW place \in {"idle", "loading", "rereading", "posting",
           "starting", "authorizing", "exchanging", "truncating", "writing", "ready", "failed"},
         Goto(c, place)
  PROVE  \E r \in AuthRecord :
           /\ auth' = [auth EXCEPT ![c] = r] /\ r.pc = place
           /\ r.token = auth[c].token /\ r.by = auth[c].by
<1>1. auth[c] \in AuthRecord
  BY DEF TokenInv, TokenTypeOK
<1>2. [auth[c] EXCEPT !.pc = place] \in AuthRecord
  BY <1>1 DEF AuthRecord
<1> QED BY <1>1, <1>2 DEF Goto, Become, AuthRecord

LEMMA LoadStep ==
  ASSUME TokenInv, NEW c \in Caller, Load(c) PROVE TokenInv'
<1> USE DEF Saver, At
<1>1. /\ UNCHANGED <<asynchronous, serverVars, file, harm>> /\ auth[c].pc = "loading"
      /\ memory \in Token \cup {None} /\ auth[c] \in AuthRecord
      /\ auth[c].by # "caller" => asynchronous
  BY DEF Load, TokenInv, TokenTypeOK
<1>2. CASE Goto(c, "starting") /\ UNCHANGED memory
  BY <1>1, <1>2, GotoRecord, LocalStep
<1>3. CASE Raise(c, "AuthError") /\ UNCHANGED memory
  BY <1>1, <1>3, RaiseRecord, LocalStep
<1>4. CASE file \in Token /\ Answer(c, file)
  BY <1>1, <1>4, AnswerRecord, LocalStep
<1>5. ASSUME file \in Token, UNCHANGED memory, NEW place \in {"rereading", "starting"},
             Become(c, [auth[c] EXCEPT !.token = file, !.pc = place])
      PROVE  TokenInv'
  <2> DEFINE r == [auth[c] EXCEPT !.token = file, !.pc = place]
  <2>1. r \in AuthRecord /\ r.pc = place /\ r.token = file /\ r.by = auth[c].by
    BY <1>1, <1>5 DEF AuthRecord
  <2> QED BY <1>1, <1>5, <2>1, LocalStep, TokensAreNoMarks DEF Become
<1>6. file \in Token \cup Broken \cup {None}
  BY DEF TokenInv, TokenTypeOK
<1> QED BY <1>2, <1>3, <1>4, <1>5, <1>6 DEF Load

(* The steps that only move a caller on, or end its call for a token.      *)
LEMMA MovingStep ==
  ASSUME TokenInv, NEW c \in Caller,
         \/ ReadFailed(c) \/ Reread(c) \/ LoginInThread(c) \/ StartLogin(c) \/ PortTaken(c)
         \/ Callback(c) \/ OpenFailed(c) \/ ExchangeFailed(c) \/ CancelExchange(c) \/ Detach(c) \/ AskStep(c) \/ TakeAnswer(c)
  PROVE  TokenInv'
<1> USE DEF Saver, At
<1>1. /\ memory \in Token \cup {None} /\ auth[c] \in AuthRecord
      /\ auth[c].by # "caller" => asynchronous
      /\ auth[c].pc \in {"idle", "ready", "failed"} => auth[c].by = "caller"
  BY DEF TokenInv, TokenTypeOK, AnswersAreForCallers
<1>2. CASE Reread(c)
  <2>1. auth[c].pc = "rereading" /\ UNCHANGED <<asynchronous, serverVars, file, memory, harm>>
    BY <1>2 DEF Reread
  <2>2. Goto(c, "starting") \/ Goto(c, "posting")
    BY <1>2 DEF Reread
  <2>3. auth[c].token # None
    BY <2>1 DEF TokenInv, TokenTypeOK
  <2> QED BY <1>1, <2>1, <2>2, <2>3, GotoRecord, LocalStep
<1>3. CASE LoginInThread(c)
  <2>1. /\ auth[c].pc = "starting" /\ asynchronous
        /\ UNCHANGED <<asynchronous, serverVars, file, memory, harm>>
        /\ auth' = [auth EXCEPT ![c] = [auth[c] EXCEPT !.by = "thread"]]
    BY <1>3 DEF LoginInThread, Become
  <2>2. [auth[c] EXCEPT !.by = "thread"] \in AuthRecord
    BY <1>1 DEF AuthRecord
  <2> QED BY <1>1, <2>1, <2>2, LocalStep DEF AuthRecord
<1>4. CASE StartLogin(c)
  <2>1. /\ auth[c].pc = "starting" /\ Goto(c, "authorizing")
        /\ UNCHANGED <<asynchronous, serverVars, file, memory, harm>>
    BY <1>4 DEF StartLogin
  <2> QED BY <1>1, <2>1, GotoRecord, LocalStep
<1>5. CASE \/ ReadFailed(c) \/ PortTaken(c) \/ Callback(c) \/ OpenFailed(c)
           \/ ExchangeFailed(c) \/ CancelExchange(c)
  <2>1. /\ auth[c].pc \in {"loading", "rereading", "authorizing", "exchanging", "truncating"}
        /\ UNCHANGED <<asynchronous, serverVars, file, memory, harm>>
        /\ \/ Goto(c, "exchanging")
           \/ \E error \in {"AuthError", "httpx", "OSError", "CancelledError"} : Raise(c, error)
    BY <1>5 DEF ReadFailed, PortTaken, Callback, OpenFailed, ExchangeFailed, CancelExchange
  <2>2. CASE Goto(c, "exchanging")
    BY <1>1, <2>1, <2>2, GotoRecord, LocalStep
  <2>3. CASE \E error \in {"AuthError", "httpx", "OSError", "CancelledError"} : Raise(c, error)
    BY <1>1, <2>1, <2>3, RaiseRecord, LocalStep
  <2> QED BY <2>1, <2>2, <2>3
<1>6. CASE Detach(c)
  <2>1. /\ auth[c].by = "thread"
        /\ UNCHANGED <<asynchronous, serverVars, file, memory, harm>>
        /\ auth' = [auth EXCEPT ![c] = [auth[c] EXCEPT !.by = "detached"]]
    BY <1>6 DEF Detach, Become
  <2>2. [auth[c] EXCEPT !.by = "detached"] \in AuthRecord
    BY <1>1 DEF AuthRecord
  <2>3. auth[c].pc \in {"rereading", "posting"} => auth[c].token # None
    BY DEF TokenInv, TokenTypeOK
  <2> QED BY <1>1, <2>1, <2>2, <2>3, LocalStep DEF AuthRecord
<1>7. CASE AskStep(c)
  <2>1. /\ auth[c].pc = "idle" /\ UNCHANGED <<asynchronous, serverVars, file, memory, harm>>
        /\ Goto(c, "ready") \/ Goto(c, "loading")
    BY <1>7 DEF AskStep, Ask
  <2> QED BY <1>1, <2>1, GotoRecord, LocalStep
<1>8. CASE TakeAnswer(c)
  <2>1. /\ auth[c].pc \in {"ready", "failed"} /\ UNCHANGED <<asynchronous, serverVars, file, memory, harm>>
        /\ auth' = [auth EXCEPT ![c] = NoAuth]
    BY <1>8 DEF TakeAnswer, Become
  <2> QED BY <1>1, <2>1, NoAuthType, LocalStep DEF NoAuth
<1> QED BY <1>2, <1>3, <1>4, <1>5, <1>6, <1>7, <1>8

LEMMA RefreshStep ==
  ASSUME TokenInv, NEW c \in Caller,
         Refreshed(c) \/ RefreshRejected(c) \/ RefreshLost(c) \/ CancelRefresh(c) \/ Exchanged(c)
  PROVE  TokenInv'
<1>1. auth[c] \in AuthRecord /\ (auth[c].by # "caller" => asynchronous)
  BY DEF TokenInv, TokenTypeOK
<1>2. CASE Refreshed(c)
  <2> DEFINE used == auth[c].token.refresh
             t == [access |-> issued + 1, refresh |-> RefreshTokenAfter(used)]
  <2>1. used \in accepted /\ Issue(used) /\ auth[c].pc = "posting"
    BY <1>2 DEF Refreshed, At
  <2>2. used \in 1..MaxIssued /\ auth[c].token # None /\ issued + 1 \in 1..MaxIssued
    <3>1. issued \in 1..MaxIssued /\ issued < MaxIssued /\ accepted \subseteq 1..issued
      BY <2>1 DEF TokenInv, TokenTypeOK, Issue
    <3>2. used \in 1..issued
      BY <2>1, <3>1
    <3> HIDE DEF used
    <3>3. used \in 1..MaxIssued /\ issued + 1 \in 1..MaxIssued
      BY <3>1, <3>2, IssuedAssumption DEF IssuedAssumption
    <3> QED BY <2>1, <3>3 DEF TokenInv, TokenTypeOK
  <2>3. t \in Token /\ t.refresh = IF used = 0 \/ rotates THEN issued + 1 ELSE used
    BY <2>2 DEF Token, RefreshTokenAfter
  <2>4. /\ Become(c, [auth[c] EXCEPT !.pc = "truncating", !.token = t])
        /\ UNCHANGED <<asynchronous, file, memory, harm>>
    BY <1>2 DEF Refreshed
  <2>5. used \in 0..MaxIssued
    BY <2>2
  <2> HIDE DEF t
  <2> QED BY <2>1, <2>2, <2>3, <2>4, <2>5, SavingStep
<1>3. CASE RefreshRejected(c)
  <2> DEFINE r == [auth[c] EXCEPT !.pc = "starting", !.token = None]
  <2>1. r \in AuthRecord /\ r.pc = "starting" /\ r.token = None /\ r.by = auth[c].by
    BY <1>1 DEF AuthRecord
  <2> HIDE DEF r
  <2>2. auth' = [auth EXCEPT ![c] = r]
    BY <1>3 DEF RefreshRejected, Become, r
  <2>3. At(c, "posting") /\ Unanswered(c) /\ UNCHANGED <<asynchronous, file, memory, harm>>
    BY <1>3 DEF RefreshRejected
  <2> QED BY <1>1, <2>1, <2>2, <2>3, UnansweredStep
<1>4. CASE RefreshLost(c) \/ CancelRefresh(c)
  <2>1. /\ At(c, "posting") /\ Unanswered(c) /\ UNCHANGED <<asynchronous, file, memory, harm>>
        /\ Raise(c, "httpx") \/ Raise(c, "CancelledError")
    BY <1>4 DEF RefreshLost, CancelRefresh
  <2> QED BY <1>1, <2>1, RaiseRecord, UnansweredStep
<1>5. CASE Exchanged(c)
  <2> DEFINE t == [access |-> issued + 1, refresh |-> issued + 1]
  <2>1. Issue(0) /\ auth[c].pc = "exchanging"
    BY <1>5 DEF Exchanged, At
  <2>2. issued + 1 \in 1..MaxIssued /\ 0 \in 0..MaxIssued
    BY <2>1, IssuedAssumption DEF IssuedAssumption, TokenInv, TokenTypeOK, Issue
  <2>3. t \in Token /\ t.refresh = issued + 1
    BY <2>2 DEF Token
  <2> QED BY <1>5, <2>1, <2>2, <2>3, SavingStep DEF Exchanged
<1> QED BY <1>2, <1>3, <1>4, <1>5

(* save_token truncates the file: a second writer is seen as an overlap.   *)
LEMMA TruncateStep ==
  ASSUME TokenInv, NEW c \in Caller, Truncate(c) PROVE TokenInv'
<1>1. PICK r \in AuthRecord :
        /\ auth' = [auth EXCEPT ![c] = r] /\ r.pc = "writing"
        /\ r.token = auth[c].token /\ r.by = auth[c].by
  BY GotoRecord DEF Truncate
<1>2. /\ auth \in [Caller -> AuthRecord] /\ auth' \in [Caller -> AuthRecord]
      /\ auth'[c] = r /\ \A d \in Caller \ {c} : auth'[d] = auth[d]
  BY <1>1 DEF TokenInv, TokenTypeOK
<1>3. /\ auth[c].pc = "truncating" /\ file' = Empty /\ Empty \notin Token
      /\ UNCHANGED <<asynchronous, rotates, issued, expired, accepted, memory>>
  BY FileAssumption DEF FileAssumption, Truncate, At, serverVars
<1>4. harm \subseteq harm' /\ harm' \subseteq harm \cup {"overlap"}
  BY DEF Truncate
<1>5. ASSUME NEW d \in Caller, At(d, "writing") PROVE harm' # {}
  BY <1>5 DEF Truncate
<1>6. TokenTypeOK'
  BY <1>1, <1>2, <1>3, <1>4 DEF TokenInv, TokenTypeOK, Broken
<1>7. SavedTokensAreAccepted'
  BY <1>1, <1>2, <1>3 DEF TokenInv, SavedTokensAreAccepted
<1>8. RefreshTokensWereIssued'
  BY <1>1, <1>2, <1>3 DEF TokenInv, RefreshTokensWereIssued
<1>9. WritersAreSeen'
  BY <1>1, <1>2, <1>3, <1>5 DEF TokenInv, WritersAreSeen, At
<1>10. AnswersAreForCallers'
  BY <1>1, <1>2 DEF TokenInv, AnswersAreForCallers
<1> QED BY <1>6, <1>7, <1>8, <1>9, <1>10 DEF TokenInv

(* A writer is done, with its token in the file or with an end that is     *)
(* recorded: another writer was seen before, or the write has failed.      *)
LEMMA WriterIsDone ==
  ASSUME TokenInv, NEW c \in Caller, At(c, "writing"),
         NEW r \in AuthRecord, auth' = [auth EXCEPT ![c] = r], r.token = None, r.by = "caller",
         r.pc \in {"idle", "ready", "failed"},
         memory' = memory \/ memory' = auth[c].token,
         UNCHANGED <<asynchronous, serverVars>>,
         harm \subseteq harm', harm' \subseteq harm \cup {"failure"},
         file' = auth[c].token \/ (file' \in {file, Torn} /\ harm' # {})
  PROVE  TokenInv'
<1> DEFINE t == auth[c].token
<1>1. t \in Token /\ auth[c].pc = "writing" /\ memory \in Token \cup {None}
  BY DEF TokenInv, TokenTypeOK, AuthRecord, At
<1>2. /\ auth \in [Caller -> AuthRecord] /\ auth' \in [Caller -> AuthRecord]
      /\ auth'[c] = r /\ \A d \in Caller \ {c} : auth'[d] = auth[d]
  BY DEF TokenInv, TokenTypeOK
<1>3. UNCHANGED <<asynchronous, rotates, issued, expired, accepted>>
  BY DEF serverVars
<1>4. t.refresh <= issued /\ t \notin Broken /\ t # Empty
  BY <1>1, TokensAreNoMarks DEF TokenInv, RefreshTokensWereIssued, Broken
<1>5. Torn \notin Token /\ Torn \in Broken
  BY FileAssumption DEF FileAssumption, Broken
<1>6. file' \in {t, file, Torn}
  OBVIOUS
<1>7. TokenTypeOK'
  <2>1. file' \in Token \cup Broken \cup {None} /\ memory' \in Token \cup {None}
    BY <1>1, <1>5, <1>6 DEF TokenInv, TokenTypeOK
  <2>2. harm' \subseteq {"overlap", "crash", "failure"}
    BY DEF TokenInv, TokenTypeOK
  <2> QED BY <1>2, <1>3, <2>1, <2>2 DEF TokenInv, TokenTypeOK
<1>8. SavedTokensAreAccepted'
  <2>1. ASSUME NEW d \in Caller \ {c}, Saver(auth[d]), rotates PROVE auth[d].token.refresh # t.refresh
    BY <1>1, <2>1, TokensAreNoMarks DEF TokenInv, SavedTokensAreAccepted, Saver
  <2> QED BY <1>2, <1>3, <1>5, <1>6, <2>1 DEF TokenInv, SavedTokensAreAccepted, Saver
<1>9. RefreshTokensWereIssued'
  BY <1>2, <1>3, <1>4, <1>5, <1>6 DEF TokenInv, RefreshTokensWereIssued
<1>10. WritersAreSeen'
  <2>1. harm' = {} => file' = t /\ \A d \in Caller \ {c} : auth[d].pc # "writing"
    BY <1>1 DEF TokenInv, WritersAreSeen, At
  <2> QED BY <1>2, <1>4, <2>1 DEF WritersAreSeen, At
<1>11. AnswersAreForCallers'
  BY <1>2 DEF TokenInv, AnswersAreForCallers
<1> QED BY <1>7, <1>8, <1>9, <1>10, <1>11 DEF TokenInv

(* What is written is read back, unless another writer's token was there   *)
(* or the write has failed.                                                *)
LEMMA WriteStep ==
  ASSUME TokenInv, NEW c \in Caller, Write(c) \/ WriteFailed(c) PROVE TokenInv'
<1>1. At(c, "writing") /\ UNCHANGED <<asynchronous, serverVars>>
  BY DEF Write, WriteFailed
<1>2. WholeToken(c) \subseteq {auth[c].token} \cup (IF harm = {} THEN {} ELSE {Torn})
  BY <1>1 DEF TokenInv, WritersAreSeen, WholeToken
<1>3. CASE Write(c)
  <2>1. /\ file' \in WholeToken(c) /\ harm' = harm
        /\ memory' = memory \/ memory' = auth[c].token
    BY <1>3, AnswerRecord DEF Write
  <2>2. PICK r \in AuthRecord :
          /\ auth' = [auth EXCEPT ![c] = r] /\ r.token = None /\ r.by = "caller"
          /\ r.pc \in {"idle", "ready"}
    BY <1>3, AnswerRecord DEF Write
  <2> QED BY <1>1, <1>2, <2>1, <2>2, WriterIsDone
<1>4. CASE WriteFailed(c)
  <2>1. /\ memory' = memory
        /\ \/ file' \in {file, Torn} /\ harm' = harm \cup {"failure"}
           \/ file' \in WholeToken(c) /\ harm' = harm
    BY <1>4 DEF WriteFailed
  <2>2. PICK r \in AuthRecord :
          /\ auth' = [auth EXCEPT ![c] = r] /\ r.token = None /\ r.by = "caller"
          /\ r.pc \in {"idle", "failed"}
    BY <1>4, RaiseRecord DEF WriteFailed
  <2> QED BY <1>1, <1>2, <2>1, <2>2, WriterIsDone
<1> QED BY <1>3, <1>4

(* A crash while the file is written is seen as one.                       *)
LEMMA CrashStep ==
  ASSUME TokenInv, Crash PROVE TokenInv'
<1>1. /\ auth' \in [Caller -> AuthRecord] /\ \A c \in Caller : auth'[c] = NoAuth
      /\ memory' = None /\ harm \subseteq harm' /\ harm' \subseteq harm \cup {"crash"}
      /\ UNCHANGED <<asynchronous, rotates, issued, expired, accepted, file>>
  BY NoAuthType DEF Crash, serverVars
<1>2. ASSUME NEW c \in Caller, At(c, "writing") PROVE harm' # {}
  BY <1>2 DEF Crash
<1>3. TokenTypeOK'
  BY <1>1 DEF TokenInv, TokenTypeOK, NoAuth
<1>4. SavedTokensAreAccepted' /\ AnswersAreForCallers'
  BY <1>1 DEF SavedTokensAreAccepted, AnswersAreForCallers, NoAuth
<1>5. RefreshTokensWereIssued'
  BY <1>1 DEF TokenInv, RefreshTokensWereIssued, NoAuth
<1>6. WritersAreSeen'
  BY <1>1, <1>2 DEF TokenInv, WritersAreSeen, At, NoAuth
<1> QED BY <1>3, <1>4, <1>5, <1>6 DEF TokenInv

LEMMA ExpireStep ==
  ASSUME TokenInv, Expire PROVE TokenInv'
<1>1. UNCHANGED <<asynchronous, rotates, issued, accepted, file, memory, auth, harm>>
  BY DEF Expire
<1>2. expired' \in 0..issued
  BY DEF Expire, TokenInv, TokenTypeOK
<1>3. TokenTypeOK'
  BY <1>1, <1>2 DEF TokenInv, TokenTypeOK
<1> QED BY <1>1, <1>3 DEF TokenInv, SavedTokensAreAccepted, RefreshTokensWereIssued,
                          WritersAreSeen, AnswersAreForCallers, At

LEMMA TokenInvInit == TokenInit => TokenInv
<1> SUFFICES ASSUME TokenInit PROVE TokenInv
  OBVIOUS
<1>1. 1 \in 1..MaxIssued /\ [access |-> 1, refresh |-> 1] \in Token
  BY IssuedAssumption DEF IssuedAssumption, Token
<1>2. auth = [c \in Caller |-> NoAuth]
  BY DEF TokenInit
<1>3. auth \in [Caller -> AuthRecord]
  BY <1>2, NoAuthType
<1>4. TokenTypeOK
  BY <1>1, <1>2, <1>3 DEF TokenInit, TokenTypeOK, NoAuth
<1>5. file \notin Broken
  BY <1>1, TokensAreNoMarks, FileAssumption DEF TokenInit, FileAssumption, Broken
<1>6. RefreshTokensWereIssued
  BY <1>1, <1>2, FileAssumption DEF TokenInit, RefreshTokensWereIssued, NoAuth, FileAssumption
<1> QED BY <1>2, <1>4, <1>5, <1>6 DEF TokenInv, SavedTokensAreAccepted, WritersAreSeen,
                                     AnswersAreForCallers, At, NoAuth

LEMMA TokenInvStep ==
  ASSUME TokenInv, [TokenNext]_tokenVars PROVE TokenInv'
<1>1. CASE UNCHANGED tokenVars
  BY <1>1 DEF TokenInv, TokenTypeOK, SavedTokensAreAccepted, RefreshTokensWereIssued,
              WritersAreSeen, AnswersAreForCallers, At, tokenVars, serverVars
<1>2. ASSUME NEW c \in Caller, AuthStep(c) \/ CancelAuth(c) \/ Detach(c) \/ AskStep(c) \/ TakeAnswer(c)
      PROVE  TokenInv'
  BY <1>2, LoadStep, MovingStep, RefreshStep, TruncateStep, WriteStep DEF AuthStep, CancelAuth
<1> QED BY <1>1, <1>2, CrashStep, ExpireStep DEF TokenNext

(* The files and tokens of a client keep their types, a token being saved  *)
(* is accepted and nobody else's, and a broken file has a writer or a      *)
(* history of a crash, an overlap or a failed write: the inductive         *)
(* invariant of the token cache.                                           *)
THEOREM TokenInvariant == Spec => []TokenInv
<1>1. Init => TokenInv
  BY TokenInvInit DEF Init
<1>2. TokenInv /\ [Next]_vars => TokenInv'
  BY TokenSteps, TokenInvStep
<1> QED BY <1>1, <1>2, PTL DEF Spec

(* A token cache that is no token, and that nobody is writing, is what a   *)
(* crash in save_token, an error of its write, flush or close, or two      *)
(* overlapping saves left.                                                 *)
THEOREM BrokenFilesHaveACause == Spec => []BrokenOnlyByBadSaves
<1>1. TokenInv => BrokenOnlyByBadSaves
  BY DEF TokenInv, WritersAreSeen, BrokenOnlyByBadSaves, Saving, At
<1> QED BY <1>1, TokenInvariant, PTL

-----------------------------------------------------------------------------
(* Who can end a session *)

(* A step that leaves the file and the server alone, and saves no less.    *)
LEMMA StillDead ==
  ASSUME UNCHANGED <<file, accepted>>, SessionDead', Saving => Saving'
  PROVE  SessionDead
  BY DEF SessionDead

LEMMA MovingKeepsSaving ==
  ASSUME TokenInv, NEW c \in Caller, Saving,
         \/ Load(c) \/ ReadFailed(c) \/ Reread(c) \/ LoginInThread(c) \/ StartLogin(c) \/ PortTaken(c) \/ Callback(c)
         \/ ExchangeFailed(c) \/ CancelExchange(c) \/ Detach(c) \/ AskStep(c) \/ TakeAnswer(c)
  PROVE  Saving'
<1>1. PICK d \in Caller : auth[d].pc \in {"truncating", "writing"}
  BY DEF Saving
<1>2. auth \in [Caller -> AuthRecord]
  BY DEF TokenInv, TokenTypeOK
<1>3. PICK r : auth' = [auth EXCEPT ![c] = r] /\ (auth[c].pc \in {"truncating", "writing"} => r.pc = auth[c].pc)
  <2>1. CASE Detach(c)
    <3>1. auth' = [auth EXCEPT ![c] = [auth[c] EXCEPT !.by = "detached"]]
      BY <2>1 DEF Detach, Become
    <3>2. [auth[c] EXCEPT !.by = "detached"].pc = auth[c].pc
      BY <1>2 DEF AuthRecord
    <3> QED BY <3>1, <3>2
  <2>2. CASE ~Detach(c)
    <3>1. auth[c].pc \notin {"truncating", "writing"}
      BY <2>2 DEF Load, ReadFailed, Reread, LoginInThread, StartLogin, PortTaken, Callback, ExchangeFailed,
                  CancelExchange, AskStep, Ask, TakeAnswer, At
    <3>2. \E r : auth' = [auth EXCEPT ![c] = r]
      BY <2>2 DEF Load, ReadFailed, Reread, LoginInThread, StartLogin, PortTaken, Callback, ExchangeFailed,
                  CancelExchange, AskStep, Ask, TakeAnswer, Goto, Become, Raise, Answer
    <3> QED BY <3>1, <3>2
  <2> QED BY <2>1, <2>2
<1>4. auth'[d].pc = auth[d].pc
  BY <1>1, <1>2, <1>3
<1> QED BY <1>1, <1>4 DEF Saving

LEMMA DeathStep ==
  ASSUME TokenInv, TokenInv', [TokenNext]_tokenVars, SessionDead', ~SessionDead
  PROVE  \/ Crash
         \/ \E c \in Caller :
              \/ RefreshRejected(c) \/ RefreshLost(c) \/ CancelRefresh(c)
              \/ OpenFailed(c) \/ WriteFailed(c)
<1>1. ~Saving'
  BY DEF SessionDead
<1>2. CASE UNCHANGED tokenVars
  BY <1>2, StillDead DEF tokenVars, serverVars, Saving
<1>3. ASSUME NEW c \in Caller,
             \/ Load(c) \/ ReadFailed(c) \/ Reread(c) \/ LoginInThread(c) \/ StartLogin(c) \/ PortTaken(c) \/ Callback(c)
             \/ ExchangeFailed(c) \/ CancelExchange(c) \/ Detach(c) \/ AskStep(c) \/ TakeAnswer(c)
      PROVE  FALSE
  <2>1. UNCHANGED <<file, accepted>>
    BY <1>3 DEF Load, ReadFailed, Reread, LoginInThread, StartLogin, PortTaken, Callback, ExchangeFailed,
                CancelExchange, Detach, AskStep, TakeAnswer, serverVars
  <2> QED BY <1>3, <2>1, StillDead, MovingKeepsSaving
<1>4. ASSUME NEW c \in Caller, Refreshed(c) \/ Exchanged(c) \/ Truncate(c) PROVE FALSE
  <2>1. auth \in [Caller -> AuthRecord]
    BY DEF TokenInv, TokenTypeOK
  <2>2. auth'[c].pc \in {"truncating", "writing"}
    <3>1. CASE Refreshed(c)
      BY <2>1, <3>1 DEF Refreshed, Become, AuthRecord
    <3>2. CASE Exchanged(c)
      BY <2>1, <3>2 DEF Exchanged, Become, AuthRecord
    <3>3. CASE Truncate(c)
      BY <2>1, <3>3 DEF Truncate, Goto, Become, AuthRecord
    <3> QED BY <1>4, <3>1, <3>2, <3>3
  <2> QED BY <1>1, <2>2 DEF Saving
<1>5. ASSUME NEW c \in Caller, Write(c) PROVE FALSE
  <2>1. auth[c].token \in Token /\ auth[c].token.refresh \in accepted
    BY <1>5 DEF Write, At, TokenInv, TokenTypeOK, AuthRecord, SavedTokensAreAccepted
  <2>2. accepted' = accepted /\ file' \in {auth[c].token, Torn} /\ file' \in Token
    BY <1>5 DEF Write, WholeToken, serverVars, SessionDead
  <2>3. Torn \notin Token
    BY FileAssumption DEF FileAssumption
  <2> QED BY <2>1, <2>2, <2>3 DEF SessionDead
<1>6. CASE Expire
  BY <1>6, StillDead DEF Expire, Saving
<1> QED BY <1>2, <1>3, <1>4, <1>5, <1>6 DEF TokenNext, AuthStep, CancelAuth

(* Callers that refresh, log in and save in any order never leave a dead   *)
(* session behind: only a lost or unreadable answer of the server, a task  *)
(* cancelled while it waits for that answer, or a token that a crash or an *)
(* error of the file system keeps out of the file does.                    *)
THEOREM SessionsDieOnlyOfLostTokens == Spec => OnlyLostTokensKillTheSession
<1>1. TokenInv /\ TokenInv' /\ [Next]_vars =>
        [\/ SessionDead' => SessionDead
         \/ Crash
         \/ \E c \in Caller :
              \/ RefreshRejected(c) \/ RefreshLost(c) \/ CancelRefresh(c)
              \/ OpenFailed(c) \/ WriteFailed(c)]_tokenVars
  BY TokenSteps, DeathStep
<1> QED BY <1>1, TokenInvariant, PTL DEF Spec, OnlyLostTokensKillTheSession

-----------------------------------------------------------------------------
(* The retry loop *)

LEMMA BackoffType ==
  ASSUME NEW n \in Nat PROVE Backoff(n) \in Nat
<1>1. CASE n >= 3
  BY <1>1 DEF Backoff
<1>2. CASE n < 3
  <2>1. n = 0 \/ n = 1 \/ n = 2
    BY <1>2
  <2>2. 2^0 = 1
    OBVIOUS
  <2>3. 2^1 = 2
    OBVIOUS
  <2>4. 2^2 = 4
    OBVIOUS
  <2>5. 2^n \in {1, 2, 4}
    BY <2>1, <2>2, <2>3, <2>4, Zenon
  <2> QED BY <1>2, <2>5 DEF Backoff
<1> QED BY <1>1, <1>2

(* A delay the server asks for is no less than none at all.                *)
LEMMA AskedType ==
  ASSUME NEW error \in Errors \cup {ConnectionError} PROVE error.after \in Nat \cup {None}
<1>1. CASE error = ConnectionError
  BY <1>1 DEF ConnectionError
<1>2. CASE error \in Errors
  <2>1. PICK status \in Status, quota \in BOOLEAN, ms \in Header \cup {None}, seconds \in Header \cup {None} :
          error = ErrorFrom(status, quota, ms, seconds)
    BY <1>2 DEF Errors
  <2>2. RetryAfter(ms, seconds) \in Nat \cup {None}
    BY RetryAssumption DEF RetryAssumption, RetryAfter
  <2> QED BY <2>1, <2>2 DEF ErrorFrom
<1> QED BY <1>1, <1>2

(* What the record of a call has to say, with the list at this version.    *)
Sound(r) ==
  /\ r \in CallRecord
  /\ r.pc = "sleeping" => /\ r.attempt < MaxRetries /\ r.delay >= r.asked
                          /\ kind = "stream" => r.delay <= MaxRetryDelay
  /\ r.served => r.pc = "body"
  /\ r.open => r.pc \in {"reading", "body"}
  /\ r.since <= registry /\ r.list <= registry
  /\ r.list # 0 => r.list >= r.since

LEMMA CallsAreSound ==
  ASSUME CallInv, NEW c \in Caller PROVE Sound(call[c])
  BY DEF CallInv, TypeOK, CallsAreOrdered, RetryBoundary, NeverSoonerThanAsked, Sound, Doing

LEMMA SoundCalls ==
  ASSUME TokenInv', TokensAreAwaited', (kind \in {"stream", "models"})', (registry \in 1..MaxRegistry)',
         (models \in [list : 0..registry, recent : BOOLEAN])',
         (call \in [Caller -> CallRecord])', \A c \in Caller : Sound(call[c])'
  PROVE  CallInv'
<1>1. \A c \in Caller : (At(c, "ready") \/ At(c, "failed") => Doing(c, "headers"))'
  BY DEF TokenInv, AnswersAreForCallers, TokensAreAwaited, At
<1>2. TypeOK'
  BY <1>1 DEF TypeOK, TokenInv
<1>3. RetryBoundary' /\ NeverSoonerThanAsked' /\ CallsAreOrdered'
  BY DEF Sound, RetryBoundary, NeverSoonerThanAsked, CallsAreOrdered, Doing
<1> QED BY <1>2, <1>3 DEF CallInv

(* A step that replaces the record of one call.                            *)
LEMMA OneCall ==
  ASSUME CallInv, TokenInv', TokensAreAwaited', NEW c \in Caller, NEW r, Set(c, r), Sound(r),
         UNCHANGED <<kind, registry>>, models' \in [list : 0..registry, recent : BOOLEAN]
  PROVE  CallInv'
<1>1. /\ kind \in {"stream", "models"} /\ registry \in 1..MaxRegistry
      /\ call \in [Caller -> CallRecord]
  BY DEF CallInv, TypeOK
<1>2. r \in CallRecord
  BY DEF Sound
<1>3. /\ call' \in [Caller -> CallRecord]
      /\ call'[c] = r /\ \A d \in Caller \ {c} : call'[d] = call[d]
  BY <1>1, <1>2 DEF Set
<1>4. \A d \in Caller : Sound(call[d])
  BY CallsAreSound
<1>5. \A d \in Caller : Sound(call'[d])
  BY <1>3, <1>4
<1>6. \A d \in Caller : Sound(call[d])'
  BY <1>5 DEF Sound
<1> QED BY <1>1, <1>3, <1>6, SoundCalls

(* A caller that does not wait for a token, or begins to, leaves the       *)
(* others waiting for theirs.                                              *)
LEMMA StillAwaited ==
  ASSUME CallInv, NEW c \in Caller, NEW r, Set(c, r), Sound(r), UNCHANGED auth,
         ~Doing(c, "headers")
  PROVE  TokensAreAwaited'
<1>1. call \in [Caller -> CallRecord]
  BY DEF CallInv, TypeOK
<1>2. \A d \in Caller \ {c} : call'[d] = call[d]
  BY <1>1 DEF Set
<1> QED BY <1>2 DEF CallInv, TokensAreAwaited, Doing

LEMMA EndedIsSound ==
  ASSUME CallInv, NEW c \in Caller,
         NEW result \in {None, "CodexError", "AuthError", "httpx", "OSError", "CancelledError"}
  PROVE  Sound(Ended(c, result))
<1>1. Sound(call[c])
  BY CallsAreSound
<1>2. 0 \in 0..MaxRetries /\ 0 \in Nat
  BY RetryAssumption DEF RetryAssumption
<1> QED BY <1>1, <1>2 DEF Sound, Ended, NoCall, CallRecord

(* After a failure the call waits long enough and not too long, with an    *)
(* attempt left, or it is over.                                            *)
LEMMA RetryIsSound ==
  ASSUME CallInv, NEW c \in Caller, ~call[c].served \/ call[c].pc # "body",
         NEW error \in Errors \cup {ConnectionError}, RetryOrRaise(c, error)
  PROVE  \E r : Set(c, r) /\ Sound(r)
<1>1. Sound(call[c]) /\ call[c].attempt \in Nat /\ call[c] \in CallRecord
  BY CallsAreSound, RetryAssumption DEF RetryAssumption, Sound, CallRecord
<1>2. error.after \in Nat \cup {None}
  BY AskedType
<1>3. Delay(call[c].attempt, error) \in Nat
  BY <1>1, <1>2, BackoffType DEF Delay
<1>4. CASE MayRetry(c, error)
  <2> DEFINE asked == IF error.after = None THEN 0 ELSE error.after
             delay == Delay(call[c].attempt, error)
  <2>1. asked \in Nat /\ delay >= asked
    BY <1>2, <1>3 DEF Delay
  <2>2. call[c].attempt < MaxRetries /\ (kind = "stream" => delay <= MaxRetryDelay)
    BY <1>3, <1>4, RetryAssumption DEF RetryAssumption, MayRetry, TooLong
  <2>3. Set(c, [call[c] EXCEPT !.pc = "sleeping", !.open = FALSE, !.delay = delay, !.asked = asked])
    BY <1>4 DEF RetryOrRaise, Sleeping
  <2>4. delay \in Nat
    BY <1>3
  <2> HIDE DEF asked, delay
  <2>5. Sound([call[c] EXCEPT !.pc = "sleeping", !.open = FALSE, !.delay = delay, !.asked = asked])
    BY <1>1, <2>1, <2>2, <2>4 DEF Sound, CallRecord
  <2> QED BY <2>3, <2>5
<1>5. CASE ~MayRetry(c, error)
  BY <1>5, EndedIsSound DEF RetryOrRaise
<1> QED BY <1>4, <1>5

-----------------------------------------------------------------------------
(* The steps of the requests *)

LEMMA ListType ==
  ASSUME CallInv
  PROVE  /\ models \in [list : 0..registry, recent : BOOLEAN] /\ models.list \in 0..MaxRegistry
         /\ registry \in 1..MaxRegistry
<1>1. models \in [list : 0..registry, recent : BOOLEAN] /\ registry \in 1..MaxRegistry
  BY DEF CallInv, TypeOK
<1>2. models.list \in 0..registry
  BY <1>1
<1>3. 0..registry \subseteq 0..MaxRegistry
  BY <1>1, RetryAssumption DEF RetryAssumption
<1> QED BY <1>1, <1>2, <1>3

(* The steps of a request that is no longer, or not yet, waiting for its   *)
(* headers and is replaced by a sound record.                              *)
LEMMA QuietStep ==
  ASSUME CallInv, TokenInv', NEW c \in Caller, ~Doing(c, "headers"),
         \E r : Set(c, r) /\ Sound(r), UNCHANGED <<tokenVars, kind, registry>>,
         models' \in [list : 0..registry, recent : BOOLEAN]
  PROVE  CallInv'
  BY StillAwaited, OneCall DEF tokenVars

LEMMA NoCallType ==
  /\ NoCall \in CallRecord /\ NoCall.open = FALSE /\ NoCall.served = FALSE
  /\ NoCall.since = 0 /\ NoCall.list = 0 /\ NoCall.pc = "idle" /\ NoCall.result = None
<1>1. 0 \in 0..MaxRetries /\ 0 \in Nat /\ 0 \in 0..MaxRegistry
  BY RetryAssumption DEF RetryAssumption
<1> QED BY <1>1 DEF NoCall, CallRecord

LEMMA NewCallIsSound ==
  ASSUME CallInv, NEW place \in {"headers", "opening", "ended"},
         NEW since \in 0..registry, NEW list \in 0..registry
  PROVE  /\ Sound(NoCall) /\ Sound([NoCall EXCEPT !.pc = place])
         /\ Sound([NoCall EXCEPT !.pc = place, !.since = since])
         /\ Sound([NoCall EXCEPT !.pc = place, !.list = list])
<1>1. registry \in 1..MaxRegistry /\ 0 <= registry
  BY ListType
<1>2. since \in 0..MaxRegistry /\ list \in 0..MaxRegistry /\ since <= registry /\ list <= registry
      /\ list >= 0
  BY <1>1, RetryAssumption DEF RetryAssumption
<1>3. ASSUME NEW r \in CallRecord, r.open = FALSE, r.served = FALSE, r.since = 0, r.list = 0,
             r.pc = "idle"
      PROVE  /\ Sound(r) /\ Sound([r EXCEPT !.pc = place])
             /\ Sound([r EXCEPT !.pc = place, !.since = since])
             /\ Sound([r EXCEPT !.pc = place, !.list = list])
  <2>1. Sound(r) /\ Sound([r EXCEPT !.pc = place])
    BY <1>1, <1>3 DEF Sound, CallRecord
  <2>2. Sound([r EXCEPT !.pc = place, !.since = since])
    BY <1>1, <1>2, <1>3 DEF Sound, CallRecord
  <2>3. Sound([r EXCEPT !.pc = place, !.list = list])
    BY <1>1, <1>2, <1>3 DEF Sound, CallRecord
  <2> QED BY <2>1, <2>2, <2>3
<1> QED BY <1>3, NoCallType

LEMMA StreamSteps ==
  ASSUME CallInv, TokenInv', NEW c \in Caller,
         Opened(c) \/ ErrorRead(c) \/ BodyOver(c) \/ CancelStream(c)
  PROVE  CallInv'
<1>1. /\ ~Doing(c, "headers") /\ UNCHANGED <<tokenVars, kind, registry, models>>
  BY DEF Opened, ErrorRead, BodyOver, CancelStream, Doing, listVars
<1>2. models' \in [list : 0..registry, recent : BOOLEAN]
  BY <1>1, ListType
<1>3. Sound(call[c])
  BY CallsAreSound
<1>4. CASE Opened(c)
  <2>1. call[c].pc = "opening"
    BY <1>4 DEF Opened, Doing
  <2>2. Sound([call[c] EXCEPT !.pc = "body", !.open = TRUE, !.served = TRUE])
    BY <1>3, <2>1 DEF Sound, CallRecord
  <2>3. Sound([call[c] EXCEPT !.pc = "reading", !.open = TRUE])
    BY <1>3, <2>1 DEF Sound, CallRecord
  <2>4. \E r : Set(c, r) /\ Sound(r)
    BY <1>4, <2>2, <2>3 DEF Opened
  <2> QED BY <1>1, <1>2, <2>4, QuietStep
<1>5. CASE ErrorRead(c)
  <2>1. \E r : Set(c, r) /\ Sound(r)
    <3>1. ASSUME NEW error \in Errors, RetryOrRaise(c, error) PROVE \E r : Set(c, r) /\ Sound(r)
      BY <1>5, <3>1, RetryIsSound DEF ErrorRead, Doing
    <3> QED BY <1>5, <3>1, EndedIsSound DEF ErrorRead, End
  <2> QED BY <1>1, <1>2, <2>1, QuietStep
<1>6. CASE BodyOver(c) \/ CancelStream(c)
  <2>1. \E r : Set(c, r) /\ Sound(r)
    BY <1>6, EndedIsSound DEF BodyOver, CancelStream, End
  <2> QED BY <1>1, <1>2, <2>1, QuietStep
<1> QED BY <1>4, <1>5, <1>6

LEMMA RetrySteps ==
  ASSUME CallInv, TokenInv', NEW c \in Caller, Awake(c) \/ Unreachable(c) \/ Return(c)
  PROVE  CallInv'
<1>1. /\ ~Doing(c, "headers") /\ UNCHANGED <<tokenVars, kind, registry, models>>
  BY DEF Awake, Unreachable, Return, Doing, listVars
<1>2. models' \in [list : 0..registry, recent : BOOLEAN]
  BY <1>1, ListType
<1>3. \E r : Set(c, r) /\ Sound(r)
  <2>1. CASE Awake(c)
    <3>1. Sound(call[c]) /\ call[c].pc = "sleeping" /\ call[c].attempt + 1 \in 0..MaxRetries
      BY <2>1, CallsAreSound, RetryAssumption DEF RetryAssumption, Sound, CallRecord, Awake, Doing
    <3>2. Sound([call[c] EXCEPT !.pc = "opening", !.attempt = @ + 1, !.delay = 0, !.asked = 0])
      BY <3>1 DEF Sound, CallRecord
    <3> QED BY <2>1, <3>2 DEF Awake
  <2>2. CASE Unreachable(c)
    BY <2>2, RetryIsSound DEF Unreachable, Doing
  <2>3. CASE Return(c)
    <3>1. 0 \in 0..registry
      BY ListType
    <3> QED BY <2>3, <3>1, NewCallIsSound DEF Return
  <2> QED BY <2>1, <2>2, <2>3
<1> QED BY <1>1, <1>2, <1>3, QuietStep

LEMMA ListSteps ==
  ASSUME CallInv, TokenInv', NEW c \in Caller,
         BeginList(c) \/ Fetched(c) \/ Store(c) \/ CancelList(c)
  PROVE  CallInv'
<1>1. ~Doing(c, "headers") /\ UNCHANGED <<tokenVars, kind, registry>>
  BY DEF BeginList, Fetched, Store, CancelList, Doing, listVars
<1>2. Sound(call[c]) /\ models \in [list : 0..registry, recent : BOOLEAN] /\ registry \in 1..MaxRegistry
  BY CallsAreSound, ListType
<1>3. CASE BeginList(c)
  <2>1. models.list \in 0..registry /\ registry \in 0..registry
    BY <1>2
  <2>2. \E r : Set(c, r) /\ Sound(r)
    BY <1>3, <2>1, NewCallIsSound DEF BeginList
  <2> QED BY <1>1, <1>2, <1>3, <2>2, QuietStep DEF BeginList, listVars
<1>4. CASE Fetched(c)
  <2>1. call[c].pc = "opening"
    BY <1>4 DEF Fetched, Doing
  <2>2. Sound([call[c] EXCEPT !.pc = "storing", !.list = registry])
    <3>1. registry \in 0..MaxRegistry /\ registry <= registry
      BY <1>2, RetryAssumption DEF RetryAssumption
    <3>2. call[c].since <= registry /\ registry >= call[c].since
      BY <1>2, <3>1 DEF Sound, CallRecord
    <3> QED BY <1>2, <2>1, <3>1, <3>2 DEF Sound, CallRecord
  <2>3. ASSUME NEW error \in Errors, RetryOrRaise(c, error) PROVE \E r : Set(c, r) /\ Sound(r)
    BY <2>1, <2>3, RetryIsSound
  <2>4. \E r : Set(c, r) /\ Sound(r)
    BY <1>4, <2>2, <2>3, EndedIsSound DEF Fetched, End
  <2> QED BY <1>1, <1>2, <1>4, <2>4, QuietStep DEF Fetched, listVars
<1>5. CASE Store(c)
  <2>1. \E r : Set(c, r) /\ Sound(r)
    BY <1>5, EndedIsSound DEF Store, End
  <2>2. call[c].list \in 0..registry
    BY <1>2 DEF Sound, CallRecord
  <2>3. models' \in [list : 0..registry, recent : BOOLEAN]
    BY <1>5, <2>2 DEF Store
  <2> QED BY <1>1, <2>1, <2>3, QuietStep
<1>6. CASE CancelList(c)
  <2>1. \E r : Set(c, r) /\ Sound(r)
    BY <1>6, EndedIsSound DEF CancelList, End
  <2> QED BY <1>1, <1>2, <1>6, <2>1, QuietStep DEF CancelList, listVars
<1> QED BY <1>3, <1>4, <1>5, <1>6

(* The request that waits for its headers, and how it stops to wait.       *)
LEMMA HeaderSteps ==
  ASSUME CallInv, TokenInv, TokenInv', NEW c \in Caller,
         BeginStream(c) \/ HeadersBuilt(c) \/ CancelLogin(c)
  PROVE  CallInv'
<1>1. UNCHANGED <<kind, registry, models>>
  BY DEF BeginStream, HeadersBuilt, CancelLogin, listVars
<1>2. /\ Sound(call[c]) /\ models' \in [list : 0..registry, recent : BOOLEAN]
      /\ 0 \in 0..registry /\ call \in [Caller -> CallRecord]
      /\ auth \in [Caller -> AuthRecord] /\ auth' \in [Caller -> AuthRecord]
  BY <1>1, CallsAreSound, ListType DEF CallInv, TypeOK, TokenInv, TokenTypeOK
<1>3. CASE BeginStream(c)
  <2> DEFINE r == [NoCall EXCEPT !.pc = "headers"]
  <2>1. Set(c, r) /\ Sound(r)
    BY <1>2, <1>3, NewCallIsSound DEF BeginStream
  <2>2. r.pc = "headers"
    BY NoCallType DEF CallRecord
  <2>3. \A d \in Caller \ {c} : auth'[d] = auth[d] /\ call'[d] = call[d]
    BY <1>2, <1>3 DEF BeginStream, Ask, Goto, Become, Set
  <2>4. TokensAreAwaited'
    BY <1>2, <2>1, <2>2, <2>3 DEF CallInv, TokensAreAwaited, Doing, Set
  <2> QED BY <1>1, <1>2, <2>1, <2>4, OneCall
<1>4. CASE HeadersBuilt(c)
  <2>1. Sound([call[c] EXCEPT !.pc = "opening"])
    BY <1>2, <1>4 DEF Sound, CallRecord, HeadersBuilt, Doing
  <2>2. (IF auth[c].error = "AuthError" THEN "CodexError" ELSE auth[c].error)
          \in {None, "CodexError", "AuthError", "httpx", "OSError", "CancelledError"}
    BY <1>2 DEF AuthRecord
  <2>3. PICK r : Set(c, r) /\ Sound(r)
    BY <1>4, <2>1, <2>2, EndedIsSound DEF HeadersBuilt, Step, End
  <2>4. \A d \in Caller \ {c} : auth'[d] = auth[d] /\ call'[d] = call[d]
    BY <1>2, <1>4, <2>3 DEF HeadersBuilt, Become, Set
  <2>5. auth'[c].pc = "idle"
    BY <1>2, <1>4 DEF HeadersBuilt, Become, NoAuth
  <2>6. TokensAreAwaited'
    BY <2>4, <2>5 DEF CallInv, TokensAreAwaited, Doing
  <2> QED BY <1>1, <1>2, <2>3, <2>6, OneCall
<1>5. CASE CancelLogin(c)
  <2>1. PICK r : Set(c, r) /\ Sound(r)
    BY <1>5, EndedIsSound DEF CancelLogin, End
  <2>2. \A d \in Caller \ {c} : auth'[d] = auth[d] /\ call'[d] = call[d]
    BY <1>2, <1>5, <2>1 DEF CancelLogin, Detach, Become, Set
  <2>3. auth'[c].by = "detached"
    BY <1>2, <1>5 DEF CancelLogin, Detach, Become, AuthRecord
  <2>4. TokensAreAwaited'
    BY <2>2, <2>3 DEF CallInv, TokensAreAwaited, Doing
  <2> QED BY <1>1, <1>2, <2>1, <2>4, OneCall
<1> QED BY <1>3, <1>4, <1>5

(* A caller whose token is on its way waits for it, whoever else asks.     *)
LEMMA TokenKeepsAwaited ==
  ASSUME CallInv, TokenInv, NEW c \in Caller, AuthStep(c) \/ CancelAuth(c), UNCHANGED call
  PROVE  TokensAreAwaited'
<1>1. auth \in [Caller -> AuthRecord]
  BY DEF TokenInv, TokenTypeOK
<1>2. \E r : /\ auth' = [auth EXCEPT ![c] = r]
             /\ r.pc # "idle" /\ r.by # "detached" => auth[c].pc # "idle" /\ auth[c].by # "detached"
  <2>1. auth[c].pc # "idle"
    BY DEF AuthStep, CancelAuth, Load, ReadFailed, Reread, Refreshed, RefreshRejected, RefreshLost,
           LoginInThread, StartLogin, PortTaken, Callback, Exchanged, ExchangeFailed,
           Truncate, OpenFailed, Write, WriteFailed, CancelRefresh, CancelExchange, At
  <2>2. ASSUME NEW error \in {"AuthError", "httpx", "OSError", "CancelledError"}, Raise(c, error)
        PROVE  \E r : auth' = [auth EXCEPT ![c] = r] /\ (r.pc # "idle" => auth[c].by # "detached")
    BY <2>2, RaiseRecord
  <2>3. ASSUME NEW t, Answer(c, t)
        PROVE  \E r : auth' = [auth EXCEPT ![c] = r] /\ (r.pc # "idle" => auth[c].by # "detached")
    BY <2>3, AnswerRecord
  <2>4. ASSUME NEW place, Goto(c, place)
        PROVE  \E r : auth' = [auth EXCEPT ![c] = r] /\ r.by = auth[c].by
    BY <1>1, <2>4 DEF Goto, Become, AuthRecord
  <2>5. ASSUME NEW place, NEW t, Become(c, [auth[c] EXCEPT !.pc = place, !.token = t])
        PROVE  \E r : auth' = [auth EXCEPT ![c] = r] /\ r.by = auth[c].by
    BY <1>1, <2>5 DEF Become, AuthRecord
  <2>6. CASE LoginInThread(c)
    BY <2>1, <2>6 DEF LoginInThread, Become
  <2>7. CASE Refreshed(c) \/ RefreshRejected(c) \/ Exchanged(c)
    BY <2>1, <2>5, <2>7 DEF Refreshed, RefreshRejected, Exchanged
  <2>8. CASE Reread(c) \/ StartLogin(c) \/ Truncate(c)
    BY <2>1, <2>4, <2>8 DEF Reread, StartLogin, Truncate
  <2>9. CASE \/ ReadFailed(c) \/ RefreshLost(c) \/ PortTaken(c) \/ ExchangeFailed(c)
             \/ OpenFailed(c) \/ WriteFailed(c) \/ CancelRefresh(c) \/ CancelExchange(c)
    BY <2>1, <2>2, <2>9 DEF ReadFailed, RefreshLost, PortTaken, ExchangeFailed, OpenFailed,
                            WriteFailed, CancelRefresh, CancelExchange
  <2>10. CASE Callback(c)
    BY <2>1, <2>2, <2>4, <2>10 DEF Callback
  <2>11. CASE Write(c)
    BY <2>1, <2>3, <2>11 DEF Write
  <2>12. CASE Load(c)
    <3>1. ASSUME NEW place, Become(c, [auth[c] EXCEPT !.token = file, !.pc = place])
          PROVE  \E r : auth' = [auth EXCEPT ![c] = r] /\ r.by = auth[c].by
      BY <1>1, <3>1 DEF Become, AuthRecord
    <3> QED BY <2>1, <2>2, <2>3, <2>4, <2>12, <3>1 DEF Load
  <2> QED BY <2>6, <2>7, <2>8, <2>9, <2>10, <2>11, <2>12 DEF AuthStep, CancelAuth
<1> QED BY <1>1, <1>2 DEF CallInv, TokensAreAwaited, Doing

LEMMA CallInvStep ==
  ASSUME CallInv, TokenInv, TokenInv', [Next]_vars PROVE CallInv'
<1>1. /\ models \in [list : 0..registry, recent : BOOLEAN] /\ registry \in 1..MaxRegistry
      /\ kind \in {"stream", "models"} /\ call \in [Caller -> CallRecord]
      /\ \A c \in Caller : Sound(call[c])
  BY CallsAreSound DEF CallInv, TypeOK
<1>2. CASE UNCHANGED vars
  BY <1>2 DEF vars, listVars, tokenVars, serverVars, CallInv, TypeOK, TokenTypeOK, TokensAreAwaited,
              CallsAreOrdered, RetryBoundary, NeverSoonerThanAsked, Doing, At
<1>3. ASSUME NEW c \in Caller, TokenStep(c) PROVE CallInv'
  <2>1. UNCHANGED <<call, kind, registry, models>> /\ (AuthStep(c) \/ CancelAuth(c))
    BY <1>3 DEF TokenStep, listVars
  <2>2. TokensAreAwaited'
    BY <2>1, TokenKeepsAwaited
  <2>3. \A d \in Caller : Sound(call[d])'
    BY <1>1, <2>1 DEF Sound
  <2> QED BY <1>1, <2>1, <2>2, <2>3, SoundCalls
<1>4. CASE Environment
  <2>1. CASE UNCHANGED <<call, kind, registry, models, auth>>
    <3>1. TokensAreAwaited'
      BY <2>1 DEF CallInv, TokensAreAwaited, Doing
    <3>2. \A d \in Caller : Sound(call[d])'
      BY <1>1, <2>1 DEF Sound
    <3> QED BY <1>1, <2>1, <3>1, <3>2, SoundCalls
  <2>2. CASE registry < MaxRegistry /\ registry' = registry + 1 /\ UNCHANGED <<tokenVars, kind, call, models>>
    <3>1. TokensAreAwaited'
      BY <2>2 DEF CallInv, TokensAreAwaited, Doing, tokenVars
    <3>2. \A d \in Caller : Sound(call[d])'
      BY <1>1, <2>2 DEF Sound, CallRecord
    <3>3. (registry \in 1..MaxRegistry)' /\ (models \in [list : 0..registry, recent : BOOLEAN])'
      BY <1>1, <2>2, RetryAssumption DEF RetryAssumption
    <3> QED BY <1>1, <2>2, <3>1, <3>2, <3>3, SoundCalls
  <2>3. CASE models' = [models EXCEPT !.recent = FALSE] /\ UNCHANGED <<tokenVars, kind, call, registry>>
    <3>1. TokensAreAwaited'
      BY <2>3 DEF CallInv, TokensAreAwaited, Doing, tokenVars
    <3>2. \A d \in Caller : Sound(call[d])'
      BY <1>1, <2>3 DEF Sound
    <3>3. (models \in [list : 0..registry, recent : BOOLEAN])'
      BY <1>1, <2>3
    <3> QED BY <1>1, <2>3, <3>1, <3>2, <3>3, SoundCalls
  <2>4. CASE /\ Crash /\ call' = [c \in Caller |-> NoCall] /\ models' = [list |-> 0, recent |-> FALSE]
             /\ UNCHANGED <<kind, registry>>
    <3>1. TokensAreAwaited'
      BY <2>4 DEF Crash, NoAuth, TokensAreAwaited, Doing
    <3>2. \A d \in Caller : Sound(call[d])'
      BY <1>1, <2>4, NoCallType DEF Sound
    <3>3. (models \in [list : 0..registry, recent : BOOLEAN])'
      BY <1>1, <2>4
    <3>4. (call \in [Caller -> CallRecord])'
      BY <2>4, NoCallType
    <3> QED BY <1>1, <2>4, <3>1, <3>2, <3>3, <3>4, SoundCalls
  <2> QED BY <1>4, <2>1, <2>2, <2>3, <2>4 DEF Environment, Expire, listVars
<1> QED BY <1>2, <1>3, <1>4, StreamSteps, RetrySteps, ListSteps, HeaderSteps DEF Next

LEMMA CallInvInit == Init => CallInv
<1> SUFFICES ASSUME Init PROVE CallInv
  OBVIOUS
<1>1. TokenInv /\ \A c \in Caller : auth[c] = NoAuth
  BY TokenInvInit DEF Init, TokenInit
<1>2. /\ call \in [Caller -> CallRecord] /\ \A c \in Caller : call[c] = NoCall
      /\ registry = 1 /\ models \in [list : 0..registry, recent : BOOLEAN]
      /\ 1 \in 1..MaxRegistry
  BY NoCallType, RetryAssumption DEF Init, RetryAssumption
<1>3. TypeOK
  BY <1>1, <1>2 DEF Init, TypeOK, TokenInv, NoAuth, At
<1>4. TokensAreAwaited
  BY <1>1 DEF TokensAreAwaited, NoAuth
<1>5. CallsAreOrdered /\ RetryBoundary /\ NeverSoonerThanAsked
  BY <1>2, NoCallType DEF CallsAreOrdered, RetryBoundary, NeverSoonerThanAsked, Doing
<1> QED BY <1>3, <1>4, <1>5 DEF CallInv

(* The invariant of the requests of a client, with that of their tokens.   *)
THEOREM CallInvariant == Spec => []CallInv
<1>1. TokenInv /\ TokenInv' /\ CallInv /\ [Next]_vars => CallInv'
  BY CallInvStep
<1> QED BY <1>1, CallInvInit, TokenInvariant, PTL DEF Spec

(* The state of the client keeps its types; no call makes more than        *)
(* max_retries attempts after its first.                                   *)
THEOREM TypeInvariant == Spec => []TypeOK
<1>1. CallInv => TypeOK
  BY DEF CallInv
<1> QED BY <1>1, CallInvariant, PTL

(* docs/streaming.md, "Retry boundary": nothing is sent again once the     *)
(* body of an answer is read, and no response stays open while the client  *)
(* waits to retry or when the call is over.                                *)
THEOREM RetriesKeepTheBoundary == Spec => []RetryBoundary
<1>1. CallInv => RetryBoundary
  BY DEF CallInv
<1> QED BY <1>1, CallInvariant, PTL

(* A retry never comes sooner than the server asked for, and no stream     *)
(* waits longer than max_retry_delay.                                      *)
THEOREM RetriesWaitLongEnough == Spec => []NeverSoonerThanAsked
<1>1. CallInv => NeverSoonerThanAsked
  BY DEF CallInv
<1> QED BY <1>1, CallInvariant, PTL

(* A fetched model list is at least as new as the one published when it    *)
(* was asked for, whatever slower fetches put into the cache.              *)
THEOREM FetchesAreCurrent == Spec => []FetchIsCurrent
<1>1. CallInv => FetchIsCurrent
  BY DEF CallInv, CallsAreOrdered, FetchIsCurrent
<1> QED BY <1>1, CallInvariant, PTL

-----------------------------------------------------------------------------
(* Exceptions that leave the package *)

(* Only the steps of a call that waits for its headers, or reads the body  *)
(* of an error, can end it with anything but a CodexError or its           *)
(* cancellation.                                                           *)
LEMMA RawErrorStep ==
  ASSUME TypeOK, [Next]_vars, NEW c \in Caller,
         call'[c].result \in {"httpx", "OSError"}, call[c].result = None
  PROVE  call[c].pc \in {"headers", "reading"}
<1> SUFFICES ASSUME ~Doing(c, "headers"), ~Doing(c, "reading") PROVE FALSE
  BY DEF Doing
<1>1. call \in [Caller -> CallRecord] /\ None \notin {"httpx", "OSError"}
  BY RetryAssumption DEF RetryAssumption, TypeOK
<1>2. ASSUME NEW d \in Caller, NEW r, Set(d, r), d = c => r.result \in {None, "CodexError", "CancelledError"}
      PROVE  FALSE
  BY <1>1, <1>2 DEF Set
<1>3. ASSUME NEW d \in Caller, NEW result \in {None, "CodexError", "CancelledError"}, End(d, result)
      PROVE  FALSE
  <2>1. Ended(d, result).result = result
    BY NoCallType DEF Ended, CallRecord
  <2> QED BY <1>2, <1>3, <2>1 DEF End
<1>4. ASSUME NEW d \in Caller, NEW error, RetryOrRaise(d, error) PROVE FALSE
  <2>1. CASE MayRetry(d, error)
    <3>1. Sleeping(d, Delay(call[d].attempt, error), error).result = call[d].result
      BY <1>1 DEF Sleeping, CallRecord
    <3> QED BY <1>2, <1>4, <2>1, <3>1 DEF RetryOrRaise
  <2>2. CASE ~MayRetry(d, error)
    BY <1>3, <1>4, <2>2 DEF RetryOrRaise, End
  <2> QED BY <2>1, <2>2
<1>5. CASE UNCHANGED call
  BY <1>1, <1>5
<1>6. ASSUME NEW d \in Caller, BeginStream(d) \/ BeginList(d) \/ Return(d) PROVE FALSE
  <2>1. ASSUME NEW r \in CallRecord, NEW p, NEW n
        PROVE  /\ [r EXCEPT !.pc = p].result = r.result
               /\ [r EXCEPT !.pc = p, !.list = n].result = r.result
               /\ [r EXCEPT !.pc = p, !.since = n].result = r.result
    BY DEF CallRecord
  <2>2. \E r : Set(d, r) /\ r.result = None
    <3>1. /\ [NoCall EXCEPT !.pc = "headers"].result = None
          /\ [NoCall EXCEPT !.pc = "ended", !.list = models.list].result = None
          /\ [NoCall EXCEPT !.pc = "opening", !.since = registry].result = None
      BY <2>1, NoCallType
    <3> QED BY <1>6, <3>1, NoCallType DEF BeginStream, BeginList, Return
  <2> QED BY <1>2, <2>2
<1>7. ASSUME NEW d \in Caller, HeadersBuilt(d) \/ ErrorRead(d) PROVE FALSE
  <2>1. d # c
    BY <1>7 DEF HeadersBuilt, ErrorRead
  <2>2. \E r : Set(d, r)
    BY <1>7 DEF HeadersBuilt, ErrorRead, Step, End, RetryOrRaise
  <2> QED BY <1>2, <2>1, <2>2
<1>8. ASSUME NEW d \in Caller, Opened(d) \/ Awake(d) PROVE FALSE
  <2>1. \E r : Set(d, r) /\ r.result = call[d].result
    <3>1. [call[d] EXCEPT !.pc = "body", !.open = TRUE, !.served = TRUE].result = call[d].result
      BY <1>1 DEF CallRecord
    <3>2. [call[d] EXCEPT !.pc = "reading", !.open = TRUE].result = call[d].result
      BY <1>1 DEF CallRecord
    <3>3. [call[d] EXCEPT !.pc = "opening", !.attempt = @ + 1, !.delay = 0, !.asked = 0].result = call[d].result
      BY <1>1 DEF CallRecord
    <3> QED BY <1>8, <3>1, <3>2, <3>3 DEF Opened, Awake
  <2> QED BY <1>2, <2>1
<1>9. ASSUME NEW d \in Caller, Fetched(d) PROVE FALSE
  <2>1. [call[d] EXCEPT !.pc = "storing", !.list = registry].result = call[d].result
    BY <1>1 DEF CallRecord
  <2> QED BY <1>2, <1>3, <1>4, <1>9, <2>1 DEF Fetched
<1>10. ASSUME NEW d \in Caller, Unreachable(d) \/ BodyOver(d) \/ Store(d)
                                \/ CancelStream(d) \/ CancelList(d) \/ CancelLogin(d)
       PROVE  FALSE
  BY <1>3, <1>4, <1>10 DEF Unreachable, BodyOver, Store, CancelStream, CancelList, CancelLogin
<1>11. ASSUME NEW d \in Caller, TokenStep(d) PROVE FALSE
  BY <1>5, <1>11 DEF TokenStep
<1>12. CASE Environment
  <2>1. CASE call' = [d \in Caller |-> NoCall]
    BY <1>1, <2>1, NoCallType
  <2> QED BY <1>5, <1>12, <2>1 DEF Environment
<1> QED BY <1>5, <1>6, <1>7, <1>8, <1>9, <1>10, <1>11, <1>12 DEF Next, vars

(* An exception that is no CodexError reaches a caller only while its      *)
(* token is obtained, or from the body of an error answer.                 *)
THEOREM RawErrorsHaveTwoSources == Spec => RawErrorsComeFromTokensAndErrorBodies
<1>1. TypeOK /\ [Next]_vars =>
        [\A c \in Caller :
           call'[c].result \in {"httpx", "OSError"} /\ call[c].result = None =>
             call[c].pc \in {"headers", "reading"}]_vars
  BY RawErrorStep
<1> QED BY <1>1, TypeInvariant, PTL DEF Spec, RawErrorsComeFromTokensAndErrorBodies
=============================================================================
