-------------------------------- MODULE OMAuth --------------------------------
(***************************************************************************)
(* Authentication and retries of OMClient (om_client/client.py) in the     *)
(* worker's process.  The token cache and one asyncio.Lock are module      *)
(* variables, shared by tasks that run in different threads, each in an    *)
(* event loop of its own (asyncio.run in worker/tasks.py).  A loop has one *)
(* coroutine, so threads stand for loops.  The lock is CPython 3.12's, not *)
(* made for threads, and 3.12 switches threads at calls and jumps back, so *)
(* a test of a global and its use right after it are one step.             *)
(***************************************************************************)
EXTENDS Integers

CONSTANTS
  Threads,
  StaticToken,   \* OM_JWT_TOKEN: "none", "blank" (white space) or "set"
  NoLoop,        \* the lock is bound to no loop yet
  ClosedLoop,    \* it is bound to the loop of a task that has ended
  MaxLogins,     \* bound: successful logins
  MaxExpiries    \* bound: times OpenMetadata stops accepting all its tokens

ASSUME LoopAssumption == {NoLoop, ClosedLoop} \cap Threads = {} /\ NoLoop # ClosedLoop
ASSUME StaticTokenAssumption == StaticToken \in {"none", "blank", "set"}
ASSUME BoundsAssumption == MaxLogins \in Nat /\ MaxExpiries \in Nat

VARIABLES
  cachedToken,   \* _cached_token
  locked,        \* the lock: _locked, whether _waiters was made (by the first
  contended,     \* contended acquire), the waiters whose future is set, and
  woken,         \* the loop it is bound to
  boundTo,
  issued,        \* OpenMetadata: newest token, newest token it refuses
  expired,
  expiries,
  pc,            \* per thread
  header,        \* the token in its client's header; none: opening the client
  fresh,         \* the token its login returned
  triesLeft,     \* attempts of its request, the running one included
  refusals       \* history: how often it was answered 401 and refreshed

lockVars   == <<locked, contended, woken, boundTo>>
serverVars == <<issued, expired, expiries>>
callVars   == <<header, fresh, triesLeft, refusals>>
vars       == <<cachedToken, lockVars, serverVars, pc, callVars>>

\* Tokens are numbered as issued; the bot token is older than the first login.
NoToken  == 0
BotToken == 1

GetAttempts == 3   \* stop_after_attempt(3) of _get; _post has no retry

Init ==
  /\ cachedToken = NoToken
  /\ locked = FALSE /\ contended = FALSE /\ woken = {} /\ boundTo = NoLoop
  /\ issued = BotToken /\ expired = NoToken /\ expiries = 0
  /\ pc = [w \in Threads |-> "idle"]
  /\ header = [w \in Threads |-> NoToken]
  /\ fresh = [w \in Threads |-> NoToken]
  /\ triesLeft = [w \in Threads |-> 0]
  /\ refusals = [w \in Threads |-> 0]

Goto(w, to)   == pc' = [pc EXCEPT ![w] = to]
Opening(w)    == header[w] = NoToken
SetHeader(w, token) == header' = [header EXCEPT ![w] = token]
OneMoreRefusal(w) ==   \* saturates above the most there should be
  refusals' = [refusals EXCEPT ![w] = IF @ > GetAttempts THEN @ ELSE @ + 1]

-----------------------------------------------------------------------------
\* A task and its event loop.  The lock stays bound to a loop that has ended.
StartTask(w) ==
  /\ pc[w] = "idle" /\ Goto(w, "task")
  /\ UNCHANGED <<cachedToken, lockVars, serverVars, callVars>>

EndTask(w) ==
  /\ pc[w] = "task" /\ Goto(w, "idle")
  /\ boundTo' = IF boundTo = w THEN ClosedLoop ELSE boundTo
  /\ UNCHANGED <<cachedToken, locked, contended, woken, serverVars, callVars>>

\* __aenter__: the static token, else the cached one, else a login.
TokenInHand == IF StaticToken = "set" THEN BotToken ELSE cachedToken

OpenClient(w) ==
  /\ pc[w] = "task"
  /\ \/ TokenInHand # NoToken /\ SetHeader(w, TokenInHand) /\ Goto(w, "open")
     \/ TokenInHand = NoToken /\ Goto(w, "lock") /\ UNCHANGED header
  /\ UNCHANGED <<cachedToken, lockVars, serverVars, fresh, triesLeft, refusals>>

\* The client is closed on exit, with or without an exception.
Closed(w) == Goto(w, "task") /\ SetHeader(w, NoToken)

CloseClient(w) ==
  /\ pc[w] = "open" /\ Closed(w)
  /\ UNCHANGED <<cachedToken, lockVars, serverVars, fresh, triesLeft, refusals>>

-----------------------------------------------------------------------------
(***************************************************************************)
(* asyncio.Lock.  The test of the fast path and the taking of the lock are *)
(* one step only while there is no deque of waiters to look through; the   *)
(* slow path enqueues a future some time after the test.                   *)
(***************************************************************************)
Waiters == {w \in Threads : pc[w] = "waiting"}   \* at most one, of the bound loop

TryLock(w) ==
  /\ pc[w] = "lock"
  /\ \/ /\ ~locked /\ ~contended
        /\ locked' = TRUE /\ Goto(w, "held") /\ UNCHANGED contended
     \/ /\ ~locked /\ contended /\ Waiters = {}
        /\ Goto(w, "seenFree") /\ UNCHANGED <<locked, contended>>
     \/ /\ locked \/ Waiters # {}
        /\ Goto(w, "seenBusy") /\ contended' = TRUE /\ UNCHANGED locked
  /\ UNCHANGED <<cachedToken, woken, boundTo, serverVars, callVars>>

TakeLock(w) ==
  /\ pc[w] = "seenFree" /\ Goto(w, "held")
  /\ locked' = TRUE
  /\ UNCHANGED <<cachedToken, contended, woken, boundTo, serverVars, callVars>>

\* A waiter's future belongs to the loop the lock is bound to, by the first
\* waiter and for good; a waiter in any other loop gets a RuntimeError.
Enqueue(w) ==
  /\ pc[w] = "seenBusy"
  /\ \/ /\ boundTo \in {NoLoop, w}
        /\ boundTo' = w /\ Goto(w, "waiting")
     \/ /\ boundTo \notin {NoLoop, w}
        /\ Goto(w, "lockError") /\ UNCHANGED boundTo
  /\ UNCHANGED <<cachedToken, locked, contended, woken, serverVars, callVars>>

\* The waiter's loop runs the callback of its future.  A future set by another
\* thread does not wake a loop that sleeps, so this step is not fair.
Wake(w) ==
  /\ pc[w] = "waiting" /\ w \in woken /\ Goto(w, "held")
  /\ woken' = woken \ {w}
  /\ locked' = TRUE
  /\ UNCHANGED <<cachedToken, contended, boundTo, serverVars, callVars>>

\* release: of a lock that is not locked (any more) it raises.
Released ==
  /\ locked' = FALSE
  /\ woken' = woken \cup Waiters
  /\ UNCHANGED <<contended, boundTo>>

ReleaseRaises(w) == ~locked /\ Goto(w, "lockError") /\ UNCHANGED <<lockVars, header>>

-----------------------------------------------------------------------------
\* Mutant: who waited for the lock expects the token to be there.
UseLockUnchecked(w) ==
  /\ pc[w] = "held"
  /\ \/ /\ Opening(w)
        /\ \/ locked /\ Released /\ SetHeader(w, cachedToken) /\ Goto(w, "open")
           \/ ReleaseRaises(w)
        /\ UNCHANGED cachedToken
     \/ ~Opening(w) /\ cachedToken' = NoToken /\ Goto(w, "login") /\ UNCHANGED <<lockVars, header>>
  /\ UNCHANGED <<serverVars, fresh, triesLeft, refusals>>

\* Mutant: a refresh is content with whatever token is cached.
UseLockReusing(w) ==
  /\ pc[w] = "held"
  /\ \/ /\ cachedToken # NoToken
        /\ \/ /\ locked /\ Released /\ SetHeader(w, cachedToken)
              /\ Goto(w, IF Opening(w) THEN "open" ELSE "resend")
           \/ ReleaseRaises(w)
     \/ cachedToken = NoToken /\ Goto(w, "login") /\ UNCHANGED <<lockVars, header>>
  /\ UNCHANGED <<cachedToken, serverVars, fresh, triesLeft, refusals>>

\* With the lock: _get_token looks at the cache again, _refresh_auth empties it.
UseLock(w) ==
  /\ pc[w] = "held"
  /\ \/ /\ Opening(w) /\ cachedToken # NoToken
        /\ \/ locked /\ Released /\ SetHeader(w, cachedToken) /\ Goto(w, "open")
           \/ ReleaseRaises(w)
        /\ UNCHANGED cachedToken
     \/ /\ Opening(w) /\ cachedToken = NoToken
        /\ Goto(w, "login") /\ UNCHANGED <<cachedToken, lockVars, header>>
     \/ /\ ~Opening(w)
        /\ cachedToken' = NoToken /\ Goto(w, "login") /\ UNCHANGED <<lockVars, header>>
  /\ UNCHANGED <<serverVars, fresh, triesLeft, refusals>>

\* _acquire_token: OpenMetadata issues a token ...
LoginAnswered(w) ==
  /\ pc[w] = "login" /\ issued <= MaxLogins
  /\ issued' = issued + 1
  /\ fresh' = [fresh EXCEPT ![w] = issued']
  /\ Goto(w, "store")
  /\ UNCHANGED <<cachedToken, lockVars, expired, expiries, header, triesLeft, refusals>>

\* ... which is cached and becomes the client's, whatever others have cached.
StoreToken(w) ==
  /\ pc[w] = "store"
  /\ cachedToken' = fresh[w]
  /\ \/ /\ locked /\ Released
        /\ SetHeader(w, fresh[w])
        /\ Goto(w, IF Opening(w) THEN "open" ELSE "resend")
     \/ ReleaseRaises(w)
  /\ UNCHANGED <<serverVars, fresh, triesLeft, refusals>>

\* An error status raises HTTPStatusError, which makes _get try again.
TryAgain(w) ==
  \/ /\ triesLeft[w] > 1
     /\ triesLeft' = [triesLeft EXCEPT ![w] = @ - 1]
     /\ Goto(w, "send") /\ UNCHANGED header
  \/ triesLeft[w] <= 1 /\ Closed(w) /\ UNCHANGED triesLeft

\* Mutant: the failed login's exception keeps the lock.
LoginFailsKeepingLock(w) ==
  /\ pc[w] = "login"
  /\ Closed(w) /\ UNCHANGED <<lockVars, triesLeft>>
  /\ UNCHANGED <<cachedToken, serverVars, fresh, refusals>>

\* Mutant: an attempt that ended in a failed refresh is not counted.
LoginFailsUncounted(w) ==
  /\ pc[w] = "login"
  /\ \/ locked /\ Released /\ Closed(w)
     \/ locked /\ Released /\ ~Opening(w) /\ Goto(w, "send") /\ UNCHANGED header
     \/ ReleaseRaises(w)
  /\ UNCHANGED <<cachedToken, serverVars, fresh, triesLeft, refusals>>

\* The login fails: with an error status, or (timeout, connection, no token)
\* otherwise.  During a refresh the former is a failed attempt of _get.
LoginFails(w) ==
  /\ pc[w] = "login"
  /\ \/ locked /\ Released /\ Closed(w) /\ UNCHANGED triesLeft
     \/ locked /\ Released /\ ~Opening(w) /\ TryAgain(w)
     \/ ReleaseRaises(w) /\ UNCHANGED triesLeft
  /\ UNCHANGED <<cachedToken, serverVars, fresh, refusals>>

\* The RuntimeError ends the call; the tool turns it into an error result.
LockErrorRaised(w) ==
  /\ pc[w] = "lockError" /\ Closed(w)
  /\ UNCHANGED <<cachedToken, lockVars, serverVars, fresh, triesLeft, refusals>>

-----------------------------------------------------------------------------
\* _get has three attempts, _post one.
Request(w, attempts) ==
  /\ pc[w] = "open" /\ Goto(w, "send")
  /\ triesLeft' = [triesLeft EXCEPT ![w] = attempts]
  /\ refusals' = [refusals EXCEPT ![w] = 0]
  /\ UNCHANGED <<cachedToken, lockVars, serverVars, header, fresh>>

\* Success, or 404.
Answered(w) ==
  /\ pc[w] \in {"send", "resend"} /\ header[w] > expired
  /\ Goto(w, "open")
  /\ UNCHANGED <<cachedToken, lockVars, serverVars, callVars>>

\* 401: refresh, but with any non-empty OM_JWT_TOKEN only send again.
Refused(w) ==
  /\ pc[w] = "send" /\ header[w] <= expired
  /\ Goto(w, IF StaticToken = "none" THEN "lock" ELSE "resend") /\ OneMoreRefusal(w)
  /\ UNCHANGED <<cachedToken, lockVars, serverVars, header, fresh, triesLeft>>

\* Any other error status, and any at all on the second try.
StatusError(w) ==
  /\ pc[w] \in {"send", "resend"}
  /\ TryAgain(w)
  /\ UNCHANGED <<cachedToken, lockVars, serverVars, fresh, refusals>>

\* A timeout or a broken connection is not retried.
ConnectionFails(w) ==
  /\ pc[w] \in {"send", "resend"}
  /\ Closed(w)
  /\ UNCHANGED <<cachedToken, lockVars, serverVars, fresh, triesLeft, refusals>>

Expire ==
  /\ expiries < MaxExpiries /\ expired < issued
  /\ expired' = issued /\ expiries' = expiries + 1
  /\ UNCHANGED <<cachedToken, lockVars, issued, pc, callVars>>

Proceed(w) ==
  \/ TryLock(w) \/ TakeLock(w) \/ Enqueue(w) \/ UseLock(w)
  \/ LoginAnswered(w) \/ StoreToken(w) \/ LoginFails(w) \/ LockErrorRaised(w)
  \/ Answered(w) \/ Refused(w) \/ StatusError(w) \/ ConnectionFails(w)

Next ==
  \/ \E w \in Threads :
       \/ StartTask(w) \/ EndTask(w) \/ OpenClient(w) \/ CloseClient(w)
       \/ Request(w, GetAttempts) \/ Request(w, 1)
       \/ Wake(w) \/ Proceed(w)
  \/ Expire

Spec == Init /\ [][Next]_vars

\* HTTP requests have a timeout, and the rest does not wait; the wait for the
\* lock has no timeout and Wake is not fair.
FairSpec == Spec /\ \A w \in Threads : WF_vars(Proceed(w))

-----------------------------------------------------------------------------
Steps == {"idle", "task", "lock", "seenFree", "seenBusy", "waiting", "held", "login",
          "store", "lockError", "open", "send", "resend"}

LockTypeOK ==
  /\ locked \in BOOLEAN /\ contended \in BOOLEAN
  /\ woken \subseteq Threads
  /\ boundTo \in Threads \cup {NoLoop, ClosedLoop}

TokenTypeOK ==
  /\ issued \in 1..(MaxLogins + 1) /\ expiries \in 0..MaxExpiries
  /\ cachedToken \in 0..issued /\ expired \in 0..issued
  /\ header \in [Threads -> 0..issued] /\ fresh \in [Threads -> 0..issued]

CallTypeOK ==
  /\ pc \in [Threads -> Steps]
  /\ triesLeft \in [Threads -> 0..GetAttempts]
  /\ refusals \in [Threads -> 0..GetAttempts]

\* The types of the client's state; a call is refused at most once per attempt.
TypeOK == LockTypeOK /\ TokenTypeOK /\ CallTypeOK

\* However logins fail and other tasks empty the cache, no request is sent
\* without a token (client.py:78-95, 111-122).
NeverUnauthenticated ==
  \A w \in Threads : pc[w] \in {"open", "send", "resend"} => header[w] # NoToken

\* A lock that is taken has a thread that will release it: no failing login and
\* no race for the lock leaves it taken for ever (client.py:92, 144).
LockNotAbandoned ==
  locked => \E w \in Threads : pc[w] \in {"held", "login", "store"}

\* "The token is cached in-process and refreshed automatically on 401"
\* (client.py:104): unless a bot token is in use, a refused request is only
\* sent again with a newer token than the refused one.
TokenRenewed ==
  [][\A w \in Threads :
       pc'[w] = "resend" /\ pc[w] # "resend" /\ StaticToken # "set" => header'[w] > header[w]]_vars

\* Every request ends, in an answer or an error, unless its refresh is left
\* waiting for the lock (client.py:152-186).
RequestEnds ==
  \A w \in Threads : pc[w] = "send" ~> pc[w] \in {"open", "task", "waiting"}

-----------------------------------------------------------------------------
\* "One event loop per task execution; no shared state between tasks"
\* (knowledge/services/worker.md:100): no task's call fails because the lock is
\* bound to another task's loop.
NoSharedState == \A w \in Threads : pc[w] # "lockError"
=============================================================================
