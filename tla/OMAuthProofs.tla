---------------------------- MODULE OMAuthProofs ----------------------------
(***************************************************************************)
(* Proofs about OMAuth: what holds of the token and the lock whatever the  *)
(* threads do to each other.                                               *)
(***************************************************************************)
EXTENDS OMAuth, TLAPS

Locking == {"lock", "seenFree", "seenBusy", "waiting", "held", "login", "store"}
Holding == {"held", "login", "store"}

\* A thread's call: it has a token once its client is open, every attempt is
\* refused at most once, and a login returns a token newer than its own.
CallOK(w) ==
  /\ pc[w] \in {"idle", "task"} => header[w] = NoToken
  /\ pc[w] \in {"open", "send", "resend"} => header[w] # NoToken
  /\ pc[w] = "send" => triesLeft[w] >= 1 /\ refusals[w] + triesLeft[w] <= GetAttempts
  /\ (pc[w] = "resend" \/ (pc[w] \in Locking /\ header[w] # NoToken)) =>
       triesLeft[w] >= 1 /\ refusals[w] + triesLeft[w] <= GetAttempts + 1
  /\ pc[w] = "store" => fresh[w] > header[w]

AuthInv ==
  /\ TypeOK
  /\ LockNotAbandoned
  /\ \A w \in Threads : CallOK(w)

\* What a step of thread w may do to the rest of the process.
StepOf(w) ==
  /\ \A v \in Threads \ {w} :
       /\ pc'[v] = pc[v] /\ header'[v] = header[v] /\ fresh'[v] = fresh[v]
       /\ triesLeft'[v] = triesLeft[v] /\ refusals'[v] = refusals[v]
  /\ locked' => \/ locked /\ (pc[w] \in Holding => pc'[w] \in Holding)
                \/ pc'[w] \in Holding

LEMMA OneThreadSteps ==
  ASSUME AuthInv, NEW w \in Threads, StepOf(w), TypeOK', CallOK(w)'
  PROVE  AuthInv'
<1>1. ASSUME NEW v \in Threads \ {w}  PROVE CallOK(v)'
  <2>1. /\ pc'[v] = pc[v] /\ header'[v] = header[v] /\ fresh'[v] = fresh[v]
        /\ triesLeft'[v] = triesLeft[v] /\ refusals'[v] = refusals[v]
    BY DEF StepOf
  <2>2. CallOK(v)  BY DEF AuthInv
  <2>3. QED  BY <2>1, <2>2 DEF CallOK
<1>2. LockNotAbandoned'  BY DEF StepOf, AuthInv, LockNotAbandoned, Holding
<1>3. QED  BY <1>1, <1>2 DEF AuthInv

LEMMA AuthInit == Init => AuthInv
<1> SUFFICES ASSUME Init  PROVE AuthInv  OBVIOUS
<1>1. LockTypeOK  BY DEF Init, LockTypeOK
<1>2. TokenTypeOK  BY BoundsAssumption DEF Init, TokenTypeOK, NoToken, BotToken
<1>3. CallTypeOK  BY DEF Init, CallTypeOK, Steps, GetAttempts
<1>4. LockNotAbandoned  BY DEF Init, LockNotAbandoned
<1>5. \A w \in Threads : CallOK(w)  BY DEF Init, CallOK, Locking
<1>6. QED  BY <1>1, <1>2, <1>3, <1>4, <1>5 DEF AuthInv, TypeOK

-----------------------------------------------------------------------------
(***************************************************************************)
(* One lemma per group of actions of a thread.                             *)
(***************************************************************************)
Keeps(w) == TypeOK' /\ StepOf(w) /\ CallOK(w)'

\* What has to be shown of a step, when most of it is seen from its shape.
LEMMA KeepsAll ==
  ASSUME AuthInv, NEW w \in Threads, LockTypeOK', TokenTypeOK', CallTypeOK', StepOf(w), CallOK(w)'
  PROVE  Keeps(w)
BY DEF Keeps, TypeOK

LEMMA StartTaskKeeps ==
  ASSUME AuthInv, NEW w \in Threads, StartTask(w)
  PROVE  Keeps(w)
<1> USE DEF StartTask, Goto, lockVars, serverVars, callVars
<1>1. LockTypeOK /\ TokenTypeOK /\ CallTypeOK /\ CallOK(w)  BY DEF AuthInv, TypeOK
<1>2. LockTypeOK' /\ TokenTypeOK'  BY <1>1 DEF LockTypeOK, TokenTypeOK
<1>3. CallTypeOK'  BY <1>1 DEF CallTypeOK, Steps
<1>4. StepOf(w)  BY <1>1 DEF StepOf, CallTypeOK, Holding
<1>5. CallOK(w)'  BY <1>1 DEF CallOK, CallTypeOK, Locking
<1>6. QED  BY <1>2, <1>3, <1>4, <1>5, KeepsAll

LEMMA EndTaskKeeps ==
  ASSUME AuthInv, NEW w \in Threads, EndTask(w)
  PROVE  Keeps(w)
<1> USE DEF EndTask, Goto, serverVars, callVars
<1>1. LockTypeOK /\ TokenTypeOK /\ CallTypeOK /\ CallOK(w)  BY DEF AuthInv, TypeOK
<1>2. LockTypeOK' /\ TokenTypeOK'  BY <1>1 DEF LockTypeOK, TokenTypeOK
<1>3. CallTypeOK'  BY <1>1 DEF CallTypeOK, Steps
<1>4. StepOf(w)  BY <1>1 DEF StepOf, CallTypeOK, Holding
<1>5. CallOK(w)'  BY <1>1 DEF CallOK, CallTypeOK, Locking
<1>6. QED  BY <1>2, <1>3, <1>4, <1>5, KeepsAll

LEMMA OpenClientKeeps ==
  ASSUME AuthInv, NEW w \in Threads, OpenClient(w)
  PROVE  Keeps(w)
<1> USE DEF OpenClient, TokenInHand, Goto, SetHeader, lockVars, serverVars
<1>1. LockTypeOK /\ TokenTypeOK /\ CallTypeOK /\ CallOK(w)  BY DEF AuthInv, TypeOK
<1>2. LockTypeOK'  BY <1>1 DEF LockTypeOK
<1>3. TokenTypeOK'  BY <1>1 DEF TokenTypeOK, BotToken
<1>4. CallTypeOK'  BY <1>1 DEF CallTypeOK, Steps
<1>5. StepOf(w)  BY <1>1 DEF StepOf, CallTypeOK, TokenTypeOK, Holding
<1>6. CallOK(w)'  BY <1>1 DEF CallOK, CallTypeOK, TokenTypeOK, Locking, NoToken, BotToken
<1>7. QED  BY <1>2, <1>3, <1>4, <1>5, <1>6, KeepsAll

LEMMA ClosingKeeps ==
  ASSUME AuthInv, NEW w \in Threads, CloseClient(w) \/ LockErrorRaised(w) \/ ConnectionFails(w)
  PROVE  Keeps(w)
<1>1. LockTypeOK /\ TokenTypeOK /\ CallTypeOK /\ CallOK(w)  BY DEF AuthInv, TypeOK
<1>2. /\ pc' = [pc EXCEPT ![w] = "task"] /\ header' = [header EXCEPT ![w] = NoToken]
      /\ pc[w] \notin Holding
      /\ UNCHANGED <<cachedToken, lockVars, serverVars, fresh, triesLeft, refusals>>
  BY DEF CloseClient, LockErrorRaised, ConnectionFails, Closed, Goto, SetHeader, Holding
<1>3. LockTypeOK'  BY <1>1, <1>2 DEF LockTypeOK, lockVars
<1>4. TokenTypeOK'  BY <1>1, <1>2 DEF TokenTypeOK, NoToken, serverVars
<1>5. CallTypeOK'  BY <1>1, <1>2 DEF CallTypeOK, Steps
<1>6. StepOf(w)  BY <1>1, <1>2 DEF StepOf, CallTypeOK, TokenTypeOK, Holding, lockVars
<1>7. CallOK(w)'  BY <1>1, <1>2 DEF CallOK, CallTypeOK, TokenTypeOK, Locking
<1>8. QED  BY <1>3, <1>4, <1>5, <1>6, <1>7, KeepsAll


LEMMA TryLockKeeps ==
  ASSUME AuthInv, NEW w \in Threads, TryLock(w) \/ TakeLock(w) \/ Enqueue(w)
  PROVE  Keeps(w)
<1> USE DEF TryLock, TakeLock, Enqueue, Goto, serverVars, callVars
<1>1. LockTypeOK /\ TokenTypeOK /\ CallTypeOK /\ CallOK(w)  BY DEF AuthInv, TypeOK
<1>2. LockTypeOK'  BY <1>1 DEF LockTypeOK
<1>3. TokenTypeOK'  BY <1>1 DEF TokenTypeOK
<1>4. CallTypeOK'  BY <1>1 DEF CallTypeOK, Steps
<1>5. StepOf(w)  BY <1>1 DEF StepOf, CallTypeOK, TokenTypeOK, Holding
<1>6. CallOK(w)'  BY <1>1 DEF CallOK, CallTypeOK, Locking
<1>7. QED  BY <1>2, <1>3, <1>4, <1>5, <1>6, KeepsAll

LEMMA WakeKeeps ==
  ASSUME AuthInv, NEW w \in Threads, Wake(w)
  PROVE  Keeps(w)
<1> USE DEF Wake, Goto, serverVars, callVars
<1>1. LockTypeOK /\ TokenTypeOK /\ CallTypeOK /\ CallOK(w)  BY DEF AuthInv, TypeOK
<1>2. LockTypeOK'  BY <1>1 DEF LockTypeOK
<1>3. TokenTypeOK'  BY <1>1 DEF TokenTypeOK
<1>4. CallTypeOK'  BY <1>1 DEF CallTypeOK, Steps
<1>5. StepOf(w)  BY <1>1 DEF StepOf, CallTypeOK, TokenTypeOK, Holding
<1>6. CallOK(w)'  BY <1>1 DEF CallOK, CallTypeOK, Locking
<1>7. QED  BY <1>2, <1>3, <1>4, <1>5, <1>6, KeepsAll

LEMMA UseLockKeeps ==
  ASSUME AuthInv, NEW w \in Threads, UseLock(w)
  PROVE  Keeps(w)
<1> USE DEF UseLock, Goto, SetHeader, Opening, Released, ReleaseRaises, Waiters, lockVars, serverVars
<1>1. LockTypeOK /\ TokenTypeOK /\ CallTypeOK /\ CallOK(w)  BY DEF AuthInv, TypeOK
<1>2. LockTypeOK'  BY <1>1 DEF LockTypeOK
<1>3. TokenTypeOK'  BY <1>1 DEF TokenTypeOK, NoToken
<1>4. CallTypeOK'  BY <1>1 DEF CallTypeOK, Steps
<1>5. StepOf(w)  BY <1>1 DEF StepOf, CallTypeOK, TokenTypeOK, Holding
<1>6. CallOK(w)'
  <2>1. CASE pc'[w] = "open"  BY <1>1, <2>1 DEF CallOK, CallTypeOK, TokenTypeOK, Locking, NoToken
  <2>2. CASE pc'[w] = "lockError"  BY <1>1, <2>2 DEF CallOK, CallTypeOK, Locking
  <2>3. CASE pc'[w] = "login"  BY <1>1, <2>3 DEF CallOK, CallTypeOK, Locking
  <2>4. QED  BY <1>1, <2>1, <2>2, <2>3 DEF CallTypeOK
<1>7. QED  BY <1>2, <1>3, <1>4, <1>5, <1>6, KeepsAll

LEMMA LoginAnsweredKeeps ==
  ASSUME AuthInv, NEW w \in Threads, LoginAnswered(w)
  PROVE  Keeps(w)
<1> USE DEF LoginAnswered, Goto, lockVars
<1>1. LockTypeOK /\ TokenTypeOK /\ CallTypeOK /\ CallOK(w)  BY DEF AuthInv, TypeOK
<1>2. LockTypeOK'  BY <1>1 DEF LockTypeOK
<1>3. TokenTypeOK'
  <2>1. issued' \in 1..(MaxLogins + 1)  BY <1>1, BoundsAssumption DEF TokenTypeOK
  <2>2. 0..issued \subseteq 0..issued'  BY <1>1 DEF TokenTypeOK
  <2>3. header' \in [Threads -> 0..issued']  BY <1>1, <2>2 DEF TokenTypeOK
  <2>4. fresh' \in [Threads -> 0..issued']  BY <1>1, <2>2 DEF TokenTypeOK
  <2>5. QED  BY <1>1, <2>1, <2>2, <2>3, <2>4 DEF TokenTypeOK
<1>4. CallTypeOK'  BY <1>1 DEF CallTypeOK, Steps
<1>5. StepOf(w)  BY <1>1 DEF StepOf, CallTypeOK, TokenTypeOK, Holding
<1>6. CallOK(w)'  BY <1>1 DEF CallOK, CallTypeOK, TokenTypeOK, Locking, NoToken
<1>7. QED  BY <1>2, <1>3, <1>4, <1>5, <1>6, KeepsAll

LEMMA StoreTokenKeeps ==
  ASSUME AuthInv, NEW w \in Threads, StoreToken(w)
  PROVE  Keeps(w)
<1> USE DEF StoreToken, Goto, SetHeader, Opening, Released, ReleaseRaises, Waiters, lockVars, serverVars
<1>1. LockTypeOK /\ TokenTypeOK /\ CallTypeOK /\ CallOK(w)  BY DEF AuthInv, TypeOK
<1>2. LockTypeOK'  BY <1>1 DEF LockTypeOK
<1>3. TokenTypeOK'  BY <1>1 DEF TokenTypeOK
<1>4. CallTypeOK'  BY <1>1 DEF CallTypeOK, Steps
<1>5. StepOf(w)  BY <1>1 DEF StepOf, CallTypeOK, TokenTypeOK, Holding
<1>6. CallOK(w)'  BY <1>1 DEF CallOK, CallTypeOK, TokenTypeOK, Locking, NoToken
<1>7. QED  BY <1>2, <1>3, <1>4, <1>5, <1>6, KeepsAll

LEMMA LoginFailsKeeps ==
  ASSUME AuthInv, NEW w \in Threads, LoginFails(w)
  PROVE  Keeps(w)
<1> USE DEF LoginFails, TryAgain, Closed, Goto, SetHeader, Opening, Released, ReleaseRaises, Waiters, lockVars, serverVars
<1>1. LockTypeOK /\ TokenTypeOK /\ CallTypeOK /\ CallOK(w)  BY DEF AuthInv, TypeOK
<1>2. LockTypeOK'  BY <1>1 DEF LockTypeOK
<1>3. TokenTypeOK'  BY <1>1 DEF TokenTypeOK, NoToken
<1>4. CallTypeOK'  BY <1>1 DEF CallTypeOK, Steps, GetAttempts
<1>5. StepOf(w)  BY <1>1 DEF StepOf, CallTypeOK, TokenTypeOK, Holding
<1>6. CallOK(w)'
  <2>1. CASE pc'[w] = "task"  BY <1>1, <2>1 DEF CallOK, CallTypeOK, TokenTypeOK, Locking
  <2>2. CASE pc'[w] = "lockError"  BY <1>1, <2>2 DEF CallOK, CallTypeOK, Locking
  <2>3. CASE pc'[w] = "send"
    <3>1. header[w] # NoToken /\ triesLeft[w] > 1 /\ triesLeft'[w] = triesLeft[w] - 1
          /\ UNCHANGED <<header, refusals>>
      BY <1>1, <2>3 DEF CallTypeOK
    <3>2. refusals[w] + triesLeft[w] <= GetAttempts + 1  BY <1>1, <3>1 DEF CallOK, Locking
    <3>3. triesLeft[w] \in 0..GetAttempts /\ refusals[w] \in 0..GetAttempts  BY <1>1 DEF CallTypeOK
    <3>4. triesLeft'[w] >= 1 /\ refusals'[w] + triesLeft'[w] <= GetAttempts
      BY <3>1, <3>2, <3>3 DEF GetAttempts
    <3>5. QED  BY <2>3, <3>1, <3>4 DEF CallOK, Locking
  <2>4. QED  BY <1>1, <2>1, <2>2, <2>3 DEF CallTypeOK
<1>7. QED  BY <1>2, <1>3, <1>4, <1>5, <1>6, KeepsAll

LEMMA RequestKeeps ==
  ASSUME AuthInv, NEW w \in Threads, NEW attempts \in 1..GetAttempts, Request(w, attempts)
  PROVE  Keeps(w)
<1> USE DEF Request, Goto, lockVars, serverVars
<1>1. LockTypeOK /\ TokenTypeOK /\ CallTypeOK /\ CallOK(w)  BY DEF AuthInv, TypeOK
<1>2. LockTypeOK'  BY <1>1 DEF LockTypeOK
<1>3. TokenTypeOK'  BY <1>1 DEF TokenTypeOK
<1>4. CallTypeOK'  BY <1>1 DEF CallTypeOK, Steps, GetAttempts
<1>5. StepOf(w)  BY <1>1 DEF StepOf, CallTypeOK, TokenTypeOK, Holding
<1>6. CallOK(w)'  BY <1>1 DEF CallOK, CallTypeOK, Locking, GetAttempts
<1>7. QED  BY <1>2, <1>3, <1>4, <1>5, <1>6, KeepsAll

LEMMA AnsweredKeeps ==
  ASSUME AuthInv, NEW w \in Threads, Answered(w)
  PROVE  Keeps(w)
<1> USE DEF Answered, Goto, lockVars, serverVars, callVars
<1>1. LockTypeOK /\ TokenTypeOK /\ CallTypeOK /\ CallOK(w)  BY DEF AuthInv, TypeOK
<1>2. LockTypeOK'  BY <1>1 DEF LockTypeOK
<1>3. TokenTypeOK'  BY <1>1 DEF TokenTypeOK
<1>4. CallTypeOK'  BY <1>1 DEF CallTypeOK, Steps
<1>5. StepOf(w)  BY <1>1 DEF StepOf, CallTypeOK, TokenTypeOK, Holding
<1>6. CallOK(w)'  BY <1>1 DEF CallOK, CallTypeOK, Locking
<1>7. QED  BY <1>2, <1>3, <1>4, <1>5, <1>6, KeepsAll

LEMMA RefusedKeeps ==
  ASSUME AuthInv, NEW w \in Threads, Refused(w)
  PROVE  Keeps(w)
<1> USE DEF Refused, OneMoreRefusal, Goto, lockVars, serverVars
<1>1. LockTypeOK /\ TokenTypeOK /\ CallTypeOK /\ CallOK(w)  BY DEF AuthInv, TypeOK
<1>2. LockTypeOK'  BY <1>1 DEF LockTypeOK
<1>3. TokenTypeOK'  BY <1>1 DEF TokenTypeOK
<1>4. refusals[w] < GetAttempts  BY <1>1 DEF CallOK, CallTypeOK, GetAttempts
<1>5. CallTypeOK'  BY <1>1, <1>4 DEF CallTypeOK, Steps, GetAttempts
<1>6. StepOf(w)  BY <1>1 DEF StepOf, CallTypeOK, TokenTypeOK, Holding
<1>7. CallOK(w)'  BY <1>1, <1>4 DEF CallOK, CallTypeOK, TokenTypeOK, Locking, NoToken, GetAttempts
<1>8. QED  BY <1>2, <1>3, <1>5, <1>6, <1>7, KeepsAll

LEMMA StatusErrorKeeps ==
  ASSUME AuthInv, NEW w \in Threads, StatusError(w)
  PROVE  Keeps(w)
<1> USE DEF StatusError, TryAgain, Closed, Goto, SetHeader, lockVars, serverVars
<1>1. LockTypeOK /\ TokenTypeOK /\ CallTypeOK /\ CallOK(w)  BY DEF AuthInv, TypeOK
<1>2. LockTypeOK'  BY <1>1 DEF LockTypeOK
<1>3. TokenTypeOK'  BY <1>1 DEF TokenTypeOK, NoToken
<1>4. CallTypeOK'  BY <1>1 DEF CallTypeOK, Steps, GetAttempts
<1>5. StepOf(w)  BY <1>1 DEF StepOf, CallTypeOK, TokenTypeOK, Holding
<1>6. CallOK(w)'
  <2>1. CASE pc'[w] = "task"  BY <1>1, <2>1 DEF CallOK, CallTypeOK, TokenTypeOK, Locking
  <2>2. CASE pc'[w] = "send"
    <3>1. triesLeft[w] > 1 /\ triesLeft'[w] = triesLeft[w] - 1 /\ UNCHANGED <<header, refusals>>
      BY <1>1, <2>2 DEF CallTypeOK
    <3>2. header[w] # NoToken /\ refusals[w] + triesLeft[w] <= GetAttempts + 1
      BY <1>1 DEF CallOK, CallTypeOK, GetAttempts
    <3>3. triesLeft[w] \in 0..GetAttempts /\ refusals[w] \in 0..GetAttempts  BY <1>1 DEF CallTypeOK
    <3>4. triesLeft'[w] >= 1 /\ refusals'[w] + triesLeft'[w] <= GetAttempts
      BY <3>1, <3>2, <3>3 DEF GetAttempts
    <3>5. QED  BY <2>2, <3>1, <3>2, <3>4 DEF CallOK, Locking
  <2>3. QED  BY <1>1, <2>1, <2>2 DEF CallTypeOK
<1>7. QED  BY <1>2, <1>3, <1>4, <1>5, <1>6, KeepsAll


-----------------------------------------------------------------------------
(***************************************************************************)
(* The invariant is inductive.                                             *)
(***************************************************************************)
ThreadStep(w) ==
  \/ StartTask(w) \/ EndTask(w) \/ OpenClient(w) \/ CloseClient(w)
  \/ Request(w, GetAttempts) \/ Request(w, 1)
  \/ Wake(w) \/ Proceed(w)

LEMMA ThreadKeeps ==
  ASSUME AuthInv, NEW w \in Threads, ThreadStep(w)
  PROVE  Keeps(w)
<1>1. CASE StartTask(w)  BY <1>1, StartTaskKeeps
<1>2. CASE EndTask(w)  BY <1>2, EndTaskKeeps
<1>3. CASE OpenClient(w)  BY <1>3, OpenClientKeeps
<1>4. CASE CloseClient(w) \/ LockErrorRaised(w) \/ ConnectionFails(w)  BY <1>4, ClosingKeeps
<1>5. CASE Request(w, GetAttempts) \/ Request(w, 1)
  <2>1. GetAttempts \in 1..GetAttempts /\ 1 \in 1..GetAttempts  BY DEF GetAttempts
  <2>2. QED  BY <1>5, <2>1, RequestKeeps
<1>6. CASE TryLock(w) \/ TakeLock(w) \/ Enqueue(w)  BY <1>6, TryLockKeeps
<1>7. CASE Wake(w)  BY <1>7, WakeKeeps
<1>8. CASE UseLock(w)  BY <1>8, UseLockKeeps
<1>9. CASE LoginAnswered(w)  BY <1>9, LoginAnsweredKeeps
<1>10. CASE StoreToken(w)  BY <1>10, StoreTokenKeeps
<1>11. CASE LoginFails(w)  BY <1>11, LoginFailsKeeps
<1>12. CASE Answered(w)  BY <1>12, AnsweredKeeps
<1>13. CASE Refused(w)  BY <1>13, RefusedKeeps
<1>14. CASE StatusError(w)  BY <1>14, StatusErrorKeeps
<1> HIDE DEF AuthInv
<1>15. QED  BY <1>1, <1>2, <1>3, <1>4, <1>5, <1>6, <1>7, <1>8, <1>9, <1>10, <1>11, <1>12, <1>13, <1>14
            DEF ThreadStep, Proceed

LEMMA ExpireKeeps ==
  ASSUME AuthInv, Expire
  PROVE  AuthInv'
<1> USE DEF Expire, lockVars, callVars
<1>1. LockTypeOK /\ TokenTypeOK /\ CallTypeOK  BY DEF AuthInv, TypeOK
<1>2. LockTypeOK' /\ CallTypeOK'  BY <1>1 DEF LockTypeOK, CallTypeOK
<1>3. TokenTypeOK'  BY <1>1, BoundsAssumption DEF TokenTypeOK
<1>4. LockNotAbandoned'  BY DEF AuthInv, LockNotAbandoned
<1>5. \A w \in Threads : CallOK(w)'  BY DEF AuthInv, CallOK
<1>6. QED  BY <1>2, <1>3, <1>4, <1>5 DEF AuthInv, TypeOK

LEMMA AuthNext == AuthInv /\ [Next]_vars => AuthInv'
<1> SUFFICES ASSUME AuthInv, [Next]_vars  PROVE AuthInv'  OBVIOUS
<1>1. ASSUME NEW w \in Threads, ThreadStep(w)  PROVE AuthInv'
  <2>1. Keeps(w)  BY <1>1, ThreadKeeps
  <2>2. QED  BY <2>1, OneThreadSteps DEF Keeps
<1>2. CASE Expire  BY <1>2, ExpireKeeps
<1>3. CASE UNCHANGED vars
  BY <1>3 DEF vars, lockVars, serverVars, callVars, AuthInv, TypeOK, LockTypeOK, TokenTypeOK,
              CallTypeOK, LockNotAbandoned, CallOK
<1>4. QED  BY <1>1, <1>2, <1>3 DEF Next, ThreadStep

LEMMA AuthInvariant == Spec => []AuthInv
<1>1. QED  BY AuthInit, AuthNext, PTL DEF Spec

\* The types of the client's state, the bound on refusals per request with them.
THEOREM TypeCorrect == Spec => []TypeOK
<1>1. AuthInv => TypeOK  BY DEF AuthInv
<1>2. QED  BY <1>1, AuthInvariant, PTL

\* No request is sent without a token, whatever fails and whoever empties the
\* cache, for any number of threads, logins and expiries.
THEOREM RequestsCarryTokens == Spec => []NeverUnauthenticated
<1>1. AuthInv => NeverUnauthenticated  BY DEF AuthInv, CallOK, NeverUnauthenticated
<1>2. QED  BY <1>1, AuthInvariant, PTL

\* A taken lock always has a thread on its way to release it, although threads
\* may enter the critical section together.
THEOREM LockHasHolder == Spec => []LockNotAbandoned
<1>1. AuthInv => LockNotAbandoned  BY DEF AuthInv
<1>2. QED  BY <1>1, AuthInvariant, PTL

-----------------------------------------------------------------------------
\* Only a stored login makes a refused request go out again, unless some
\* OM_JWT_TOKEN is configured.
LEMMA ResendIsFresh ==
  ASSUME AuthInv, StaticToken = "none", [Next]_vars, NEW w \in Threads,
         pc'[w] = "resend", pc[w] # "resend"
  PROVE  header'[w] > header[w]
<1>1. TokenTypeOK /\ CallTypeOK /\ CallOK(w)  BY DEF AuthInv, TypeOK
<1>2. PICK v \in Threads : ThreadStep(v)
  BY DEF Next, ThreadStep, Expire, vars, callVars
<1>3. v = w
  <2>1. StepOf(v)  BY <1>2, ThreadKeeps DEF Keeps
  <2>2. QED  BY <2>1 DEF StepOf
<1>4. CASE StoreToken(w)
  <2>1. pc[w] = "store" /\ header'[w] = fresh[w]
    BY <1>1, <1>4 DEF StoreToken, ReleaseRaises, SetHeader, Goto, TokenTypeOK, CallTypeOK
  <2>2. QED  BY <1>1, <2>1 DEF CallOK
<1>5. CASE Refused(w)  BY <1>1, <1>5 DEF Refused, Goto, CallTypeOK
<1>6. CASE UseLock(w) \/ LoginAnswered(w) \/ LoginFails(w) \/ TryLock(w) \/ TakeLock(w) \/ Enqueue(w) \/ Wake(w)
  BY <1>1, <1>6 DEF UseLock, LoginAnswered, LoginFails, TryLock, TakeLock, Enqueue, Wake,
                    TryAgain, ReleaseRaises, Closed, Goto, CallTypeOK
<1>7. CASE \/ StartTask(w) \/ EndTask(w) \/ OpenClient(w) \/ CloseClient(w) \/ LockErrorRaised(w)
           \/ Request(w, GetAttempts) \/ Request(w, 1)
           \/ Answered(w) \/ StatusError(w) \/ ConnectionFails(w)
  BY <1>1, <1>7 DEF StartTask, EndTask, OpenClient, CloseClient, LockErrorRaised, Request,
                    Answered, StatusError, ConnectionFails, TryAgain, Closed, Goto, CallTypeOK
<1> HIDE DEF AuthInv
<1>8. QED  BY <1>2, <1>3, <1>4, <1>5, <1>6, <1>7 DEF ThreadStep, Proceed

\* A refused request is only sent again with a newer token; for a blank
\* OM_JWT_TOKEN this does not hold, which is why it is excluded.
THEOREM RefreshRenews == StaticToken # "blank" => (Spec => TokenRenewed)
<1> SUFFICES ASSUME StaticToken # "blank"  PROVE Spec => TokenRenewed  OBVIOUS
<1> DEFINE Renewed == \A w \in Threads :
      pc'[w] = "resend" /\ pc[w] # "resend" /\ StaticToken # "set" => header'[w] > header[w]
<1>1. AuthInv /\ [Next]_vars => [Renewed]_vars  BY ResendIsFresh, StaticTokenAssumption
<1>2. QED  BY <1>1, AuthInvariant, PTL DEF Spec, TokenRenewed
=============================================================================
