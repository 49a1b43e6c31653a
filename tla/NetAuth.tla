------------------------------- MODULE NetAuth -------------------------------
(***************************************************************************)
(* Authentication and authenticated requests (net.cpp): the status all     *)
(* HTTP requests wait for, the authentication task that a start, a token   *)
(* refresh or an answer 401 runs, and the replies and channel messages     *)
(* that change the status.                                                 *)
(*                                                                         *)
(* `pool' is the worker's queue of unserialised tasks: they start in order *)
(* and the first Threads of them run at the same time.  A request that     *)
(* gets 401 runs the authentication task inline, on its own thread.  Only  *)
(* the accesses under m_authMutex exclude one another; m_status,           *)
(* m_isRefreshingToken and m_stop are atomics that are also written        *)
(* outside it.                                                             *)
(*                                                                         *)
(* A request is one of three kinds: "object" (sendScorbitronObject),       *)
(* "unpair" (requestUnpair) and "request", any other one that only needs a *)
(* paired machine and whose reply leaves the status alone.  The heartbeat  *)
(* request is disabled in the code and left out.                           *)
(***************************************************************************)
EXTENDS Naturals, Sequences, FiniteSets

CONSTANTS Threads,      \* NUM_OF_THREADS
          NumRetries,   \* NUM_RETRIES
          MaxRequests,  \* bound: requests made by the application
          Disturbances, \* what may come in between: "expiry" of the token on the
                        \* server, "refresh" timer, "pairing" change, "stop" (~Net)
          MaxDisturbances \* bound: how many of them come

ASSUME AuthAssumption ==
    /\ Threads \in Nat \ {0}
    /\ NumRetries \in Nat \ {0}
    /\ MaxRequests \in Nat
    /\ MaxDisturbances \in Nat
    /\ Disturbances \subseteq {"expiry", "refresh", "pairing", "stop"}

VARIABLES status,      \* m_status
          refreshing,  \* m_isRefreshingToken
          locked,      \* m_authMutex is held across steps
          stop,        \* m_stop
          timer,       \* the TokenRefresh timer is armed
          keys,        \* m_signer and m_keyResolvers
          pool,        \* posted tasks, running and waiting
          tokenValid,  \* server: the token stored last is valid
          paired,      \* server: the machine is paired
          news,        \* pairing messages on the machine's channel
          budget,      \* what is left of MaxRequests and MaxDisturbances
          misled       \* ghost: a 401 was answered by a mere token refresh

vars == <<status, refreshing, locked, stop, timer, keys, pool, tokenValid, paired,
          news, budget, misled>>
serverVars == <<tokenValid, paired, news, budget>>

Statuses == {"NotAuthenticated", "Authenticating", "CheckingPairing", "Unpaired",
             "Paired", "Failed"}

Errors == {"Success", "ApiError", "AuthFailed", "NotPaired"}

\* The stages of a request, and those of an authentication task.
RequestStages == {"wait", "falling", "asleep", "check", "send", "got401",
                  "stoptimer", "callback"}
AuthStages    == {"begin", "lock", "mark", "token", "accepted"}

\* paired is the "machine" of the reply; normal is normalAuthentication.
Task == [kind: {"auth", "refresh", "object", "request", "unpair"},
         pc: RequestStages \cup AuthStages, tries: 0..NumRetries, error: Errors,
         paired: BOOLEAN, normal: BOOLEAN]

TypeOK ==
    /\ status \in Statuses
    /\ {refreshing, locked, stop, timer, tokenValid, paired, misled} \subseteq BOOLEAN
    /\ keys \in {"unresolved", "ready", "none"}
    /\ pool \in Seq(Task)
    /\ news \in SUBSET {"paired", "unpaired"}
    /\ budget \in [requests: 0..MaxRequests, disturbances: 0..MaxDisturbances]

NewTask(kind, pc) ==
    [kind |-> kind, pc |-> pc, tries |-> 0, error |-> "ApiError", paired |-> FALSE,
     normal |-> FALSE]

\* The application has created the game state, which calls authenticate().
Init ==
    /\ status = "NotAuthenticated"
    /\ refreshing = FALSE
    /\ locked = FALSE
    /\ stop = FALSE
    /\ timer = FALSE
    /\ keys = "unresolved"
    /\ pool = << NewTask("auth", "begin") >>
    /\ tokenValid = FALSE
    /\ paired \in BOOLEAN
    /\ news = {}
    /\ budget = [requests |-> MaxRequests, disturbances |-> MaxDisturbances]
    /\ misled = FALSE

Disturb(d) ==
    /\ d \in Disturbances
    /\ budget.disturbances > 0
    /\ budget' = [budget EXCEPT !.disturbances = @ - 1]

-----------------------------------------------------------------------------
(* The pool *)

Running == {i \in DOMAIN pool : i <= Threads}

At(i, stage) == pool[i].pc = stage

With(i, t) == [pool EXCEPT ![i] = t]

Goto(i, stage) == With(i, [pool[i] EXCEPT !.pc = stage])

Without(i) == SubSeq(pool, 1, i - 1) \o SubSeq(pool, i + 1, Len(pool))

\* m_authCV.notify_all(): the sleepers of p go and evaluate their condition again.
Woken(p) == [j \in DOMAIN p |-> IF p[j].pc = "asleep" THEN [p[j] EXCEPT !.pc = "wait"]
                                ELSE p[j]]

\* The next turn of the retry loop of the request at i, if it has one left.
Again(i) ==
    LET n == pool[i].tries + 1
    IN  With(i, [pool[i] EXCEPT !.tries = n,
                                !.pc = IF n < NumRetries THEN "wait" ELSE "callback"])

\* The authentication task at i returns: to the retry loop, or to the pool.
Return(i) == IF pool[i].kind = "auth" THEN Without(i) ELSE Again(i)

-----------------------------------------------------------------------------
(* createHttpRequestTask *)

AllowedStatuses(kind) ==
    IF kind = "object" THEN {"CheckingPairing", "Unpaired", "Paired"} ELSE {"Paired"}

\* The condition of m_authCV.wait.
MayProceed(kind) ==
    status \in {"Paired", "Unpaired", "Failed"} \cup AllowedStatuses(kind) \/ stop

\* wait evaluates its condition under the lock ...
WaitEvaluate(i) ==
    /\ At(i, "wait")
    /\ ~locked
    /\ IF MayProceed(pool[i].kind)
       THEN pool' = Goto(i, "check") /\ UNCHANGED locked
       ELSE pool' = Goto(i, "falling") /\ locked' = TRUE
    /\ UNCHANGED <<status, refreshing, stop, timer, keys, serverVars, misled>>

\* ... and goes to sleep, releasing it; only a notification after that wakes it.
WaitSleep(i) ==
    /\ At(i, "falling")
    /\ pool' = Goto(i, "asleep")
    /\ locked' = FALSE
    /\ UNCHANGED <<status, refreshing, stop, timer, keys, serverVars, misled>>

\* checkAllowedStatuses, after deferredSetup and outside the lock.
CheckStatus(i) ==
    /\ At(i, "check")
    /\ pool' = IF status \in AllowedStatuses(pool[i].kind) THEN Goto(i, "send")
               ELSE With(i, [pool[i] EXCEPT
                                !.pc = "callback",
                                !.error = IF status = "Failed" THEN "AuthFailed"
                                          ELSE "NotPaired"])
    /\ UNCHANGED <<status, refreshing, locked, stop, timer, keys, serverVars, misled>>

\* The server serves the request: it carries the token stored last.
SendAccepted(i) ==
    /\ At(i, "send")
    /\ tokenValid
    /\ paired' = (paired /\ pool[i].kind # "unpair")
    /\ pool' = With(i, [pool[i] EXCEPT !.pc = "callback", !.error = "Success",
                                       !.paired = paired'])
    /\ UNCHANGED <<status, refreshing, locked, stop, timer, keys, tokenValid, news,
                   budget, misled>>

SendUnauthorized(i) ==
    /\ At(i, "send")
    /\ ~tokenValid
    /\ pool' = Goto(i, "got401")
    /\ UNCHANGED <<status, refreshing, locked, stop, timer, keys, serverVars, misled>>

\* No answer (code 0), before or after the server served the request: try again.
SendLost(i) ==
    /\ At(i, "send")
    /\ \/ UNCHANGED paired
       \/ tokenValid /\ pool[i].kind = "unpair" /\ paired' = FALSE
    /\ pool' = Again(i)
    /\ UNCHANGED <<status, refreshing, locked, stop, timer, keys, tokenValid, news,
                   budget, misled>>

\* Any other code ends the request.
SendRefused(i) ==
    /\ At(i, "send")
    /\ pool' = Goto(i, "callback")
    /\ UNCHANGED <<status, refreshing, locked, stop, timer, keys, serverVars, misled>>

MutantEverybodyContinues(i) ==
    /\ At(i, "got401")
    /\ ~locked
    /\ status' = IF status = "Failed" THEN status ELSE "NotAuthenticated"
    /\ pool' = Again(i)
    /\ UNCHANGED <<refreshing, locked, stop, timer, keys, serverVars, misled>>

\* 401, under the lock: leave it to whoever is authenticating, or do it oneself.
Unauthorized(i) ==
    /\ At(i, "got401")
    /\ ~locked
    /\ IF status \in {"NotAuthenticated", "Authenticating", "Failed"}
       THEN pool' = Again(i) /\ UNCHANGED status
       ELSE pool' = Goto(i, "stoptimer") /\ status' = "NotAuthenticated"
    /\ UNCHANGED <<refreshing, locked, stop, timer, keys, serverVars, misled>>

\* stopTokenRefreshTimer(), then the authentication task is called.
StopRefreshing(i) ==
    /\ At(i, "stoptimer")
    /\ timer' = FALSE
    /\ refreshing' = FALSE
    /\ pool' = Goto(i, "begin")
    /\ UNCHANGED <<status, locked, stop, keys, serverVars, misled>>

-----------------------------------------------------------------------------
(* createAuthenticateTask *)

\* normalAuthentication = !m_isRefreshingToken
AuthBegin(i) ==
    /\ At(i, "begin")
    /\ pool' = With(i, [pool[i] EXCEPT !.normal = ~refreshing,
                                       !.pc = IF refreshing THEN "mark" ELSE "lock"])
    /\ misled' = (misled \/ (refreshing /\ pool[i].kind # "auth"))
    /\ UNCHANGED <<status, refreshing, locked, stop, timer, keys, serverVars>>

MutantLockUnchecked(i) ==
    /\ At(i, "lock")
    /\ status' = "Authenticating"
    /\ locked' = TRUE
    /\ pool' = Goto(i, "mark")
    /\ UNCHANGED <<refreshing, stop, timer, keys, serverVars, misled>>

\* A normal authentication keeps the lock until it returns.
AuthLock(i) ==
    /\ At(i, "lock")
    /\ ~locked
    /\ IF status = "NotAuthenticated"
       THEN /\ status' = "Authenticating"
            /\ locked' = TRUE
            /\ pool' = Goto(i, "mark")
       ELSE /\ pool' = Return(i)
            /\ UNCHANGED <<status, locked>>
    /\ UNCHANGED <<refreshing, stop, timer, keys, serverVars, misled>>

AuthMark(i) ==
    /\ At(i, "mark")
    /\ refreshing' = TRUE
    /\ pool' = Goto(i, "token")
    /\ UNCHANGED <<status, locked, stop, timer, keys, serverVars, misled>>

Unlock(i) == locked' = (locked /\ ~pool[i].normal)

\* resolveKeys fails, the first time: the flag stays set, the resolvers are gone.
KeysUnresolved(i) ==
    /\ At(i, "token")
    /\ keys = "unresolved"
    /\ keys' = "none"
    /\ status' = "Failed"
    /\ pool' = Woken(Return(i))
    /\ Unlock(i)
    /\ UNCHANGED <<refreshing, stop, timer, serverVars, misled>>

MutantFailKeepsStatus(i) ==
    /\ At(i, "token")
    /\ keys' \in {keys, "none"} \ {"unresolved"}
    /\ timer' = FALSE
    /\ refreshing' = FALSE
    /\ pool' = Woken(Return(i))
    /\ Unlock(i)
    /\ UNCHANGED <<status, stop, serverVars, misled>>

\* The signature is empty, or the server refuses (400 once too often, 404 without
\* a new identity, any other code), or its reply makes no sense.
AuthFails(i) ==
    /\ At(i, "token")
    /\ keys' \in {"ready", "none"}
    /\ keys = "none" => keys' = "none"
    /\ status' = "Failed"
    /\ timer' = FALSE
    /\ refreshing' = FALSE
    /\ pool' = Woken(Return(i))
    /\ Unlock(i)
    /\ UNCHANGED <<stop, serverVars, misled>>

\* The reply comes after ~Net has begun.
AuthStopped(i) ==
    /\ At(i, "token")
    /\ stop
    /\ keys # "none"
    /\ status' = "Failed"
    /\ refreshing' = FALSE
    /\ keys' = "ready"
    /\ pool' = Woken(Return(i))
    /\ Unlock(i)
    /\ UNCHANGED <<timer, stop, serverVars, misled>>

\* 200, after any number of repetitions (no answer, a wrong timestamp, a new soft
\* key): store the token, start the refresh timer, notify.
AuthAccepted(i) ==
    /\ At(i, "token")
    /\ keys # "none"
    /\ ~stop
    /\ keys' = "ready"
    /\ tokenValid' = TRUE
    /\ timer' \in BOOLEAN        \* FALSE: "token expires too soon or is invalid"
    /\ timer => timer'
    /\ pool' = Woken(Goto(i, "accepted"))
    /\ UNCHANGED <<status, refreshing, locked, stop, paired, news, budget, misled>>

\* A normal authentication goes on to initializeConnectionState, whose first
\* request is the Scorbitron object; a refresh leaves the status alone.
AuthDone(i) ==
    /\ At(i, "accepted")
    /\ IF pool[i].normal
       THEN /\ status' = "CheckingPairing"
            /\ pool' = Append(Return(i), NewTask("object", "wait"))
       ELSE /\ pool' = Return(i)
            /\ UNCHANGED status
    /\ Unlock(i)
    /\ UNCHANGED <<refreshing, stop, timer, keys, serverVars, misled>>

Authenticate(i) ==
    \/ AuthBegin(i)
    \/ AuthLock(i)
    \/ AuthMark(i)
    \/ KeysUnresolved(i)
    \/ AuthFails(i)
    \/ AuthStopped(i)
    \/ AuthAccepted(i)
    \/ AuthDone(i)

-----------------------------------------------------------------------------
(* Reply callbacks and channel messages *)

\* parseScorbitronObject, m_status part: the status of the reply, if it is new.
ParsedStatus(t) == IF t.paired THEN "Paired" ELSE "Unpaired"

NotifiedIf(changed, p) == IF changed THEN Woken(p) ELSE p

CallbackObject(i) ==
    /\ At(i, "callback")
    /\ pool[i].kind = "object"
    /\ IF pool[i].error = "Success"
       THEN /\ status' = ParsedStatus(pool[i])
            /\ pool' = NotifiedIf(status' # status, Without(i))
       ELSE /\ pool' = Without(i)
            /\ UNCHANGED status
    /\ UNCHANGED <<refreshing, locked, stop, timer, keys, serverVars, misled>>

CallbackRequest(i) ==
    /\ At(i, "callback")
    /\ pool[i].kind = "request"
    /\ pool' = Without(i)
    /\ UNCHANGED <<status, refreshing, locked, stop, timer, keys, serverVars, misled>>

\* requestUnpair: the reply is parsed, and both Success and NotPaired make the
\* machine unpaired and are reported as Success.
CallbackUnpair(i) ==
    /\ At(i, "callback")
    /\ pool[i].kind = "unpair"
    /\ IF pool[i].error \in {"Success", "NotPaired"}
       THEN /\ status' = "Unpaired"
            /\ pool' = NotifiedIf(pool[i].error = "Success" /\ status' # status, Without(i))
       ELSE /\ pool' = Without(i)
            /\ UNCHANGED status
    /\ UNCHANGED <<refreshing, locked, stop, timer, keys, serverVars, misled>>

\* onPaired sends the object again and notifies nobody.
OnPaired ==
    /\ "paired" \in news
    /\ ~stop
    /\ news' = news \ {"paired"}
    /\ status' = "Paired"
    /\ pool' = Append(pool, NewTask("object", "wait"))
    /\ UNCHANGED <<refreshing, locked, stop, timer, keys, tokenValid, paired, budget,
                   misled>>

OnUnpaired ==
    /\ "unpaired" \in news
    /\ ~stop
    /\ news' = news \ {"unpaired"}
    /\ status' = "Unpaired"
    /\ pool' = Woken(pool)
    /\ UNCHANGED <<refreshing, locked, stop, timer, keys, tokenValid, paired, budget,
                   misled>>

-----------------------------------------------------------------------------
(* The token refresh timer *)

\* The timer expires: its handler can no longer be cancelled.
RefreshTimerExpires ==
    /\ timer
    /\ Disturb("refresh")
    /\ timer' = FALSE
    /\ pool' = Append(pool, NewTask("refresh", "begin"))
    /\ UNCHANGED <<status, refreshing, locked, stop, keys, tokenValid, paired, news,
                   misled>>

\* The handler sets the flag and posts an authentication task.
RefreshTriggered(i) ==
    /\ pool[i].kind = "refresh"
    /\ refreshing' = TRUE
    /\ pool' = Append(Without(i), NewTask("auth", "begin"))
    /\ UNCHANGED <<status, locked, stop, timer, keys, serverVars, misled>>

-----------------------------------------------------------------------------
(* The application, the owner and the server *)

PostRequest(kind) ==
    /\ ~stop
    /\ budget.requests > 0
    /\ budget' = [budget EXCEPT !.requests = @ - 1]
    /\ pool' = Append(pool, NewTask(kind, "wait"))
    /\ UNCHANGED <<status, refreshing, locked, stop, timer, keys, tokenValid, paired,
                   news, misled>>

TokenExpires ==
    /\ tokenValid
    /\ Disturb("expiry")
    /\ tokenValid' = FALSE
    /\ UNCHANGED <<status, refreshing, locked, stop, timer, keys, pool, paired, news,
                   misled>>

\* The pairing changes on the server, which may or may not reach the channel.
PairingChanges ==
    /\ Disturb("pairing")
    /\ paired' = ~paired
    /\ news' \in {news, {IF paired' THEN "paired" ELSE "unpaired"}}
    /\ UNCHANGED <<status, refreshing, locked, stop, timer, keys, pool, tokenValid,
                   misled>>

\* ~Net, up to the notification; then it waits for the pool to drain.
Stop ==
    /\ ~stop
    /\ Disturb("stop")
    /\ stop' = TRUE
    /\ timer' = FALSE
    /\ refreshing' = FALSE
    /\ pool' = Woken(pool)
    /\ UNCHANGED <<status, locked, keys, tokenValid, paired, news, misled>>

-----------------------------------------------------------------------------
RunTask(i) ==
    \/ WaitEvaluate(i)
    \/ WaitSleep(i)
    \/ CheckStatus(i)
    \/ SendAccepted(i)
    \/ SendUnauthorized(i)
    \/ SendLost(i)
    \/ SendRefused(i)
    \/ Unauthorized(i)
    \/ StopRefreshing(i)
    \/ CallbackObject(i)
    \/ CallbackRequest(i)
    \/ CallbackUnpair(i)
    \/ IF pool[i].kind = "refresh" THEN RefreshTriggered(i) ELSE Authenticate(i)

RunPool == \E i \in Running : RunTask(i)

Next ==
    \/ RunPool
    \/ OnPaired
    \/ OnUnpaired
    \/ RefreshTimerExpires
    \/ \E kind \in {"request", "unpair"} : PostRequest(kind)
    \/ TokenExpires
    \/ PairingChanges
    \/ Stop

Spec == Init /\ [][Next]_vars

\* The pool threads keep running their tasks, and the server answers a token
\* request in the end; every task makes finitely many steps within the bounds.
FairSpec == Spec /\ WF_vars(RunPool)

-----------------------------------------------------------------------------
(* Properties *)

\* The task at i holds m_authMutex.
Holds(i) ==
    \/ At(i, "falling")
    \/ pool[i].normal /\ pool[i].pc \in {"mark", "token", "accepted"}

\* The status Authenticating, which makes every request wait, belongs to exactly
\* one running authentication that holds the lock: whatever replies, messages and
\* refreshes overwrite the status meanwhile, and however that task ends, nobody is
\* left waiting for an authentication that is over.
AuthenticatingIsOwned ==
    /\ status = "Authenticating" =>
         \E i \in Running : pool[i].normal /\ pool[i].pc \in {"mark", "token", "accepted"}
    /\ Cardinality({i \in DOMAIN pool : Holds(i)}) = IF locked THEN 1 ELSE 0

\* The task at i will take the lock and find out whether it has to authenticate.
WillAuthenticate(i) ==
    \/ At(i, "stoptimer")
    \/ At(i, "begin") /\ pool[i].kind # "refresh"
    \/ At(i, "lock")

\* A lost authentication is recovered: while the status is NotAuthenticated some
\* task is on its way to authenticate again, although a second task that got 401
\* leaves it to the first and stale replies overwrite the status in between.  The
\* one exception the code has is an inline authentication that finds
\* m_isRefreshingToken set by somebody else and takes itself for a refresh.
RecoveryPending ==
    status = "NotAuthenticated" /\ ~misled => \E i \in DOMAIN pool : WillAuthenticate(i)

\* With the same exception, authentication always comes to an end: the status
\* does not stay NotAuthenticated or Authenticating.
AuthenticationCompletes ==
    status \in {"NotAuthenticated", "Authenticating"} ~>
        misled \/ status \notin {"NotAuthenticated", "Authenticating"}

=============================================================================
