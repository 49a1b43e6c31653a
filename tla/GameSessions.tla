---------------------------- MODULE GameSessions ----------------------------
(***************************************************************************)
(* How Net carries game data to the cloud (net.cpp: sessionCreate,         *)
(* submitGameData, sessionUpdate, createSessionUpdateTask,                 *)
(* sendLatestGameData), composed with GameState, which makes the calls.    *)
(*                                                                         *)
(* The work is spread over one pool of threads (worker.cpp):               *)
(*   pool       handlers no strand serialises: the lambda each             *)
(*              submitGameData posts and the handlers of expired timers.   *)
(*              They start in order; the first Threads of them run at the  *)
(*              same time, each at its own stage.                          *)
(*   commitQ    the commit strand: publications of the latest data.        *)
(*   sessionQ   the session strand: HTTP requests that create or update a  *)
(*              session, one at a time.                                    *)
(* The SessionUpdate and GameData timers are one each for all sessions.    *)
(* A game datum is known here by the number of its submission.  Player     *)
(* profiles in replies, shutdown (m_stop) and the content of requests are  *)
(* left out; a request can fail, and may wait for authentication as long   *)
(* as it likes.                                                            *)
(***************************************************************************)
EXTENDS GameState, SequencesExt, FiniteSetsExt

CONSTANTS Threads,     \* pool threads that run unserialised handlers
          MaxCounter   \* bound: publications per session

ASSUME SessionsAssumption == Threads \in Nat \ {0} /\ MaxCounter \in Nat

VARIABLES sessions,    \* m_gameSessions: a record for each session id present
          pool,        \* unserialised handlers, running and waiting
          updateTimer, \* Timer::SessionUpdate: the update it will make, if armed
          dataTimer,   \* Timer::GameData: the session it will send, if armed
          commitQ,     \* session ids waiting in the commit strand
          committing,  \* the commit task past its snapshot, at most one
          sessionQ,    \* HTTP tasks of the session strand, the first one running
          settled      \* ghost: sessions the server has been told are completed

netVars == <<sessions, pool, updateTimer, dataTimer, commitQ, committing,
             sessionQ, settled>>
vars == <<gameVars, netVars>>

Ids == 0..MaxGames

\* GameSession: gameData is the number of a submission and whether the game is
\* active in it; uuid says that sessionUuid is not empty.
GameSession == [counter: Nat, uuid: BOOLEAN, active: BOOLEAN, number: Nat,
                history: Seq(Nat)]

Stages == {"write", "send", "update", "compose", "enqueue"}

\* A handler in the pool.  Its history and counter are those of the request it
\* has composed.
PoolTask == [stage: Stages, id: Ids, active: BOOLEAN, number: Nat,
             flags: SUBSET SessionFlag, counter: Nat, history: Seq(Nat)]

Postponed == [id: Ids, flags: SUBSET SessionFlag]

HttpTask == [kind: {"create", "created", "patch"}, id: Ids, active: BOOLEAN,
             counter: Nat, history: Seq(Nat)]

TypeOK ==
    /\ GameTypeOK
    /\ DOMAIN sessions \subseteq Ids
    /\ \A id \in DOMAIN sessions : sessions[id] \in GameSession
    /\ pool \in Seq(PoolTask)
    /\ updateTimer \subseteq Postponed /\ Cardinality(updateTimer) <= 1
    /\ dataTimer \subseteq Ids /\ Cardinality(dataTimer) <= 1
    /\ commitQ \in Seq(Ids)
    /\ committing \subseteq [id: Ids, active: BOOLEAN, uuid: BOOLEAN]
    /\ sessionQ \in Seq(HttpTask)
    /\ settled \subseteq Ids

Init ==
    /\ GameInit
    /\ sessions = <<>>
    /\ pool = <<>>
    /\ updateTimer = {}
    /\ dataTimer = {}
    /\ commitQ = <<>>
    /\ committing = {}
    /\ sessionQ = <<>>
    /\ settled = {}

NewSession == [counter |-> 0, uuid |-> FALSE, active |-> FALSE, number |-> 0,
               history |-> <<>>]

\* m_gameSessions[id], which inserts a default session for an unknown id.
Session(id) == IF id \in DOMAIN sessions THEN sessions[id] ELSE NewSession

Put(id, s) == [i \in DOMAIN sessions \cup {id} |-> IF i = id THEN s ELSE sessions[i]]
Erase(id)  == [i \in DOMAIN sessions \ {id} |-> sessions[i]]

-----------------------------------------------------------------------------
(* The calls GameState makes *)

\* submitGameData only posts a lambda to the pool.
SubmitTask(c) ==
    [stage |-> "write", id |-> c.data.id, active |-> c.data.isGameActive,
     number |-> c.number, flags |-> c.flags, counter |-> 0, history |-> <<>>]

\* sessionCreate stores the session; createSessionCreateTask, called at once,
\* takes the first sequence number and the request joins the session strand.
SessionCreate(d) ==
    /\ sessions' = Put(d.id, [Session(d.id) EXCEPT !.active = d.isGameActive,
                                                   !.number = 0,
                                                   !.counter = @ + 1,
                                                   !.history = Append(@, 0)])
    /\ sessionQ' = Append(sessionQ, [kind |-> "create", id |-> d.id, active |-> TRUE,
                                     counter |-> sessions'[d.id].counter,
                                     history |-> <<>>])
    /\ UNCHANGED pool

\* What the calls of an API operation do in Net.
Receive(cs) ==
    IF \E i \in DOMAIN cs : cs[i].op = "create"
    THEN SessionCreate(Head(cs).data)
    ELSE /\ pool' = pool \o [i \in DOMAIN cs |-> SubmitTask(cs[i])]
         /\ UNCHANGED <<sessions, sessionQ>>

Api ==
    /\ ApiOp
    /\ Receive(calls')
    /\ UNCHANGED <<updateTimer, dataTimer, commitQ, committing, settled>>

-----------------------------------------------------------------------------
(* Pool handlers *)

\* Positions of the handlers that run now.
Running == {i \in DOMAIN pool : i <= Threads}

Advance(i, t) == pool' = [pool EXCEPT ![i] = t]
Finish(i)     == pool' = RemoveAt(pool, i)

\* Steps of Net leave GameState alone, except that no call is outstanding.
NetOnly ==
    calls' = <<>> /\ UNCHANGED <<data, prevData, finishing, sessionId, authChanges, serial>>

\* The lambda's first critical section: store the data and its history; the data
\* is sent at once if it is the game's last or nothing was published yet.
WriteData(i) ==
    LET t == pool[i]
        s == Session(t.id)
    IN  /\ t.stage = "write"
        /\ sessions' = Put(t.id, [s EXCEPT !.active = t.active, !.number = t.number,
                                           !.history = Append(@, t.number)])
        /\ Advance(i, [t EXCEPT !.stage =
                           IF ~t.active \/ s.counter = 1 THEN "send" ELSE "update"])
        /\ NetOnly
        /\ UNCHANGED <<updateTimer, dataTimer, commitQ, committing, sessionQ, settled>>

\* sendLatestGameData posts its work to the commit strand.
PostCommit(i) ==
    LET t == pool[i]
    IN  /\ t.stage = "send"
        /\ commitQ' = Append(commitQ, t.id)
        /\ Advance(i, [t EXCEPT !.stage = "update"])
        /\ NetOnly
        /\ UNCHANGED <<sessions, updateTimer, dataTimer, committing, sessionQ, settled>>

MustDebounce(flags) ==
    /\ "UploadHistoryLogs" \notin flags
    /\ "Debounced" \notin flags
    /\ "PlayersAdd" \in flags

\* sessionUpdate: cancel the one SessionUpdate timer, then either put the update
\* off in case another player joins, or go on to compose it.
SessionUpdate(i) ==
    LET t == pool[i]
    IN  /\ t.stage = "update"
        /\ t.flags # {}
        /\ IF MustDebounce(t.flags)
           THEN /\ updateTimer' = {[id |-> t.id, flags |-> t.flags \cup {"Debounced"}]}
                /\ Finish(i)
           ELSE /\ updateTimer' = {}
                /\ Advance(i, [t EXCEPT !.stage = "compose"])
        /\ NetOnly
        /\ UNCHANGED <<sessions, dataTimer, commitQ, committing, sessionQ, settled>>

\* if (flags): nothing to update.
NoUpdate(i) ==
    /\ pool[i].stage = "update"
    /\ pool[i].flags = {}
    /\ Finish(i)
    /\ NetOnly
    /\ UNCHANGED <<sessions, updateTimer, dataTimer, commitQ, committing,
                   sessionQ, settled>>

\* createSessionUpdateTask: the request is composed from the session as it is
\* now; without a uuid the update is put off on the SessionUpdate timer, and
\* without a session nothing is sent.
ComposeUpdate(i) ==
    LET t == pool[i]
    IN  /\ t.stage = "compose"
        /\ \/ /\ t.id \notin DOMAIN sessions
              /\ Finish(i)
              /\ UNCHANGED updateTimer
           \/ /\ t.id \in DOMAIN sessions
              /\ ~sessions[t.id].uuid
              /\ updateTimer' = {[id |-> t.id, flags |-> t.flags]}
              /\ Finish(i)
           \/ /\ t.id \in DOMAIN sessions
              /\ sessions[t.id].uuid
              /\ Advance(i, [t EXCEPT !.stage = "enqueue",
                                      !.active = sessions[t.id].active,
                                      !.counter = sessions[t.id].counter,
                                      !.history = IF "UploadHistoryLogs" \in t.flags
                                                  THEN sessions[t.id].history ELSE <<>>])
              /\ UNCHANGED updateTimer
        /\ NetOnly
        /\ UNCHANGED <<sessions, dataTimer, commitQ, committing, sessionQ, settled>>

\* postSessionQueue, after the lock of the composition was released.
EnqueueUpdate(i) ==
    LET t == pool[i]
    IN  /\ t.stage = "enqueue"
        /\ sessionQ' = Append(sessionQ, [kind |-> "patch", id |-> t.id,
                                         active |-> t.active, counter |-> t.counter,
                                         history |-> t.history])
        /\ Finish(i)
        /\ NetOnly
        /\ UNCHANGED <<sessions, updateTimer, dataTimer, commitQ, committing, settled>>

RunHandler(i) ==
    \/ WriteData(i)
    \/ PostCommit(i)
    \/ SessionUpdate(i)
    \/ NoUpdate(i)
    \/ ComposeUpdate(i)
    \/ EnqueueUpdate(i)

\* A timer expires: its handler joins the pool and can no longer be cancelled.
UpdateTimerExpires ==
    \E u \in updateTimer :
        /\ updateTimer' = {}
        /\ pool' = Append(pool, [stage |-> "update", id |-> u.id, active |-> FALSE,
                                 number |-> 0, flags |-> u.flags, counter |-> 0,
                                 history |-> <<>>])
        /\ NetOnly
        /\ UNCHANGED <<sessions, dataTimer, commitQ, committing, sessionQ, settled>>

DataTimerExpires ==
    \E id \in dataTimer :
        /\ dataTimer' = {}
        /\ pool' = Append(pool, [stage |-> "send", id |-> id, active |-> FALSE,
                                 number |-> 0, flags |-> {}, counter |-> 0,
                                 history |-> <<>>])
        /\ NetOnly
        /\ UNCHANGED <<sessions, updateTimer, commitQ, committing, sessionQ, settled>>

-----------------------------------------------------------------------------
(* The commit strand: sendLatestGameData's task *)

\* It cancels the GameData timer and copies the session under the lock; without
\* the session it ends there.
CommitSnapshot ==
    /\ commitQ # <<>>
    /\ committing = {}
    /\ commitQ' = Tail(commitQ)
    /\ dataTimer' = {}
    /\ LET id == Head(commitQ) IN
       committing' = IF id \in DOMAIN sessions
                     THEN {[id |-> id, active |-> sessions[id].active,
                            uuid |-> sessions[id].uuid]}
                     ELSE {}
    /\ NetOnly
    /\ UNCHANGED <<sessions, pool, updateTimer, sessionQ, settled>>

\* m_centrifugo is null between the retirement of a client and the set-up of the
\* next one, which a restart may bring about at any time: the task ends as soon as
\* it has cancelled the timer.
CommitNoClient ==
    /\ commitQ # <<>>
    /\ committing = {}
    /\ commitQ' = Tail(commitQ)
    /\ dataTimer' = {}
    /\ NetOnly
    /\ UNCHANGED <<sessions, pool, updateTimer, committing, sessionQ,
                   settled>>

\* Re-arm the timer for a running game; a finished one asks for credits instead.
Rearm(c) == dataTimer' = IF c.active THEN {c.id} ELSE dataTimer

\* No uuid yet, or the client is not connected: nothing is published.
CommitSkip ==
    \E c \in committing :
        /\ Rearm(c)
        /\ committing' = {}
        /\ NetOnly
        /\ UNCHANGED <<sessions, pool, updateTimer, commitQ, sessionQ, settled>>

\* Connected and with a uuid: take the next sequence number, if the session is
\* still there, and publish the copy.
CommitPublish ==
    \E c \in committing :
        /\ c.uuid
        /\ \/ /\ c.id \notin DOMAIN sessions
              /\ UNCHANGED <<sessions, dataTimer>>
           \/ /\ c.id \in DOMAIN sessions
              /\ sessions[c.id].counter < MaxCounter
              /\ sessions' = [sessions EXCEPT ![c.id].counter = @ + 1]
              /\ Rearm(c)
        /\ committing' = {}
        /\ NetOnly
        /\ UNCHANGED <<pool, updateTimer, commitQ, sessionQ, settled>>

-----------------------------------------------------------------------------
(* The session strand: one HTTP request at a time *)

HeadIs(kind) == sessionQ # <<>> /\ Head(sessionQ).kind = kind

\* Reply to a create request: the uuid is stored if the session is still there,
\* and onCreated is called next.
CreateSucceeds ==
    /\ HeadIs("create")
    /\ LET id == Head(sessionQ).id IN
       IF id \in DOMAIN sessions
       THEN /\ sessions' = [sessions EXCEPT ![id].uuid = TRUE]
            /\ sessionQ' = [sessionQ EXCEPT ![1].kind = "created"]
       ELSE /\ sessionQ' = Tail(sessionQ)
            /\ UNCHANGED sessions
    /\ NetOnly
    /\ UNCHANGED <<pool, updateTimer, dataTimer, commitQ, committing, settled>>

\* A request that fails for good is only logged, whatever it was.
RequestFails ==
    /\ HeadIs("create") \/ HeadIs("patch")
    /\ sessionQ' = Tail(sessionQ)
    /\ NetOnly
    /\ UNCHANGED <<sessions, pool, updateTimer, dataTimer, commitQ, committing, settled>>

\* onCreated runs on the session strand's thread: GameState submits again.
SessionCreated ==
    /\ HeadIs("created")
    /\ OnCreated
    /\ pool' = pool \o [i \in DOMAIN calls' |-> SubmitTask(calls'[i])]
    /\ sessionQ' = Tail(sessionQ)
    /\ UNCHANGED <<sessions, updateTimer, dataTimer, commitQ, committing, settled>>

MutantEraseAlways ==
    /\ HeadIs("patch")
    /\ sessions' = Erase(Head(sessionQ).id)
    /\ settled' = IF Head(sessionQ).active THEN settled ELSE settled \cup {Head(sessionQ).id}
    /\ sessionQ' = Tail(sessionQ)
    /\ NetOnly
    /\ UNCHANGED <<pool, updateTimer, dataTimer, commitQ, committing>>

\* Reply to an update: erase the session if its game is finished by now (an
\* unknown session is inserted as an inactive one and erased again).
PatchSucceeds ==
    /\ HeadIs("patch")
    /\ LET t == Head(sessionQ) IN
       /\ sessions' = IF Session(t.id).active THEN sessions ELSE Erase(t.id)
       /\ settled' = IF t.active THEN settled ELSE settled \cup {t.id}
    /\ sessionQ' = Tail(sessionQ)
    /\ NetOnly
    /\ UNCHANGED <<pool, updateTimer, dataTimer, commitQ, committing>>

AuthChanges ==
    /\ AuthenticationChanges
    /\ UNCHANGED netVars

Next ==
    \/ Api
    \/ \E i \in Running : RunHandler(i)
    \/ UpdateTimerExpires
    \/ DataTimerExpires
    \/ CommitSnapshot
    \/ CommitNoClient
    \/ CommitSkip
    \/ CommitPublish
    \/ CreateSucceeds
    \/ RequestFails
    \/ SessionCreated
    \/ PatchSucceeds
    \/ AuthChanges

Spec == Init /\ [][Next]_vars

-----------------------------------------------------------------------------
(* Properties *)

\* The game being played always has its session: the reply to an update erases a
\* session only if the game data stored last says it is over, and no order of the
\* pool handlers makes that true of the current game.
CurrentSessionKept == data.isGameActive => data.id \in DOMAIN sessions

\* The server is told "successfully_completed" only for games that are over: no
\* request in the strand or already answered settles the game in progress.
SettledOnlyAfterFinish ==
    data.isGameActive =>
        /\ data.id \notin settled
        /\ \A i \in DOMAIN sessionQ :
              sessionQ[i].kind = "patch" /\ ~sessionQ[i].active => sessionQ[i].id # data.id

=============================================================================
