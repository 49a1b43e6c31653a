------------------------------- MODULE Services ------------------------------
(***************************************************************************)
(* What Net serves on its one strand m_strand (net.cpp): pair codes,       *)
(* leaderboards with their deferral, and downloads, of which the players'  *)
(* pictures are the SDK's own (player_profiles_manager.cpp, lru_cache.hpp).*)
(*                                                                         *)
(* The strand runs one handler at a time, in order.  A handler may block:  *)
(* the one for the pair code waits on m_shortCodeCV.  Deferred leaderboard *)
(* requests wait on the one LeaderboardDeferred timer of the worker.       *)
(* Replies with player profiles are processed under m_gameSessionsMutex,   *)
(* one at a time, on another thread.                                       *)
(***************************************************************************)
EXTENDS Naturals, Sequences, FiniteSets, SequencesExt

CONSTANTS Requests,   \* calls of requestPairCode and requestTopScores
          Players,    \* player numbers
          Urls,       \* picture URLs
          NoUrl,      \* a profile without a picture
          Lists,      \* the players' pictures in the server's replies
          Capacity,   \* MAX_PICTURES_CACHED
          MaxDefer,   \* TOP_SCORES_DEFER_MAX_ATTEMPTS
          Budgets     \* bounds, one of them for a behaviour: calls of the client, replies
                      \* with profiles, changes of the pairing status

ASSUME ServicesAssumption ==
    /\ NoUrl \notin Urls
    /\ Lists \subseteq [Players -> Urls \cup {NoUrl}]
    /\ Capacity \in Nat \ {0}
    /\ MaxDefer \in Nat
    /\ Players \subseteq Nat
    /\ Budgets \subseteq [calls: Nat, replies: Nat, changes: Nat]

VARIABLES strand,    \* the handlers queued on m_strand
          run,       \* the handler that runs, and where it is
          deferral,  \* what the LeaderboardDeferred timer waits to do
          expired,   \* its handlers that can no longer be cancelled
          answers,   \* how often each request's callback has been called
          called,    \* requests that have been made
          context,   \* m_status and whether m_machineInfo has what a scope needs
          code,      \* m_cachedShortCode is not empty
          stop,      \* where ~Net is
          profiles,  \* m_profiles: the picture of each player
          cache,     \* m_picturesCache, most recently used first
          todo,      \* pictures processScoresAndPlayersProfiles has still to start
          budget,    \* what is left of the bounds
          superseded,\* ghost: requests whose timer another request has taken
          cancelled, \* ghost: requests whose timer ~Net has stopped
          missed     \* ghost: ~Net notified while the waiter was about to sleep

wait == <<strand, run, deferral, expired>>
client == <<answers, called>>
pictures == <<profiles, cache, todo>>
ghosts == <<superseded, cancelled, missed>>
servicesVars == <<wait, client, context, code, stop, pictures, budget, ghosts>>

Top  == [kind: {"top"}, id: Requests, valid: BOOLEAN, attempt: 0..MaxDefer]
Pair == [kind: {"pair"}, id: Requests]
Pic  == [kind: {"picture"}, player: Players, url: Urls]
Idle == [kind |-> "idle"]

Statuses == {"Authenticating", "Failed", "Unpaired", "Paired"}

ServicesTypeOK ==
    /\ strand \in Seq(Top \cup Pair \cup Pic)
    /\ run \in [job: Top \cup Pair \cup Pic \cup {Idle}, at: {"start", "get", "tested", "asleep"}]
    /\ deferral \in Top \cup {Idle}
    /\ expired \subseteq Top
    /\ answers \in [Requests -> 0..1]
    /\ called \subseteq Requests
    /\ context \in [status: Statuses, ready: BOOLEAN]
    /\ code \in BOOLEAN
    /\ stop \in {"no", "set", "notified", "joining"}
    /\ profiles \in [Players -> Urls \cup {NoUrl}]
    /\ cache \in Seq([url: Urls, full: BOOLEAN])
    /\ Len(cache) <= Capacity
    /\ \A i, j \in DOMAIN cache : cache[i].url = cache[j].url => i = j
    /\ todo \subseteq Players \X Urls
    /\ budget \in [calls: Nat, replies: Nat, changes: Nat]
    /\ superseded \subseteq Requests
    /\ cancelled \subseteq Requests
    /\ missed \in BOOLEAN

ServicesInit ==
    /\ strand = <<>>
    /\ run = [job |-> Idle, at |-> "start"]
    /\ deferral = Idle
    /\ expired = {}
    /\ answers = [r \in Requests |-> 0]
    /\ called = {}
    /\ context = [status |-> "Authenticating", ready |-> FALSE]
    /\ code = FALSE
    /\ stop = "no"
    /\ profiles = [p \in Players |-> NoUrl]
    /\ cache = <<>>
    /\ todo = {}
    /\ budget \in Budgets
    /\ superseded = {}
    /\ cancelled = {}
    /\ missed = FALSE

Stopped == stop # "no"

PostQueue(job) == strand' = Append(strand, job)

Callback(r) == answers' = [answers EXCEPT ![r] = @ + 1]

\* The handler returns.
Done == run' = [job |-> Idle, at |-> "start"]

-----------------------------------------------------------------------------
(* Calls of the client.  After ~Net has begun there are none. *)

\* requestPairCode: at once when the code is cached.
RequestPairCode(r) ==
    /\ r \notin called /\ ~Stopped
    /\ budget.calls > 0
    /\ budget' = [budget EXCEPT !.calls = @ - 1]
    /\ called' = called \cup {r}
    /\ IF code THEN Callback(r) /\ UNCHANGED strand
               ELSE PostQueue([kind |-> "pair", id |-> r]) /\ UNCHANGED answers
    /\ UNCHANGED <<run, deferral, expired, context, code, stop, pictures, ghosts>>

\* requestTopScores; valid: the scope, the period and the filter are ones of the API.
RequestTopScores(r, valid) ==
    /\ r \notin called /\ ~Stopped
    /\ budget.calls > 0
    /\ budget' = [budget EXCEPT !.calls = @ - 1]
    /\ called' = called \cup {r}
    /\ PostQueue([kind |-> "top", id |-> r, valid |-> valid, attempt |-> 0])
    /\ UNCHANGED <<run, deferral, expired, answers, context, code, stop, pictures, ghosts>>

-----------------------------------------------------------------------------
(* The strand. *)

StrandTakes ==
    /\ run.job = Idle /\ strand # <<>>
    /\ run' = [job |-> Head(strand), at |-> "start"]
    /\ strand' = Tail(strand)
    /\ UNCHANGED <<deferral, expired, client, context, code, stop, pictures, budget, ghosts>>

Runs(kind, at) == run.job.kind = kind /\ run.at = at

\* leaderboardRequestTerminalError.
TerminalError == context.status \in {"Failed", "Unpaired"}

\* isLeaderboardContextReady.
ContextReady == context.status = "Paired" /\ context.ready

\* Mutant of the next definition: the handler goes on after the error.
MutantNoReturn ==
    /\ Runs("top", "start")
    /\ ~run.job.valid \/ TerminalError
    /\ Callback(run.job.id)
    /\ run' = [run EXCEPT !.at = "get"]
    /\ UNCHANGED <<strand, deferral, expired, called, context, code, stop, pictures, budget, ghosts>>

\* requestTopScoresImpl: bad arguments, a status that does not change by itself, or too many
\* attempts end the request with an error.
TopScoresFails ==
    /\ Runs("top", "start")
    /\ \/ ~run.job.valid
       \/ TerminalError
       \/ ~ContextReady /\ run.job.attempt = MaxDefer
    /\ Callback(run.job.id)
    /\ Done
    /\ UNCHANGED <<strand, deferral, expired, called, context, code, stop, pictures, budget, ghosts>>

\* Mutant of the next definition: the attempts are not counted.
MutantNoAttempt ==
    /\ Runs("top", "start") /\ run.job.valid /\ ~TerminalError /\ ~ContextReady
    /\ deferral' = run.job
    /\ superseded' = IF deferral = Idle THEN superseded ELSE superseded \cup {deferral.id}
    /\ Done
    /\ UNCHANGED <<strand, expired, client, context, code, stop, pictures, budget, cancelled,
                   missed>>

\* The request is deferred: startTimer cancels what the timer was waiting for.
TopScoresDefers ==
    /\ Runs("top", "start") /\ run.job.valid /\ ~TerminalError /\ ~ContextReady
    /\ run.job.attempt < MaxDefer
    /\ deferral' = [run.job EXCEPT !.attempt = @ + 1]
    /\ superseded' = IF deferral = Idle THEN superseded ELSE superseded \cup {deferral.id}
    /\ Done
    /\ UNCHANGED <<strand, expired, client, context, code, stop, pictures, budget, cancelled,
                   missed>>

\* The request for the scores runs inside the handler ...
TopScoresGets ==
    /\ Runs("top", "start") /\ run.job.valid /\ ContextReady
    /\ run' = [run EXCEPT !.at = "get"]
    /\ UNCHANGED <<strand, deferral, expired, client, context, code, stop, pictures, budget, ghosts>>

\* ... and its reply, parsed or not, or its failure goes to the callback.
TopScoresReply ==
    /\ Runs("top", "get")
    /\ Callback(run.job.id)
    /\ Done
    /\ UNCHANGED <<strand, deferral, expired, called, context, code, stop, pictures, budget, ghosts>>

\* The wait of requestPairCode's handler: the predicate is tested under m_shortCodeMutex.
PairCodeTests ==
    /\ Runs("pair", "start")
    /\ IF code \/ Stopped
         THEN Callback(run.job.id) /\ Done
         ELSE run' = [run EXCEPT !.at = "tested"] /\ UNCHANGED answers
    /\ UNCHANGED <<strand, deferral, expired, called, context, code, stop, pictures, budget, ghosts>>

PairCodeSleeps ==
    /\ Runs("pair", "tested")
    /\ run' = [run EXCEPT !.at = "asleep"]
    /\ UNCHANGED <<strand, deferral, expired, client, context, code, stop, pictures, budget, ghosts>>

\* notify_all of m_shortCodeCV: a thread that sleeps tests again.
Woken == run' = IF Runs("pair", "asleep") THEN [run EXCEPT !.at = "start"] ELSE run

\* parseScorbitronObject brings the code, under the mutex, which the tester holds.
CodeArrives ==
    /\ ~code /\ ~Runs("pair", "tested") /\ ~Stopped
    /\ code' = TRUE
    /\ Woken
    /\ UNCHANGED <<strand, deferral, expired, client, context, stop, pictures, budget, ghosts>>

-----------------------------------------------------------------------------
(* The timer, and what the other parts of Net do to the status. *)

DeferralExpires ==
    /\ deferral # Idle
    /\ expired' = expired \cup {deferral}
    /\ deferral' = Idle
    /\ UNCHANGED <<strand, run, client, context, code, stop, pictures, budget, ghosts>>

TimerHandler(job) ==
    /\ job \in expired
    /\ expired' = expired \ {job}
    /\ PostQueue(job)
    /\ UNCHANGED <<run, deferral, client, context, code, stop, pictures, budget, ghosts>>

ContextChanges(c) ==
    /\ budget.changes > 0 /\ c # context
    /\ c.ready => c.status = "Paired"
    /\ context' = c
    /\ budget' = [budget EXCEPT !.changes = @ - 1]
    /\ UNCHANGED <<wait, client, code, stop, pictures, ghosts>>

-----------------------------------------------------------------------------
(* Player profiles and pictures. *)

Cached(c, url) == \E i \in DOMAIN c : c[i].url = url

\* The place of a key in m_usage, which the map knows.
Place(c, url) == CHOOSE i \in DOMAIN c : c[i].url = url

\* LRUCache::erase and put: a known key moves to the front, a new one takes the place of the
\* least recently used.
Erase(c, url) == IF Cached(c, url) THEN RemoveAt(c, Place(c, url)) ELSE c

Put(c, url, full) ==
    LET rest == IF Cached(c, url) THEN Erase(c, url)
                ELSE IF Len(c) = Capacity THEN Front(c) ELSE c
    IN  <<[url |-> url, full |-> full]>> \o rest

\* picturesToDownload: the players whose picture is not in the cache.
PicturesToDownload(prof) ==
    {<<p, prof[p]>> : p \in {q \in Players : prof[q] # NoUrl /\ ~Cached(cache, prof[q])}}

\* setProfiles and then, when pictures are downloaded automatically, what is missing.
ProcessProfiles(prof) ==
    /\ budget.replies > 0 /\ todo = {} /\ stop # "joining"
    /\ budget' = [budget EXCEPT !.replies = @ - 1]
    /\ profiles' = prof
    /\ todo' = PicturesToDownload(prof)
    /\ UNCHANGED <<wait, client, context, code, stop, cache, ghosts>>

\* One picture of the list, in the order of the players: an empty entry that keeps others
\* from downloading it, and the download on the strand.
StartDownload ==
    \E t \in todo :
        /\ \A u \in todo : t[1] <= u[1]
        /\ todo' = todo \ {t}
        /\ cache' = Put(cache, t[2], FALSE)
        /\ PostQueue([kind |-> "picture", player |-> t[1], url |-> t[2]])
        /\ UNCHANGED <<run, deferral, expired, client, context, code, stop, profiles, budget, ghosts>>

\* Mutant of the next definition: a failed download leaves its empty entry.
MutantFailureKept ==
    /\ Runs("picture", "start")
    /\ \/ cache' = Put(cache, run.job.url, TRUE)
       \/ UNCHANGED cache
    /\ Done
    /\ UNCHANGED <<strand, deferral, expired, client, context, code, stop, profiles, todo, budget,
                   ghosts>>

\* createDownloadBufferTask with its tries, and the callback with its result.
PictureDownloaded ==
    /\ Runs("picture", "start")
    /\ \/ cache' = Put(cache, run.job.url, TRUE)
       \/ cache' = Erase(cache, run.job.url)
    /\ Done
    /\ UNCHANGED <<strand, deferral, expired, client, context, code, stop, profiles, todo, budget,
                   ghosts>>

\* picture(): the entry becomes the most recently used one.
GetPicture(url) ==
    /\ Cached(cache, url) /\ ~Stopped
    /\ cache' = <<cache[Place(cache, url)]>> \o Erase(cache, url)
    /\ UNCHANGED <<wait, client, context, code, stop, profiles, todo, budget, ghosts>>

-----------------------------------------------------------------------------
(* ~Net. *)

\* m_stop is set without m_shortCodeMutex.
SetStop ==
    /\ stop = "no"
    /\ stop' = "set"
    /\ UNCHANGED <<wait, client, context, code, pictures, budget, ghosts>>

NotifyStop ==
    /\ stop = "set"
    /\ stop' = "notified"
    /\ missed' = Runs("pair", "tested")
    /\ Woken
    /\ UNCHANGED <<strand, deferral, expired, client, context, code, pictures, budget, superseded,
                   cancelled>>

\* Worker::stop: the timers are cancelled, the handlers that are queued still run.
WorkerStops ==
    /\ stop = "notified"
    /\ stop' = "joining"
    /\ deferral' = Idle
    /\ cancelled' = IF deferral = Idle THEN cancelled ELSE cancelled \cup {deferral.id}
    /\ UNCHANGED <<strand, run, expired, client, context, code, pictures, budget, superseded,
                   missed>>

-----------------------------------------------------------------------------
Handler ==
    \/ StrandTakes
    \/ TopScoresFails \/ TopScoresDefers \/ TopScoresGets \/ TopScoresReply
    \/ PairCodeTests \/ PairCodeSleeps \/ PictureDownloaded

Shutdown == SetStop \/ NotifyStop \/ WorkerStops

ServicesNext ==
    \/ \E r \in Requests : RequestPairCode(r) \/ (\E v \in BOOLEAN : RequestTopScores(r, v))
    \/ Handler \/ CodeArrives \/ DeferralExpires
    \/ \E job \in expired : TimerHandler(job)
    \/ \E c \in [status: Statuses, ready: BOOLEAN] : ContextChanges(c)
    \/ \E prof \in Lists : ProcessProfiles(prof)
    \/ StartDownload
    \/ \E url \in Urls : GetPicture(url)
    \/ Shutdown

ServicesSpec == ServicesInit /\ [][ServicesNext]_servicesVars

\* The pool runs the strand's handlers and the timer's, timers expire, and HTTP requests
\* have time limits.  The pair code need not arrive, and nobody has to call ~Net.
ServicesFairSpec ==
    /\ ServicesSpec
    /\ WF_servicesVars(Handler) /\ WF_servicesVars(DeferralExpires)
    /\ WF_servicesVars(\E job \in expired : TimerHandler(job))
    /\ WF_servicesVars(NotifyStop) /\ WF_servicesVars(WorkerStops)

-----------------------------------------------------------------------------
IsDownload(job, url) == IF job.kind = "picture" THEN job.url = url ELSE FALSE

\* An empty entry in the picture cache always has a download under way that will fill or
\* remove it, so no picture is given up for good: not through evictions, double downloads or
\* failures in any order (processScoresAndPlayersProfiles, setPicture, removePicture).
PlaceholderIsDownloading ==
    \A i \in DOMAIN cache : ~cache[i].full =>
        \E job \in Range(strand) \cup {run.job} : IsDownload(job, cache[i].url)

\* The strand's first handler waits for a pair code that may never come; after ~Net's
\* notification only one that was missed leaves it asleep.
StrandBlocked == Runs("pair", "asleep") /\ (~Stopped \/ missed)

\* game_state_c.h: "the SDK defers the HTTP request and retries automatically until the
\* context is ready or a terminal error occurs", and the callback is invoked when the request
\* completes or fails terminally.  So it is for every request, unless the SDK is shut down or
\* the strand is blocked by a pair request.
CallbackInvoked ==
    \A r \in Requests : r \in called ~> answers[r] = 1 \/ Stopped \/ StrandBlocked

\* What the code keeps of that: every request gets its answer (the early returns, the deferral
\* and the wait for the code), shutdown included, except where its timer was taken by another
\* deferred request or cancelled, or the strand is blocked by a pair request.
RequestsAnswered ==
    \A r \in Requests :
        r \in called ~> answers[r] = 1 \/ r \in superseded \cup cancelled \/ StrandBlocked

\* The job is for request r.
Of(job, r) == IF job.kind \in {"top", "pair"} THEN job.id = r ELSE FALSE

\* The places where request r waits: the strand, the timer and its handlers, the handler.
Waits(r) ==
    Cardinality({i \in DOMAIN strand : Of(strand[i], r)})
    + Cardinality({job \in expired : Of(job, r)})
    + (IF Of(deferral, r) THEN 1 ELSE 0) + (IF Of(run.job, r) THEN 1 ELSE 0)

\* A request is never in two places, nor answered while it still waits in one, so that its
\* callback is called at most once (the callback moves from the handler to the timer and back).
AnsweredOnce == \A r \in Requests : Waits(r) + answers[r] <= 1

=============================================================================
