-------------------------------- MODULE Host --------------------------------
(***************************************************************************)
(* The application's side of the SDK: the Config and GameState objects of  *)
(* the C++ and Python wrappers, which own the callbacks the SDK holds raw  *)
(* pointers to; the C API with its queue of jobs and the thread that runs  *)
(* them (game_state_c.cpp, config_c.cpp); and the calls, callbacks and     *)
(* events that pass between the application and Remote.                    *)
(*                                                                         *)
(* The application has a main thread.  Its callbacks run on the SDK's      *)
(* threads and may make calls of their own.  The queue is first in, first  *)
(* out for one thread only.  What jobs about games do is in GameState and  *)
(* ModeExpiry, leaderboards are in Services.                               *)
(***************************************************************************)
EXTENDS Remote

CONSTANTS Slots,     \* the application's variables of type GameState
          Scenarios  \* language, bounds and calls of a behaviour

\* Callbacks of a configuration: the one for events, those that save and load keys, and the
\* signer, which is an object of its own only in Python.
Kinds == {"event", "keys", "signer"}

\* Calls about the game, other calls without a callback, and calls with one.
GameCalls == {"game"}
Commands == GameCalls \cup {"capabilities", "creditsDropped", "creditsStatus", "upload"}
Asks == {"unpair", "pairMachine", "pairCode", "download", "downloadBuffer"}

\* 0 stands for no handle and no slot.
ASSUME HostAssumption ==
    /\ Nets \subseteq Nat \ {0} /\ Slots \subseteq Nat \ {0}
    /\ Scenarios \subseteq [lang: {"cpp", "python"}, scorbitron: BOOLEAN, calls: SUBSET (Commands \cup Asks),
                            msgs: SUBSET Messages, make: Nat, sets: Nat, ask: Nat, chain: Nat, msg: Nat, auth: Nat,
                            ticks: Nat, drop: BOOLEAN]

VARIABLES scene,    \* the scenario, with what is left of its bounds
          config,   \* the Config object and the C configuration in it
          state,    \* the GameState objects: callbacks they own, and their handle
          handle,   \* the C API's handles
          jobs,     \* of each handle: the main thread's jobs in order, and other threads'
          main,     \* what the main thread waits for
          next,     \* number of the next callback
          shots,    \* the callbacks of single requests, as the wrapper knows them
          exiting   \* _shutting_down of the Python wrapper

hostVars == <<scene, config, state, handle, jobs, main, next, shots, exiting>>
vars == <<remoteVars, hostVars>>

NoPtr == [k \in Kinds |-> 0]
NoState == [own |-> {}, h |-> 0]
NoHandle == [st |-> "none", ptr |-> NoPtr, covered |-> TRUE]
Idle == [h |-> 0, slot |-> 0]

Init ==
    /\ RemoteInit
    /\ scene \in Scenarios
    /\ config = [alive |-> TRUE, own |-> {}, ptr |-> NoPtr, key |-> FALSE, valid |-> FALSE]
    /\ state = [s \in Slots |-> NoState]
    /\ handle = [h \in Nets |-> NoHandle]
    /\ jobs = [h \in Nets |-> [main |-> <<>>, other |-> EmptyBag]]
    /\ main = Idle
    /\ next = 1
    /\ shots = <<>>
    /\ exiting = FALSE

Ready == main = Idle /\ ~exiting

Used(bound) == scene' = [scene EXCEPT ![bound] = @ - 1]

-----------------------------------------------------------------------------
(* The configuration. *)

\* The setters of plain values.  Without a provider, or a machine id where one is needed, the
\* Net made of the configuration is not valid.
SetValues(lang) ==
    /\ Ready /\ scene.lang = lang /\ config.alive /\ ~config.valid
    /\ config' = [config EXCEPT !.valid = TRUE]
    /\ UNCHANGED <<remoteVars, scene, state, handle, jobs, main, next, shots, exiting>>

CppSetsValues == SetValues("cpp")
PythonSetsValues == SetValues("python")

\* sb_config_set_encrypted_key clears the signer.
SetEncryptedKey ==
    /\ Ready /\ config.alive /\ ~config.key
    /\ config' = [config EXCEPT !.key = TRUE, !.ptr = [@ EXCEPT !["signer"] = 0]]
    /\ UNCHANGED <<remoteVars, scene, state, handle, jobs, main, next, shots, exiting>>

\* The C configuration points to a new callback, which belongs to own.
SetCallback(k, own) ==
    /\ Ready /\ config.alive /\ scene.sets > 0
    /\ config' = [config EXCEPT !.own = own, !.ptr = [@ EXCEPT ![k] = next], !.key = @ /\ k # "signer"]
    /\ next' = next + 1
    /\ Used("sets")
    /\ UNCHANGED <<remoteVars, state, handle, jobs, main, shots, exiting>>

\* setEventCallback and the setters for keys: the new unique_ptr replaces the old one.
CppSetsCallback(k) ==
    /\ scene.lang = "cpp" /\ k # "signer"
    /\ SetCallback(k, (config.own \ {config.ptr[k]}) \cup {next})

\* In Python the trampolines are collected in a list.
PythonSetsCallback(k) ==
    /\ scene.lang = "python" /\ k # "signer"
    /\ SetCallback(k, config.own \cup {next})

\* set_signer: a trampoline as well; sb_config_set_signer clears the key.
PythonSetsSigner ==
    /\ scene.lang = "python"
    /\ SetCallback("signer", config.own \cup {next})

\* ~Config; in Python the game states made of it keep the object.
DestroyConfig ==
    /\ Ready /\ config.alive /\ scene.drop
    /\ config' = [config EXCEPT !.alive = FALSE, !.own = {}]
    /\ UNCHANGED <<remoteVars, scene, state, handle, jobs, main, next, shots, exiting>>

\* The callbacks somebody still owns.
Alive == config.own \cup UNION {state[s].own : s \in Slots}

-----------------------------------------------------------------------------
(* Game states. *)

\* Mutant of the next definition: the callbacks stay with the configuration.
MutantNotMoved(s, h) ==
    /\ state' = [state EXCEPT ![s] = [own |-> {}, h |-> h]]
    /\ UNCHANGED config

\* The constructor of GameState moves the callbacks from the configuration.
CppTakes(s, h) ==
    /\ state' = [state EXCEPT ![s] = [own |-> config.own, h |-> h]]
    /\ config' = [config EXCEPT !.own = {}]

\* In Python it keeps the Config.
PythonTakes(s, h) ==
    /\ state' = [state EXCEPT ![s] = [own |-> config.own, h |-> h]]
    /\ UNCHANGED config

\* createGameState: sb_create_game_state copies the configuration, with the raw pointers, and
\* starts the Net and the C API's thread.  Without authentication there is no handle.
CreateGameState(s, h) ==
    /\ Ready /\ config.alive /\ state[s] = NoState /\ handle[h].st = "none"
    /\ \A g \in Nets : g < h => handle[g].st # "none"
    /\ \A r \in Slots : r < s => state[r] # NoState
    /\ config.key \/ config.ptr["signer"] # 0
    /\ scene.make > 0 /\ Used("make")
    /\ handle' = [handle EXCEPT ![h] =
                     [st |-> "open", ptr |-> config.ptr,
                      covered |-> \A k \in Kinds : config.ptr[k] \in config.own \cup {0}]]
    /\ net' = [net EXCEPT ![h] = NewNet(config.valid, scene.scorbitron)]
    /\ IF scene.lang = "cpp" THEN CppTakes(s, h) ELSE PythonTakes(s, h)
    /\ UNCHANGED <<pool, strand, events, files, second, botched, answers>>
    /\ UNCHANGED <<jobs, main, next, shots, exiting>>

\* sb_destroy_game_state, called by the main thread, begins.
BeginDestroy(h, s) ==
    /\ handle' = [handle EXCEPT ![h].st = "closing"]
    /\ jobs' = [jobs EXCEPT ![h].main = Append(@, [kind |-> "poison", cb |-> 0])]
    /\ main' = [h |-> h, slot |-> s]

DestroyGameState(s, lang) ==
    /\ Ready /\ scene.lang = lang /\ state[s].h # 0
    /\ BeginDestroy(state[s].h, s)
    /\ UNCHANGED <<remoteVars, scene, config, state, next, shots, exiting>>

\* ~GameState: the members in reverse order, so first the handle goes, then the callbacks.
CppDestroys(s) == DestroyGameState(s, "cpp")

\* destroy() of the Python wrapper, also on leaving its context and when it is collected.
PythonDestroys(s) == DestroyGameState(s, "python")

\* The defaulted move assignment of one GameState to another: the members in their order, so
\* the callbacks are replaced before the old handle is destroyed.
MoveAssign(s, r) ==
    /\ Ready /\ scene.lang = "cpp" /\ s # r /\ state[s].h # 0 /\ state[r].h # 0
    /\ state' = [state EXCEPT ![s] = state[r], ![r] = NoState]
    /\ handle' = [handle EXCEPT ![state[s].h].st = "closing", ![state[s].h].covered = FALSE]
    /\ jobs' = [jobs EXCEPT ![state[s].h].main = Append(@, [kind |-> "poison", cb |-> 0])]
    /\ main' = [h |-> state[s].h, slot |-> 0]
    /\ UNCHANGED <<remoteVars, scene, config, next, shots, exiting>>

\* The thread has ended and the queue is destroyed; ~Net begins.
DispatcherJoined(h) ==
    /\ main.h = h /\ handle[h].st = "joined"
    /\ handle' = [handle EXCEPT ![h].st = "stopping"]
    /\ jobs' = [jobs EXCEPT ![h] = [main |-> <<>>, other |-> EmptyBag]]
    /\ StopNet(h)
    /\ UNCHANGED <<pool, strand, events, files, second, botched, answers>>
    /\ UNCHANGED <<scene, config, state, main, next, shots, exiting>>

\* The worker has drained; after the handle the callbacks of the GameState are destroyed.
HandleDestroyed(h) ==
    /\ main.h = h /\ handle[h].st = "stopping" /\ Drained(h)
    /\ handle' = [handle EXCEPT ![h].st = "gone"]
    /\ state' = IF main.slot = 0 THEN state ELSE [state EXCEPT ![main.slot] = NoState]
    /\ main' = Idle
    /\ pool' = LET rest == {t \in BagToSet(pool) : t.h # h} IN [t \in rest |-> pool[t]]
    /\ strand' = [strand EXCEPT ![h] = <<>>]
    /\ events' = [events EXCEPT ![h] = <<>>]
    /\ UNCHANGED <<net, files, second, botched, answers>>
    /\ UNCHANGED <<scene, config, jobs, next, shots, exiting>>

\* The Python interpreter begins to exit: atexit sets the flag the trampolines test.
InterpreterExits ==
    /\ scene.lang = "python" /\ Ready
    /\ exiting' = TRUE
    /\ UNCHANGED <<remoteVars, scene, config, state, handle, jobs, main, next, shots>>

-----------------------------------------------------------------------------
(* Calls and jobs. *)

\* The wrapper's object for a callback: prepareStringCallback and the like, _make_string_cb.
NewShot(h, from) == [h |-> h, from |-> from, st |-> "held", called |-> 0]

\* A call of the C API: a job at the end of the queue.
MainCalls(h, kind, lang) ==
    /\ Ready /\ scene.lang = lang /\ handle[h].st = "open" /\ scene.ask > 0 /\ kind \in scene.calls
    /\ \E s \in Slots : state[s].h = h
    /\ IF kind \in Asks THEN shots' = Append(shots, NewShot(h, "main")) ELSE UNCHANGED shots
    /\ jobs' = [jobs EXCEPT ![h].main =
                   Append(@, [kind |-> kind, cb |-> IF kind \in Asks THEN Len(shots) + 1 ELSE 0])]
    /\ Used("ask")
    /\ UNCHANGED <<remoteVars, config, state, handle, main, next, exiting>>

\* The calls of the two wrappers.
CppCalls(h, kind) == MainCalls(h, kind, "cpp")
PythonCalls(h, kind) == MainCalls(h, kind, "python")

\* The same from a callback, that is on one of the SDK's threads.  Once the queue is destroyed
\* this is undefined behaviour, of which the model keeps that the job is lost.
CallbackCalls(h, kind, sh, js) ==
    LET cb == IF kind \in Asks THEN Len(sh) + 1 ELSE 0
    IN  /\ shots' = IF kind \in Asks THEN Append(sh, NewShot(h, "other")) ELSE sh
        /\ jobs' = IF handle[h].st = "stopping" THEN js
                   ELSE [js EXCEPT ![h].other = BagAdd(@, [kind |-> kind, cb |-> cb])]

\* string_callback_c and buffer_callback_c call the function and delete it.
CppCalled(cb) == [shots EXCEPT ![cb].called = @ + 1, ![cb].st = "freed"]

\* The trampolines of Python stay with the GameState, and do nothing when the interpreter exits.
PythonCalled(cb) == [shots EXCEPT ![cb].called = @ + 1]

Called(cb) == IF scene.lang = "cpp" THEN CppCalled(cb) ELSE PythonCalled(cb)

\* The application's function returns, or makes another call first.
AppReturns(h, sh, js) ==
    \/ shots' = sh /\ jobs' = js /\ UNCHANGED scene
    \/ /\ scene.chain > 0 /\ ~exiting
       /\ Used("chain")
       /\ \E kind \in scene.calls : CallbackCalls(h, kind, sh, js)

\* A pair code that is there already: requestPairCode calls back on the dispatcher's thread.
AtOnce(h, j) == j.kind = "pairCode" /\ net[h].code

\* The operation of Net that GameStateImpl forwards a job to.
Forward(h, j) ==
    CASE j.kind = "unpair" -> RequestUnpair(h, j.cb)
      [] j.kind = "pairMachine" -> RequestPairMachine(h, j.cb)
      [] j.kind = "pairCode" -> RequestPairCode(h, j.cb)
      [] j.kind \in {"download", "downloadBuffer"} -> Download(h, j.kind, j.cb)
      [] j.kind = "capabilities" -> SetCapabilities(h)
      [] j.kind = "creditsDropped" -> SetCreditsDropped(h)
      [] j.kind = "creditsStatus" -> SetCreditsStatus(h)
      [] j.kind = "upload" -> UploadDiagnostics(h)
      [] OTHER -> UNCHANGED <<pool, strand>>

\* dispatchApiJob.
RunJob(h, j, js) ==
    /\ IF AtOnce(h, j) THEN AppReturns(h, Called(j.cb), js) /\ UNCHANGED <<pool, strand>>
       ELSE Forward(h, j) /\ jobs' = js /\ UNCHANGED <<shots, scene>>
    /\ UNCHANGED <<net, events, files, second, botched, answers>>

\* Mutant of the next definition: after the shutdown began the jobs are thrown away.
MutantDropsJobs(h) ==
    /\ handle[h].st = "closing" /\ jobs[h].main # <<>>
    /\ handle' = [handle EXCEPT ![h].st = "joined"]
    /\ UNCHANGED <<remoteVars, scene, config, state, jobs, main, next, shots, exiting>>

\* cApiDispatcherLoop: the next job of the main thread; Poison ends the thread.
DispatchMain(h) ==
    /\ handle[h].st \in {"open", "closing"} /\ jobs[h].main # <<>>
    /\ LET rest == [jobs EXCEPT ![h].main = Tail(@)]
       IN  IF Head(jobs[h].main).kind = "poison"
           THEN /\ handle' = [handle EXCEPT ![h].st = "joined"]
                /\ jobs' = rest
                /\ UNCHANGED <<remoteVars, shots, scene>>
           ELSE RunJob(h, Head(jobs[h].main), rest) /\ UNCHANGED handle
    /\ UNCHANGED <<config, state, main, next, exiting>>

\* A job of another thread.
DispatchOther(h) ==
    /\ handle[h].st \in {"open", "closing"}
    /\ \E j \in BagToSet(jobs[h].other) :
          RunJob(h, j, [jobs EXCEPT ![h].other = BagRemove(@, j)])
    /\ UNCHANGED <<config, state, handle, main, next, exiting>>

-----------------------------------------------------------------------------
(* Callbacks. *)

\* The reply to a request of the pool.
Reply(t) ==
    /\ t.stage = "reply"
    /\ Ended(t)
    /\ AppReturns(t.h, Called(t.cb), jobs)
    /\ UNCHANGED <<net, strand, events, files, second, botched, answers>>
    /\ UNCHANGED <<config, state, handle, main, next, exiting>>

\* The reply to one of the strand.
StrandReply(h) ==
    /\ strand[h] # <<>> /\ StrandTask(h).stage = "reply"
    /\ StrandNext(h)
    /\ AppReturns(h, Called(StrandTask(h).cb), jobs)
    /\ UNCHANGED <<net, pool, events, files, second, botched, answers>>
    /\ UNCHANGED <<config, state, handle, main, next, exiting>>

\* An event reaches the application's callback, which answers some of them with a call.
Deliver(h, i) ==
    /\ net[h].running /\ ~net[h].stop /\ i \in DOMAIN events[h]
    /\ events' = [events EXCEPT ![h] = RemoveAt(@, i)]
    /\ LET e == events[h][i]
           kind == CASE e = "addCredits" -> "creditsDropped"
                     [] e = "creditsStatus" -> "creditsStatus"
                     [] e = "uploadDiagnostics" -> "upload"
                     [] e = "startGame" -> "game"
                     [] OTHER -> "none"
       IN  IF kind = "none" \/ exiting \/ handle[h].ptr["event"] = 0 THEN UNCHANGED <<jobs, shots>>
           ELSE CallbackCalls(h, kind, shots, jobs)
    /\ UNCHANGED <<net, pool, strand, files, second, botched, answers>>
    /\ UNCHANGED <<scene, config, state, handle, main, next, exiting>>

-----------------------------------------------------------------------------
(* The surroundings. *)

Publication(h) ==
    /\ scene.msg > 0
    /\ \E msg \in scene.msgs : OnPublication(h, msg)
    /\ Used("msg")
    /\ UNCHANGED <<config, state, handle, jobs, main, next, shots, exiting>>

Authentication(h) ==
    /\ scene.auth > 0
    /\ \E s \in Statuses : StatusChanges(h, s)
    /\ Used("auth")
    /\ UNCHANGED <<config, state, handle, jobs, main, next, shots, exiting>>

SecondPasses ==
    /\ scene.ticks > 0
    /\ second' = second + 1
    /\ Used("ticks")
    /\ UNCHANGED <<net, pool, strand, events, files, botched, answers>>
    /\ UNCHANGED <<config, state, handle, jobs, main, next, shots, exiting>>

Next ==
    \/ CppSetsValues \/ PythonSetsValues \/ SetEncryptedKey \/ PythonSetsSigner
    \/ \E k \in Kinds : CppSetsCallback(k) \/ PythonSetsCallback(k)
    \/ DestroyConfig \/ InterpreterExits \/ SecondPasses
    \/ \E s \in Slots : \/ CppDestroys(s) \/ PythonDestroys(s)
                        \/ \E r \in Slots : MoveAssign(s, r)
                        \/ \E h \in Nets : CreateGameState(s, h)
    \/ \E h \in Nets :
          \/ DispatcherJoined(h) \/ HandleDestroyed(h)
          \/ \E kind \in Commands \cup Asks : CppCalls(h, kind) \/ PythonCalls(h, kind)
          \/ DispatchMain(h) \/ DispatchOther(h)
          \/ StrandReply(h)
          \/ \E i \in DOMAIN events[h] : Deliver(h, i)
          \/ Publication(h) \/ Authentication(h)
          \/ (ShortCodeCached(h) \/ StrandRuns(h)) /\ UNCHANGED hostVars
    \/ \E t \in BagToSet(pool) : Reply(t)
    \/ PoolRuns /\ UNCHANGED hostVars

Spec == Init /\ [][Next]_vars

-----------------------------------------------------------------------------
Threads(h) == handle[h].st \in {"open", "closing", "joined", "stopping"}

\* As long as a handle has threads that may call back, the callbacks it points to exist:
\* whatever is set again, destroyed first or made a second time from the same configuration.
\* Excepted are a handle created from a configuration whose callbacks an earlier game state
\* had taken, and one that a move assignment destroys (GameState, Config).
CallbackAlive ==
    \A h \in Nets : Threads(h) /\ handle[h].covered =>
        \A k \in Kinds : handle[h].ptr[k] \in Alive \cup {0}

\* The callback of a request is called once at most, so the wrapper frees it once at most; and
\* when the handle is gone every request the main thread had made has been answered: its jobs
\* ran before Poison and the worker drained before its end.  A Net that is not valid never
\* answers (dispatchApiJob, cApiDispatcherLoop, ~Net, string_callback_c).
AnsweredBeforeDestroyed ==
    \A i \in DOMAIN shots :
        /\ shots[i].called <= 1
        /\ handle[shots[i].h].st = "gone" /\ shots[i].from = "main" /\ net[shots[i].h].running =>
              shots[i].called = 1
=============================================================================
