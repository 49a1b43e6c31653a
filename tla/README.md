# A TLA+ model of the Scorbit SDK

The Scorbit SDK connects a pinball machine to the Scorbit cloud. An application
drives it through a C API, or through the C++ and Python wrappers around it: it
starts and finishes games, sets scores, asks for pairing codes and leaderboards, and
receives events. Behind that API the SDK authenticates the device, keeps a session
per game on the server, publishes the state of the game on a Centrifugo channel, and
looks after its keys, its own updates, NFC tags and diagnostics. This directory holds
TLA+ modules for the parts of it that are hard to test, the TLC configurations that
check them, and proofs that TLAPS checks.

Paths below are relative to the repository's root, or to `source/` where they have no
directory.

## The system

| Part | State it keeps | Operations | Talks to |
|---|---|---|---|
| Wrappers (`include/scorbit_sdk/*.h`, `wrappers/python`) | objects that own callbacks, a C handle | configure, create, move, destroy, request | C API; own what the SDK points to |
| C API and its dispatcher (`game_state_c.cpp`, `config_c.cpp`) | handles, queue of jobs, running flag | create, post a job, run jobs on one thread, destroy | Game state, Net; posts mode-expiry ticks |
| Game state (`game_state_impl.cpp`, `game_data.h`) | current and last submitted game data, session number | start, finish, ball, player, score, modes, commit | calls Net; called back when a session was created |
| Modes (`modes.cpp`) | modes and their expiry times | add, add expiring, remove, tick | Game state, a timer of the Worker |
| Net: sessions (`net.cpp`) | sessions by number, each with uuid, sequence counter, data, history | create, submit, update, publish | Worker strands and timers, server, Centrifugo |
| Net: authentication (`net.cpp`) | status, token, refresh flag, stop flag | authenticate, refresh, run a request, parse the Scorbitron object, unpair | Worker pool, server, key resolvers |
| Net: Centrifugo connection (`net.cpp`) | client, retired clients, pending restart | set up, restart, reconnect, retire | authentication, credits |
| Net: leaderboards, pair codes, downloads (`net.cpp`) | deferred request, cached code, one strand | request, defer, wait, download | timers, server, pictures |
| Net: diagnostics, credits, capabilities (`net.cpp`, `utils/archiver.cpp`) | seen trace ids, archives, capabilities | answer probes, upload, publish, pair a machine | control channels, server, temporary directory |
| Player profiles (`player_profiles_manager.cpp`, `utils/lru_cache.hpp`) | profiles, picture cache (LRU) | update profiles, download pictures | Net |
| Key resolution (`signer_key_resolver.h`, `soft_key_resolver.cpp`, `provisioning_client.cpp`, ...) | the signer, a saved key | resolve, provision, confirm, save | authentication, application callbacks, server |
| Updater (`updater.cpp`, `fs_read_write.cpp`) | update in progress, files on the disk | check, download, extract, replace the binaries | Net, file system |
| NFC probes and discovery (`libs/nfc`, `net.cpp`) | nonces, the tag, the description of the machine | refill, check and write the tag, enumerate, answer the network | server, timers, pairing |
| Serial cable and TPM (`libs/nfc`) | ports, locks, frames in the line | open, command, reconnect, find a TPM | devices, other processes |
| Worker (`worker.cpp`) | four threads, strands, timers | post, post to a strand, start and stop a timer | runs everything above |
| Event channel (`event_manager.h`, `event_queue.h`, `event_classes.h`) | priority queue, stop flag, order counter | push, deliver, stop | every part pushes; the application receives |

Four threads run one queue. Work posted to a strand is serialised with the rest of
that strand only; work posted with `post`, and every timer handler, runs as soon
as a thread is free. A timer exists once per kind, so starting or stopping it acts
on whatever it was armed for. These three facts, together with atomics that are
written outside the mutex their readers hold, make most of the hard behaviours:

* submissions of one game, unserialised, overtake each other;
* replies erase or rename what a handler between two locks still refers to;
* timers shared by all users are cancelled for the wrong one, and a handler whose
  timer has expired cannot be cancelled any more;
* a status read outside the lock is stale when it is used;
* notifications are lost, and requests that wait occupy the threads that would
  end their wait;
* the process stops between two renames of an update, or between the registration
  of a key and its being saved;
* a device answers after its command has given up, or is another device when it
  comes back;
* the application ends a game, moves or destroys the object that owns a callback,
  or destroys the SDK, at any of these points.

`PROJECT.json` lists them as hazards, each at its line, with the property that
would catch it.

## Modules

| Module | Models |
|---|---|
| `EventManager` | the event channel |
| `GameState` | the game data and the calls its edits lead to |
| `GameSessions` | Net's sessions, EXTENDS `GameState` and receives its calls |
| `GameSessionsProofs` | theorems about `GameState` and `GameSessions` |
| `ModeLease` | what the C API promises of expiring modes (abstract) |
| `ModeExpiry` | expiring modes, their timer, the job queue of the C API and its shutdown; implements `ModeLease` |
| `NetAuth` | status, authentication, authenticated requests, pairing messages, the begin of the shutdown |
| `NetAuthProofs` | theorems about `NetAuth` |
| `Updater` | the self-update on a file system, with restarts of the process |
| `UpdaterProofs` | theorems about `Updater` |
| `Centrifugo` | the real-time connection, its restarts, timers and retired clients |
| `CentrifugoProofs` | theorems about `Centrifugo` |
| `Keys` | the chain of key resolvers, provisioning, and the authentication loop that uses the key |
| `Services` | what runs on Net's strand: leaderboards, pair codes, downloads, players' pictures |
| `GameSideProofs` | theorems about `EventManager`, `ModeExpiry` and `Services` |
| `Probes` | nonces and the NFC tag, the search for probes, network discovery |
| `IdentityProofs` | theorems about `Keys` and `Probes` |
| `Cable` | serial ports shared by the SDK, a tool and the search for a TPM |
| `CableProofs` | theorems about `Cable` |
| `Remote` | requests, downloads, control messages, diagnostics |
| `Host` | applications in C++ and Python and the C API, EXTENDS `Remote` and calls it |
| `HostProofs` | theorems about `Host` and `Remote` |

A module `MCx` gives the constants of `x` their values where a configuration cannot.
Where one proof module EXTENDS several components, their `Init`, `Next`, `Spec`,
`FairSpec` and `TypeOK` carry the component's name (`KeysInit`, `ProbesSpec`,
`ModesTypeOK`, ...). Definitions whose name begins with `Mutant` are wrong versions of the definition
that follows them. No specification uses them: each replaces its original to show
that a property notices the mistake.

### EventManager

A producer is a thread that constructs an event and pushes it. The constructor's
`++s_orderCounter` is a load and a store, since the counter is a plain `size_t`.
`push` tests `m_stopped`, enqueues under the queue's mutex and posts a handler:
three steps. The strand runs the handlers one by one; each loops over the test of
`m_stopped`, the dequeue and the callback. The queue is a set from which a maximal
element of `EventBase::operator<` is taken; ties, which `std::priority_queue` may
break either way, are a choice. Every event is pushed at most once, as in the code,
where each push constructs its event. The ghost `handled` records deliveries.

### GameState

`data` and `prevData` are `m_data` and `m_prevData`; each public operation is an
action, with its early returns as guards. `SubmitGameData` is `submitGameData`,
including the bonus submission; the calls made on Net by the last operation are in
`calls`, numbered by the ghost `serial`. Operations run on the C API thread, one at
a time; `setGameFinished` takes three steps (`finishing`): it ends the game in `m_data`,
submits it, and resets `m_data`. `OnCreated` is the callback of a create reply; it runs on
a pool thread without a lock, so it may come between these steps, and is itself one
step (torn reads of `m_data` are outside the model). `authChanges` counts how often the
status AuthenticationFailed was reached or left; its parity is what the code reads.
Modes are opaque; a mode that expires is, to the submissions, a mode removed
between two commits (`RemoveMode`), and how it comes to expire is in `ModeExpiry`.
Timestamps, score features and NFC lights are left out.

### GameSessions

`sessions` is `m_gameSessions`; `Put` and `Erase` also give the insertions of
`operator[]`. `pool` holds the handlers no strand serialises, the first `Threads`
of them running, each at one of its stages: the points where the code releases
`m_gameSessionsMutex` or posts. `commitQ` and `committing` are the commit strand,
`sessionQ` the session strand, whose head is the HTTP request under way.
`updateTimer` and `dataTimer` are the timers SessionUpdate and GameData. The client
may be absent whenever a commit task starts, as during a restart. The requests'
retries and waits are in `NetAuth`; here a request succeeds or fails after any time.
Data is known by its submission number, history as the sequence of those numbers. The
ghost `settled` holds the sessions the server has been told are completed.

### ModeExpiry

`modes`, `deadlines` and `active` are the part of `m_data` that matters, `timer` the
ModeExpiry timer of the Worker. Times are counted from now: a second passing lowers
all of them, and one that is reached stays 0, which is all that the comparison with
`now` in `tickExpiries` and `nextExpiryDelay` tells apart. The application posts jobs
(`jobs`), the C API thread runs them one at a time, and each `Run...` action is a job
with everything it calls, the rescheduling included. When the timer expires its
handler is queued (`fired`) and no cancellation reaches it; the handler tests
`cApiAccepting` (`posting` counts those that read true) and enqueues a tick
(`ticks`). The queue is `moodycamel::BlockingConcurrentQueue`, first in, first out
only for the items of one producer, so ticks and jobs are two queues from which the
thread may take in either order. The application is one thread. The order of the
mode list is left out, as in `GameState`.

A tick removes modes from the game's data and does not commit: what has been
published still shows the mode until the application's next commit. The comment in
`game_state_impl.h` gives other numbers for the durations (2 and 5) than `modes.cpp`
and the public header (3 and 10); the model has those of the code.

`ModeLease` is the promise without threads and timers: a mode is absent, kept or
leased, and only a lease that has run out ends by itself. `ModesAreLeased` says that
`ModeExpiry` implements it, with a mode's lease read off the list and the deadlines.

### NetAuth

`pool` holds tasks: authentication tasks, handlers of the refresh timer, and
requests. A request waits on `m_authCV` (the test, the falling asleep and the
notification are separate steps, as the notifiers do not hold the mutex), checks
the status again outside the lock, is sent, and after a 401 takes the lock, resets
the status and runs the authentication inline. `locked` is `m_authMutex`: a normal
authentication holds it from its test of the status to its end, network waits
included. The server has a current token and the pairing; a reply is handled some
time after the server made it, so stale replies happen. Repetitions inside the
token request (no answer, a wrong timestamp, a new soft key) change nothing here and
are in `Keys`; spurious wake-ups, which only repeat the test, are left out. Requests
that only need a paired machine and do not touch the status are one kind, posted at
any time, which includes those that `initializeConnectionState` and `onPaired` post
after the Scorbitron object. The ghost `misled` records that an inline authentication
found `m_isRefreshingToken` set by somebody else and took itself for a refresh: the
one way in which the code leaves a lost authentication alone.

### Updater

A checker is a reply of the release track that a pool thread is processing; every
authentication and pairing asks for one, so two may run. Each step is one operation
on the file system with the tests before it: remounting, download, extraction, the
renames and copies of `replaceBinary`, clean-up, mounting back. A step may fail, some
may throw, and the process may restart between any two; what is on the disk stays,
and the next start runs what it finds. Binaries are `lib`, their backups `old`, and
what has been extracted `dir`. A device is a record: Windows or not, read-only file
system at boot, static library, whether its platform and names are known, an API key,
a word in a mount line that looks like "ro", and whether the process is scorbitd and has
told the SDK its version. Resolving the path of a binary throws when there is no file, and
may throw once this process has replaced it; `canUpdateSdk` catches that for the executable's
path, the rest leaves the check with the flag set. Versions are numbers of a series (`x.y`)
compared as the code compares them. `m_updateInProgress` is tested and set in two steps, so
checks can overlap; the ghost `overlapped` records it, since two overlapping replacements
can lose a binary. Only `BinaryRecoverable` excepts them.

### Centrifugo

`cur` is `m_centrifugo`, which no lock protects. `restartCentrifugo` runs on pool
threads and on the Centrifugo strand, handlers of the reconnect timer on the pool, and
a client's callbacks on the strand. A set-up asks for a token over HTTP before it
assigns the client, so each of these takes several steps (`pc`). The client library is
external: a state per client, a queued `onConnected` and a queued `onDisconnected` with
its code. The strand runs one callback at a time; `frame` is the client whose callback it is
inside, from the callback's first step (`Begins`) until it has returned into the client
(`CallbackReturns`), `restartCentrifugo` called from it included. Retired clients stay for
their grace period. Two timeouts are compared, not modelled as clocks: the grace period
(30 s) is longer than what a callback or what is queued before it can wait (one token request
of at most `NET_TIMEOUT`, 14 s), and the ten seconds of a reset are longer than the
callback that starts its timer. `~Net` is a sequence of steps
(`dtor`). `gaveUp` records that a client ended in a way nothing in the code reacts to
(a code other than 3500, or a failure of `connect`, which is only logged), `overlapped` that
two actors were inside these functions at once, which no lock prevents.

### Keys

One task, `createAuthenticateTask`, with the key resolvers it tries in turn, the
provisioning of a soft key (generate, register, confirm, save), the loop over refused
timestamps and the re-provisioning after a 404. A device is a record: signer callback,
configured uuid, TPM, soft-key provisioning. Signatures, encryption and the HMAC of a
saved key are ideal. Faults are lost replies (before or after the server acted), failing
callbacks, `loadKeyCallback` among them (it returns nothing while a good key is stored, and
the device provisions a new one; the ghost `unread`), a damaged saved key, devices the server forgets, and the end of the process
between any two steps. `confirmed` records the registrations the server made for this device.

### Services

`strand` is the queue of `m_strand`, `run` its handler. The handler of a pair code
sleeps on `m_shortCodeCV` and blocks everything behind it; a leaderboard request without
pairing information moves to the LeaderboardDeferred timer (`deferral`) and back, at most
`TOP_SCORES_DEFER_MAX_ATTEMPTS` times; a picture is downloaded and given to the LRU cache.
Replies with profiles come from another thread, decide under `m_gameSessionsMutex` which
pictures are missing, place an empty entry for each and start its download. `superseded`,
`cancelled` and `missed` record the three ways in which an answer is lost: the timer taken
by another deferred request (a finding, see below), the timer stopped by `~Net`, and `~Net` notifying while
the waiter is about to sleep.

### Probes

Nonces arrive in batches that replace what is left of the last one, `consumeNonce` asks for more at
two levels, and `setNfcTag` makes a URL and writes it, in two steps and without a lock,
from replies and from the check timer (`Callers`), which overlap. A reader reads the tag; the
check timer notices. The probe can be unplugged, writing can fail, and the boot-reason timer
enumerates again; whether it finds the probe or not, it makes a new `NetworkDiscovery`.
The discovery listener is a thread of its own: `disc` is what it describes and whether it
runs, `Encode` and `Decode` the packet with its zero-terminated fields and its size limit.
Two threads that overlap in `setDiscoveryDescription`, or a new search during one, use one
`std::thread` at the same time; that is undefined, and the model stops there (`alive`).
`ghost` holds the nonces that have been written.

### Cable

A reply is a frame of header, data and checksum units, which a command reads one by one
from the port's line with timeouts; a unit's `by` is a ghost, as nothing in the protocol
ties a reply to its command. Devices answer late, damage or lose frames, leave and come
back; a second probe may take a free port. The SDK's probe calls (one at a time, as
`ProbesManager` makes them) and the firmware tool take the interprocess lock of a port;
closing a cable and the search for the TPM do not. `quiet` holds while no answer to an
earlier command is owed. Ports are visited in one of the orders in which the directory may list
them (`Orders`). After a restart the tool searches for the type and the UID it has read before;
`FindProbe` takes a UID of 0 for any, so a probe in `Unnumbered`, which reports 0, is taken
for any probe of its type. The UIDs of the others are assumed to differ. POSIX builds only: the HID fallback and the Windows
branches are left out.

### Remote and Host

`Remote` is what Net does besides games, for several handles: `pool` is a bag of tasks
that run in any order, `strand` the queue of each Net's `m_strand`, `events` what was
pushed for the application. Requests wait for a status, are answered or fail after
retries; an upload packs an archive whose name has the second in it, sends and removes
it; probes are remembered by their trace id up to a limit, above which an id is dropped.
Session-data downloads and the list of firmwares are simplified to their outcome; what a
401 does is in `NetAuth`. `botched` records archives whose creation failed, `answers` the
trace ids answered.

`Host` is the application's side: a `Config` object, variables of type `GameState`, the
callbacks each owns, and the raw pointers a handle holds. "keys" stands for the save and
the load callback, the signer is an object of its own in Python only, and plain values
are one flag. The main thread posts jobs to a handle, callbacks run on SDK threads and
may post jobs too; the queue keeps the order of one thread only. Destroying a handle
posts Poison, joins the dispatcher, stops Net and drains its worker. A job enqueued after
that is undefined behaviour, modelled as a lost job. Callbacks of single requests (`shots`)
are freed by the wrapper when they are called. Jobs about games are one kind here.
`covered` excepts the two uses in which callbacks do not live long enough: see the
observations.

## Runs

| Run | Checks | Bounds |
|---|---|---|
| `event_channel` | `NoStrandedEvent`, `DeliveredOnce`, `StopIsFinal`, `EventuallyDelivered` | 2 producers, 3 events, 2 priorities |
| `game_sessions` | `ScoreStaysWithTurn`, `OneUploadPerTurn`, `EndStands`, `CurrentSessionKept`, `SettledOnlyAfterFinish` | 2 games. Scope "game": players 1, 2 and 10, balls 0 to 2, scores 0 and 5, 1 mode, 6 calls, 2 changes of the authentication. Scope "net": 1 player, 2 numbered submissions, 2 threads, counter up to 2 |
| `auth_recovery` | `AuthenticatingIsOwned`, `RecoveryPending`, `AuthenticationCompletes` | 2 threads, 1 request besides the SDK's own, 2 disturbances of any kind, 2 tries |
| `mode_expiry` | `ExpiryCovered`, `CallsBeforeDestroyRun`, `ModesAreLeased`, `OverdueModeGoes` | 2 modes, durations 0, 1 and 11, 1 waiting job, 2 expiries under way |
| `updater` | `BinaryRecoverable`, `ReportTruthful`, `SdkStaysInSeries` | 2 checkers, 4 versions in 2 series, 6 devices, 4 replies, 2 checks, 1 restart |
| `centrifugo` | `DestroyedUnwound`, `CreditsStatusNotMissed`, `ShutdownQuiet`, `RestartReconnects` | 1 pool thread and the strand, 5 clients, 2 restarts, 2 drops |
| `keys` | `SavedKeyConfirmed`, `SavedKeyNotSuperseded`, `OwnSignature`, `AuthenticationSettles` | 6 devices, 2 uuids of the server, 4 key pairs, 2 tries, 4 faults |
| `services` | `AnsweredOnce`, `PlaceholderIsDownloading`, `RequestsAnswered` | 2 requests, or 1 beside a reply with profiles; 3 players, 3 pictures, cache of 2, 1 deferral, 1 change of the status |
| `leaderboard_deferral` | `CallbackInvoked` (violated) | as `services` |
| `probes` | `NonceOffersOnce`, `HeardIsCurrent`, `ReadTagReplaced` | batches of 3 (levels 2 and 1), 2 batches, 1 read, 1 pairing, 1 fault, 1 discovery request, payload of 9 bytes |
| `cable` | `ReplyIsOwn`, `ReconnectedIsSame`, `CallsReturn` | 2 ports in ascending order, 2 probes, one of them with UID 0, 1 TPM, 2 calls, 1 fault, 2 tries |
| `host` | `CallbackAlive`, `AnsweredBeforeDestroyed`, `ArchivesRemoved`, `ProbeAnsweredOnce` | 2 handles, 2 variables, 4 trace ids of which 2 are remembered, 2 tries, 10 scenarios |

What the runs show:

* `event_channel`: nothing queued is forgotten or delivered twice, nothing is delivered
  after the stop, and what is queued arrives.
* `game_sessions`: the score of a turn is submitted under the player whose turn it was, the
  logs of a turn are uploaded once, and the end of a game stands once it is submitted: a
  create reply inside `setGameFinished` repeats it, unchanged and without flags, and nothing
  else follows under its number. The game in progress keeps its session and is not reported
  as completed.
* `auth_recovery`: the status Authenticating has one owner, who holds the lock; a lost
  authentication is recovered, and one that has begun comes to an end.
* `mode_expiry`: no expiry is forgotten, none comes early, no tick takes another mode, and
  the calls made before the handle is destroyed run.
* `updater`: a binary or its backup is on the disk whatever fails; a success that is
  reported has happened; the library of the SDK and its backup stay in the series `x.y` the
  device was delivered with, whatever earlier, failed or overlapping checks have left in
  `UPDATE_DIR` and whichever version runs after a restart.
* `centrifugo`: a restart leads to a connection, no client is destroyed with a callback
  queued, `onConnected` or `onDisconnected`, or with the strand still inside one of its callbacks,
  the credits status is asked for in either order of events, the shutdown leaves
  nothing connected.
* `keys`: a saved key was registered, and the device does not lock itself out as long as
  `loadKeyCallback` returns the key that is saved; a token is
  asked for with the key of its own identity; an authentication ends.
* `services`: a callback is called once at most, and in the end but for the three named
  exceptions; an empty picture has a download under way.
* `leaderboard_deferral`: `game_state_c.h` and `game_state.h` promise that a request which has
  to wait for its context is retried until it completes or fails, and then calls back. TLC
  finds the behaviour in which it does not: two requests are deferred, the second takes the
  one LeaderboardDeferred timer, and the first is forgotten.
* `probes`: no nonce is offered twice, a read tag is replaced, a discoverer hears the
  current description with every field where it belongs.
* `cable`: a command does not take another command's reply unless one was owed; a
  reconnection comes back to the same probe, or to an NFC probe if that one has no UID; every
  call returns.
* `host`: callbacks live as long as the SDK may call them; each request is answered once,
  and before its handle is gone; no archive stays behind; a repeated probe is
  answered once while its id is remembered.

### Why the bounds are enough

Two producers give every race on the counter and on the queue, three events one
comparison of each kind. Two games give a late task of the first during the second, and
two threads any reordering of two handlers. One behaviour of `game_sessions` is in one scope:
"game" has every edit and every grouping of them with a Net that only stores sessions, "net"
all of Net with short games, since the handlers tell submissions apart by their number and by
whether the game is over only. In `auth_recovery` two tasks meet a 401 at the
same time, a stale reply overwrites the status during a recovery, and a refresh timer
misleads one. In `mode_expiry` two expiries under way give a tick that is late for its mode
beside one that is due, and the three durations the default, the cap and a short one; a
queue of one job is enough, as jobs act only when they run, and Poison may still come
behind one. In `updater` the second check meets what the first, or the restart in the
middle of it, left on the disk; the replies offer a patch, a larger step, a bad
archive and no asset. In `centrifugo` the second restart comes at every stage of the first,
two drops start two resets, and five clients are as many as these steps can make. Four faults in `keys` make a lost
reply, a crash, a failed save and a forgotten device fall into one behaviour. In `services` three
pictures overflow a cache of two, and two requests meet on the timer and on the strand. A
batch of three in `probes` crosses both levels; nine bytes hold the description of an
unpaired machine and end the one with a title before its last field, at a field boundary (cuts
inside a field are in the proof, which is for any size). Two ports in `cable` let a probe come back to the other port or find it taken;
the directory lists them in one order there, and in any in the proofs.
The scenarios of `host` each raise one dimension (objects, requests, chains of requests from
callbacks, messages, uploads, probes) so that five probes overflow the two remembered ids
and three uploads meet in one second.

`CHECK_DEADLOCK FALSE` everywhere: in each system the application may stop making calls.

### Fairness

* `EventManager!EventsFairness`: the pool keeps running what is posted to the strand and
  the application's callback returns; a thread inside `push` goes on. No fairness
  on pushing or stopping.
* `ModeExpiry!ModesFairness`: the pool runs expired timers and their handlers, and the C
  API thread comes to a tick in the end. The last is more than the queue guarantees
  to a producer with few items, but holds unless the application posts jobs faster
  than the thread runs them for ever. Neither the clock nor the application is fair.
* `NetAuth!FairSpec`: the pool threads keep running their tasks, and the server
  answers a token request in the end with something other than a network error
  (the code repeats it for ever otherwise). Each task makes finitely many steps
  within the bounds, so weak fairness of the pool as a whole is enough. Nothing
  forces a request, a timer or a message.
* `Centrifugo!Fairness`: each thread goes on inside a function, the client library finishes
  a connection attempt and runs its callbacks, which return, and an armed timer expires. Its handlers need a
  pool thread, which others may take again and again before it: strong fairness stands for
  the pool's queue, which is first in, first out. Drops, restarts and `~Net` are not forced.
* `Keys!KeysFairSpec`: weak fairness of the task's step; the server is out of reach at most
  `MaxMishaps` times. Nothing forces a crash or a fault.
* `Services!ServicesFairSpec`: the pool runs the strand and the timer's handlers, timers expire,
  HTTP requests have time limits, `~Net` goes on once begun. The pair code need not come.
* `Probes!ProbesFairSpec`: requests end, the timers' handlers and the listener run, and an
  unplugged probe is plugged in again. Reading the tag and pairing are not forced.
* `Cable!Fairness`: the actors' threads run, and as long as devices can answer, leave or come
  back, one of them does.
* `GameState`, `GameSessions`, `Updater` and `Host` are checked for safety only.

## Proofs

`GameSideProofs` has three parts, about what a game gets from the SDK. For `EventManager` it
proves, for any producers, events and priorities,

* `EventsTypeCorrect`: `EventsSpec => []EventsTypeOK`,
* `NeverStranded`: `EventsSpec => []NoStrandedEvent`,
* `NeverTwice`: `EventsSpec => []DeliveredOnce`,
* `StopHolds`: `EventsSpec => StopIsFinal`,

from the single assumption `PriorityAssumption`. `NoStrandedEvent` is inductive
with the types; `DeliveredOnce` is not: that an event which has been delivered is
not enqueued again rests on who created it. The inductive invariant `EventsIInv` adds
that the event a producer is constructing or pushing is the last it created
(`OwnsEvent`), that an event in the queue, in the handler or delivered was created
(`ArrivedArePushed`), that the one being pushed has not arrived yet
(`NotYetArrived`), and that an event has one creator (`OneCreator`). Each part has
a lemma for its preservation, with a step for each action that can disturb it.

For `ModeExpiry` it proves, for any modes, durations and bounds, from `ModeExpiryAssumption`,

* `ModesTypeCorrect`: `ModesSpec => []ModesTypeOK`,
* `ExpiryNeverForgotten`: `ModesSpec => []ExpiryCovered`,
* `QueueIsDrained`: `ModesSpec => []CallsBeforeDestroyRun`,
* `ModesImplementLeases`: `ModesSpec => ModesAreLeased`, the refinement of `ModeLease`.

The inductive invariant adds three facts. `PoisonLast`: Poison is the last item from
the shutdown to the end of the thread; `CallsBeforeDestroyRun` follows, and that an
open handle has a running thread, without which destroying it could cancel the timer
under a deadline. `DeadlinesListed`: a deadline belongs to a listed mode, so that
`addMode` after a removal gives a mode without deadline. `NoModesBetweenGames`: a
tick that finds no game erases no lease. The refinement has one step per job, and the
timer and the posters leave every lease as it is.

For `Services` it proves, from `ServicesAssumption`, for any requests, players, pictures,
capacities of the cache and bounds,

* `ServicesTypeCorrect`: `ServicesSpec => []ServicesTypeOK`,
* `RequestsAnsweredOnce`: `ServicesSpec => []AnsweredOnce`,
* `EmptyEntriesAreLoading`: `ServicesSpec => []PlaceholderIsDownloading`.

A callback travels from the strand to its handler, to the timer, to an expired handler of
the timer and back to the handler. `Once` says that a request is at one of these places at
most, and that it is at none of them once it is answered or before it is made; each pair of
places needs its conjunct, as each step moves a request between two. `EmptyEntriesLoad`
is inductive with the types, but only with the facts `Lru` about the cache: one entry for a
picture and no more entries than the capacity. An eviction takes the oldest entry whole, a
finished download fills or erases every entry of its picture, so neither leaves an empty
entry behind; `PutStores`, `Erased` and the lemmas around them say what the cache's
operations leave in it.

`GameSessionsProofs` proves, from `GameStateAssumption` and `SessionsAssumption`, for
any players, balls, scores, modes, games, submissions and threads,

* `BonusGoesToItsTurn`: `GameSpec => ScoreStaysWithTurn`,
* `TurnsUploadOnce`: `GameSpec => OneUploadPerTurn`,
* `FinishSubmittedLast`: `GameSpec => EndStands`,
* `SessionOutlivesGame`: `Spec => []CurrentSessionKept`,
* `NeverSettledEarly`: `Spec => []SettledOnlyAfterFinish`,
* `SubmissionsInContext`: the three properties of `GameSpec` hold of `Spec` too, where Net
  delivers the session reply that submits the data again.

The first three are about single steps and need `GameInv`: without a game the data are
empty, with one they are this game's and what was submitted last is this game's or nothing
(`Playing`); what was submitted last has no later number than the current game; scores
belong to players with a valid number (`Seated`), without which the bonus submission of a
turn could name player 0. A step of either specification is one of a few effects (a game
starts, data are edited, data are submitted, nothing), and each property is shown per
effect. For the next two, `IInv` adds that every task of the
pool about to store or queue (`PoolFits`), every queued update (`QueueFits`), every session present (`SessionsFit`) and every session settled
(`SettledFits`) carries a number that was given out, and for the current game nothing that
says it is over. Neither property is inductive without it: a task that was posted long
before decides what becomes of a session now.

`NetAuthProofs` proves, from `AuthAssumption`, for any number of tasks, tries, requests
and disturbances,

* `TypeCorrect`: `Spec => []TypeOK`,
* `OneAuthentication`: `Spec => []AuthenticatingIsOwned`,
* `LostTokenIsRecovered`: `Spec => []RecoveryPending`.

`Good` narrows the types to the stages a kind of task can be in; `LockOwned` says that
`m_authMutex` is taken exactly while one task is between its lock and unlock, `AuthOwned`
that some task at work stands behind the status Authenticating, `Recovering` what is under
way after a 401. The pool is a sequence of any length, so the lemmas come first on what taking,
posting and replacing a task do to "exactly one task is at such a stage".

`UpdaterProofs` proves, from `UpdaterAssumption`, for any checkers, versions, devices and
replies, and any number of checks and restarts,

* `UpdateKeepsABinary`: `Spec => []BinaryRecoverable`,
* `SdkNeverLeavesSeries`: `Spec => []SdkStaysInSeries`,
* `ReportsAreTrue`: `Spec => []ReportTruthful`.

That a rename which fails, or a crash behind it, leaves a binary depends on the file being
there when the check comes to it: `LibInPlace`, which holds while one check is alone
(`Alone`). `SdkInSeries` is the strengthening of `SdkStaysInSeries`: what runs, what an active check
works on and every file in `UPDATE_DIR`, leftovers included, is of the series too. `SuccessIsReal` ties the local `success` to what happened
on the disk, and `Offered` says that the binary under work has an asset.

`IdentityProofs` proves about `Keys`, from `KeysAssumption`, for any uuids, devices, key pairs,
tries and faults,

* `OnlyConfirmedKeysSaved`: `KeysSpec => []SavedKeyConfirmed`,
* `NeverLockedOut`: `KeysSpec => []SavedKeyNotSuperseded`,
* `SignsAsItself`: `KeysSpec => []OwnSignature`.

The strengthening follows a provisioning through its stages: nothing good is saved while
one is under way, unless loading it has failed (`NothingSavedYet`, the reason no registration
supersedes a good key), an
offered uuid has a key pair (`OfferedPair`) which the server took when `confirm` succeeded
(`TakenPair`); the uuid and the signer in the device info belong together
(`UuidInPlace`, `SignerFitsUuid`).

About `Probes` it proves, from `ProbesAssumption`, for any batch size and levels, any texts of
a description and any payload size,

* `NoncesAreUsedOnce`: `ProbesSpec => []NonceOffersOnce`,
* `DescriptionsArrive`: `ProbesSpec => []HeardIsCurrent`.

`NonceInv`: a nonce that has been issued is at one place at most, in the batch, with one
thread that is writing it, or written, and what the server sends next is new. `DiscoveryInv`:
what the listener has encoded, and what was heard, is the encoding of a description that was
set. The rest is about the encoding: `DecodeEncode` follows `ListenerThreadProc` and
`Discover` field by field through `AppendZ` and `ReadNextZ`, with the cases in which a field
is cut, is left out, or the eight bytes of the serial number no longer fit.

`CableProofs` proves, from `CableAssumption`, for any ports, probes, TPMs, calls, faults and
rounds,

* `TypeCorrect`: `Spec => []TypeOK`,
* `RepliesAreOwn`: `Spec => []ReplyIsOwn`,
* `ReconnectsToSame`: `Spec => []ReconnectedIsSame`.

`CableAssumption` asks that the actors are different from each other and from `None`, that
ports are positive numbers (0 and -1 stand for a closed and a dead cable), that no two devices
begin at one port, that a cable which is open in the beginning leads to a probe, and that the
devices without a UID are NFC probes. `Safe`
is about the line: two devices are never at one port (`Distinct`), an open cable has a device
at its end (`Attended`), an active command holds the lock of its port and its cable leads there
or is dead (`Held`), everything a quiet command has read answers it (`GotOwn`), and nothing
else is owed by the device or, after the flush, left in the line (`Own`). The last is why the
lock is needed: other commands add to the line and the inbox only with the lock, while the
search for a TPM, a closing cable and a device that leaves only remove. `AllHere` says
that an answer to `infos` in a line names the device at that port. `ToolInv` follows the
tool's reconnection: what it has heard names the device at the end of its cable unless
that has gone (`Heard`), and the step that found a probe compares with what it heard, which
leaves any NFC probe only where the one restarted has no UID (`Regained`).

`CentrifugoProofs` proves, from `CentrifugoAssumption`, for any pool threads, clients,
restarts and drops,

* `TypeCorrect`: `Spec => []TypeOK`, with the partition of the clients into the active one,
  the retired and the destroyed,
* `NoDanglingCallback`: `Spec => []DestroyedUnwound`,
* `CreditsAskedFor`: `Spec => []CreditsStatusNotMissed`,
* `NothingLeftOpen`: `Spec => []ShutdownQuiet`.

The invariant has a part that always holds (where clients are, that handlers of the timer
name clients that exist, that a final close disconnects at once) and a part, `Sequential`,
that holds as long as no two actors met in these functions: one actor at most is inside
(`OneAtATime`), a retired client is disconnected and after its grace period has no
callback queued (`RetiredUnwind`), and what each stage of a restart or of `~Net` has
closed already (`RetireIdle`, `SetupQuiet`, `ResetQuiet`, `StopNoDial`, `Closed`).
`NoDanglingCallback` needs a second layer, `Unwinding`, about what the strand has still to do:
nothing for a client that is destroyed, past its grace period or in the hands of an actor that
is about to replace it in place, no `onConnected` for the client a reset waits for, and no
frame of it once the reset has expired. A client for which nothing is left cannot stir again
(`Stirs`, `StaysFree`), because a callback begins only for a client that is connected, closing
or greeting. The grace period covers the retired clients; that `make_unique` is safe over the
active one rests on who starts the reset: its own `onDisconnected`, which nothing follows.
`CreditsStatusNotMissed` does not need the second part.

`HostProofs` proves, from `HostAssumption` (the scenarios have their types, and handles and
slots are positive numbers because 0 stands for none) and `RemoteAssumption`, for any
handles, objects, scenarios, queues and messages,

* `CallbacksOutliveThreads`: `Spec => []CallbackAlive`,
* `NoArchiveLeft`: `Spec => []ArchivesRemoved`,
* `ProbesAnsweredOnce`: `Spec => []ProbeAnsweredOnce`,
* `CallbacksCalledOnce`: `Spec => []AnsweredBeforeDestroyed`.

`ObjectInv` is about ownership: a covered handle with threads has an object that owns what
it points to (`Owned`), an object's handle is not destroyed and is its alone (`Attached`,
`OneObject`), and the object being destroyed is the one with the handle waited for
(`MainOwns`). `Housed` says that tasks belong to handles that exist, and that a worker
which never ran has opened no archive: the shutdown drops the tasks of such a worker only.
`ProbesOf`: until the set of trace ids overflows it holds exactly the ids answered. For the
last theorem `CallbackInv` follows each callback: it is with one job of one queue, with one
task of the pool, with one task of a strand or, after its call, with nobody (`Sits`), and
the place fits what the wrapper knows of it (`Fits`); `QueueOf` says that Poison is the last
job of the main thread and that one handle at most is being destroyed. The lemmas `Sits...`
say what each operation on a queue or a bag does to the place of a callback, `CallsChange`
reduces `Next` to a dozen effects, and `Tracks...` treats each of them. Jobs that other
threads post after Poison may be lost, so nothing is claimed of them but that they are called
once at most.

`IInv`, or the part of it named above, was checked by TLC on the runs' instances before it
was proved. All bounds (`Max...`, lengths, the scenarios' counters) are parameters, so the
theorems do not depend on their values.

Only model-checked: the violated `CallbackInvoked` and the liveness properties (`EventuallyDelivered`, `OverdueModeGoes`,
`AuthenticationCompletes`, `RestartReconnects`, `AuthenticationSettles`, `RequestsAnswered`,
`ReadTagReplaced`, `CallsReturn`), which are out of the prover's reach. Every invariant and
action property that a run checks is a theorem.

## Observations

Behaviours that the models reach, and for which the properties above make an exception or
which they leave open. None of them is needed for the properties that hold.

* `event_classes.h`: the order counter is a plain integer incremented by several threads,
  so events of one priority can be delivered out of the order of their creation.
* `net.cpp`: the final update of a game is not necessarily the last that is said about it: a
  handler that read the session before can still publish.
* One SessionUpdate timer serves all sessions: arming it for one cancels the retry of another.
* Periodic publishing ends when its handler returns early and starts again with the next
  commit only.
* The sequence counter of a session starts again when `operator[]` inserts it anew.
* A request to unpair succeeds at once on a status NotPaired that a stale reply has set.
* The shutdown's notification does not hold the mutex of the waiters and can be missed.
* A leaderboard request that is deferred takes the timer of one deferred before, whose
  callback is then never called (`game_state_c.h` says it will be: the finding of
  `leaderboard_deferral`).
* A create reply between the submission that ends a game and the reset of `m_data` submits the
  end a second time.
* When `loadKeyCallback` returns nothing although a key is saved, a new key is registered
  for the device's uuid; a crash or a failed save after that leaves the saved one superseded.
* A probe that reports the UID 0 is taken for any probe of its type after a restart.
* Capabilities set after the Scorbitron object has been serialised, and before its reply,
  do not reach the server (`net.cpp:829`).
* An overflowing set of trace ids can drop the id it has just taken in.
* A retried download appends to the partial file.
* Two checks for updates that overlap can leave neither a binary nor its backup, and an
  exception leaves `m_updateInProgress` set until the restart.
* The move assignment of `GameState` frees the callbacks before it destroys the old handle,
  and a `Config` used for a second game state passes on pointers to callbacks that the first
  has taken.
* `sb_destroy_game_state` dereferences a null handle, which its header allows.
* With an invalid device info the worker never starts and callbacks are never called.
* A call made from a callback after Poison is lost, or reaches a destroyed queue.
* The comment in `game_state_impl.h` and the code in `modes.cpp` disagree on durations.

## Not modelled

* The disabled heartbeat; formatting, parsing, logging and accessors: no state that several
  steps share.
* Cryptography, which is ideal in `Keys`; checksums, which are right or wrong in `Cable`.
* The HID fallback, the Windows branches of the drivers and the NXP register layer: device
  access that only real hardware answers.
* Example programs, command-line tools and build files.
* The Centrifugo, HTTP and queue libraries, which appear only as what they may do to
  their callers.
* Data races on plain members (torn reads) outside `EventManager`'s counter.

## Plan

Every invariant and action property the runs check is proved. What is left:

1. An abstract specification of a session as the server sees it (created, updated,
   completed once) that `GameSessions` implements within the observations above.
2. The hazards without a property: each says in its note what a model of it would need.
