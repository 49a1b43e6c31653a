------------------------------- MODULE Remote -------------------------------
(***************************************************************************)
(* What Net does for the application and for the cloud besides games       *)
(* (net.cpp): requests, downloads, pair codes, capabilities, credits, the  *)
(* messages of the control channels, diagnostic probes and the upload of   *)
(* diagnostics (utils/archiver.cpp).                                       *)
(*                                                                         *)
(* Each handle has a Net.  Its tasks run on the pool in any order, except  *)
(* those of m_strand, which run one by one.  A task that ends with a       *)
(* callback of the application stops at stage "reply", and an event that   *)
(* was pushed stays in events: Host takes them from there.  How the status *)
(* changes is in NetAuth, the connection of the channels in Centrifugo.    *)
(***************************************************************************)
EXTENDS Naturals, Sequences, FiniteSets, BagsExt, SequencesExt, Bags

CONSTANTS Nets,       \* the handles that may be created
          Traces,     \* trace ids of diagnostic probes
          NumRetries, \* NUM_RETRIES
          SeenCap     \* the trace ids remembered (10 in the code)

ASSUME RemoteAssumption == NumRetries \in Nat \ {0} /\ SeenCap \in Nat \ {0}

VARIABLES net,      \* of each handle: the members of its Net that matter here
          pool,     \* the tasks posted to the pool, a bag
          strand,   \* of each handle: the tasks of m_strand, the first one running
          events,   \* of each handle: the events pushed and not delivered yet
          files,    \* diagnostics archives in the temporary directory, by their second
          second,   \* the clock
          botched,  \* ghost: archives whose creation failed
          answers   \* ghost: of each handle, the trace ids answered

remoteVars == <<net, pool, strand, events, files, second, botched, answers>>

Statuses == {"NotAuthenticated", "CheckingPairing", "Unpaired", "Paired", "Failed"}

\* A Net whose device info is not valid never starts its worker.
NewNet(valid, scorbitron) ==
    [running |-> valid, scorbitron |-> scorbitron, status |-> "NotAuthenticated", stop |-> FALSE,
     code |-> FALSE, seen |-> {}]

Task(h, kind, stage, cb) ==
    [h |-> h, kind |-> kind, stage |-> stage, tries |-> NumRetries, cb |-> cb, file |-> 0]

RemoteInit ==
    /\ net = [h \in Nets |-> NewNet(FALSE, FALSE)]
    /\ pool = EmptyBag
    /\ strand = [h \in Nets |-> <<>>]
    /\ events = [h \in Nets |-> <<>>]
    /\ files = {}
    /\ second = 1
    /\ botched = {}
    /\ answers = [h \in Nets |-> <<>>]

IsAuthenticated(h) == net[h].status \in {"Unpaired", "Paired"}

\* Worker::post and postQueue.
Post(t) == pool' = BagAdd(pool, t)
PostQueue(t) == strand' = [strand EXCEPT ![t.h] = Append(@, t)]

\* A task goes on as u, or has ended.
Advance(t, u) == pool' = BagAdd(BagRemove(pool, t), u)
Ended(t) == pool' = BagRemove(pool, t)

\* The kinds of events that matter here; pricing comes with a configuration.
Events == {"startGame", "addCredits", "creditsStatus", "uploadDiagnostics", "config", "firmwares",
           "uploaded"}

\* EventManager::push; the channel itself is in EventManager.
Push(h, e) == e \in Events /\ events' = IF net[h].stop THEN events ELSE [events EXCEPT ![h] = Append(@, e)]

-----------------------------------------------------------------------------
(* Requests. *)

\* The statuses a request of this kind may be sent in.
Allowed(kind) ==
    CASE kind = "object" -> {"CheckingPairing", "Unpaired", "Paired"}
      [] kind \in {"pairMachine", "capabilities", "config"} -> {"Unpaired", "Paired"}
      [] OTHER -> {"Paired"}

Requested == {"unpair", "pairMachine", "capabilities", "object", "config", "plain", "upload"}

\* Mutant of the next definition: the archive of a failed upload stays.
MutantKeepsFailed(t, err) ==
    IF t.kind = "upload" /\ err = "Success" THEN files \ {t.file} ELSE files

\* The reply to an upload removes its archive, whatever came of it.
FilesAfter(t, err) ==
    IF t.kind = "upload" THEN files \ {t.file} ELSE files

\* What the end of a request leads to: events, the removal of the archive that was sent, the
\* pairing status in a reply with the Scorbitron object, and the callback of the application.
\* Unpairing takes NotPaired for success.  The reply to pairMachine first starts what follows
\* an authentication.
AfterRequest(t, err) ==
    /\ CASE t.kind = "config" /\ err = "Success" -> Push(t.h, "config")
         [] t.kind = "upload" -> Push(t.h, "uploaded")
         [] OTHER -> UNCHANGED events
    /\ files' = FilesAfter(t, err)
    /\ \E s \in CASE t.kind = "unpair" /\ err \in {"Success", "NotPaired"} -> {"Unpaired"}
                   [] t.kind \in {"object", "pairMachine", "capabilities"} /\ err = "Success" ->
                        {"Unpaired", "Paired"}
                   [] OTHER -> {net[t.h].status} :
          net' = [net EXCEPT ![t.h].status = s]
    /\ IF t.cb = 0 THEN Ended(t)
       ELSE Advance(t, [t EXCEPT !.stage =
                            IF t.kind = "pairMachine" /\ err = "Success" THEN "init" ELSE "reply"])

\* createHttpRequestTask: the wait for a status that settles the matter, and its check.
RequestWakes(t) ==
    /\ t.stage = "wait" /\ t.kind \in Requested
    /\ IsAuthenticated(t.h) \/ net[t.h].stop \/ net[t.h].status \in {"Failed"} \cup Allowed(t.kind)
    /\ IF net[t.h].status \in Allowed(t.kind)
       THEN Advance(t, [t EXCEPT !.stage = "send"]) /\ UNCHANGED <<net, events, files>>
       ELSE AfterRequest(t, IF net[t.h].status = "Failed" THEN "AuthFailed" ELSE "NotPaired")
    /\ UNCHANGED <<strand, second, botched, answers>>

\* The answer: success, a failure, or none or a 401, after which it is tried again.
RequestAnswered(t) ==
    /\ t.stage = "send" /\ t.kind \in Requested
    /\ \/ AfterRequest(t, "Success")
       \/ AfterRequest(t, "ApiError")
       \/ /\ t.tries > 1
          /\ Advance(t, [t EXCEPT !.stage = "wait", !.tries = @ - 1])
          /\ UNCHANGED <<net, events, files>>
    /\ UNCHANGED <<strand, second, botched, answers>>

\* requestFirmwaresList asks for Scorbitrons only.
RequestFirmwaresList(h) ==
    IF net[h].scorbitron THEN PostQueue(Task(h, "firmwares", "wait", 0)) ELSE UNCHANGED strand

\* initializeConnectionState: the Scorbitron object, the configuration and the list of
\* firmwares.  The release track is in Updater, the channels in Centrifugo, the
\* nonces in Probes.
InitializeConnectionState(h, tasks) ==
    /\ pool' = BagAdd(BagAdd(tasks, Task(h, "object", "wait", 0)), Task(h, "config", "wait", 0))
    /\ RequestFirmwaresList(h)

MachinePaired(t) ==
    /\ t.stage = "init"
    /\ InitializeConnectionState(t.h, BagAdd(BagRemove(pool, t), [t EXCEPT !.stage = "reply"]))
    /\ UNCHANGED <<net, events, files, second, botched, answers>>

-----------------------------------------------------------------------------
(* The operations of Net. *)

\* getConfig.
GetConfig(h) == Post(Task(h, "config", "wait", 0)) /\ UNCHANGED strand

\* requestSessionData: a request on the queue of the sessions, where nothing here waits for it.
\* The profiles in its reply are in Services.
RequestSessionData(h) == Post(Task(h, "plain", "wait", 0)) /\ UNCHANGED strand

\* patchScorbitron with the machine taken away, and with a machine and its owner.
RequestUnpair(h, cb) == Post(Task(h, "unpair", "wait", cb)) /\ UNCHANGED strand
RequestPairMachine(h, cb) == Post(Task(h, "pairMachine", "wait", cb)) /\ UNCHANGED strand

\* setCapabilities: before the authentication they go with the Scorbitron object.
SetCapabilities(h) ==
    IF IsAuthenticated(h) THEN Post(Task(h, "capabilities", "wait", 0)) /\ UNCHANGED strand
    ELSE UNCHANGED <<pool, strand>>

SetCreditsDropped(h) == Post(Task(h, "plain", "wait", 0)) /\ UNCHANGED strand
SetCreditsStatus(h) == Post(Task(h, "publish", "run", 0)) /\ UNCHANGED strand
UploadDiagnostics(h) == Post(Task(h, "upload", "collect", 0)) /\ UNCHANGED strand

\* requestPairCode without a code in the cache, and the asynchronous downloads.
RequestPairCode(h, cb) == PostQueue(Task(h, "pairCode", "wait", cb)) /\ UNCHANGED pool
Download(h, kind, cb) == PostQueue(Task(h, kind, "wait", cb)) /\ UNCHANGED pool

-----------------------------------------------------------------------------
(* The strand: pair codes, downloads and the list of firmwares. *)

StrandTask(h) == Head(strand[h])
StrandStage(h, s) == strand' = [strand EXCEPT ![h][1].stage = s]
StrandNext(h) == strand' = [strand EXCEPT ![h] = Tail(@)]

\* requestPairCode: the wait on m_shortCodeCV, for the code or the stop.
PairCodeArrives(h) ==
    /\ StrandTask(h).kind = "pairCode" /\ StrandTask(h).stage = "wait"
    /\ net[h].code \/ net[h].stop
    /\ StrandStage(h, "reply")
    /\ UNCHANGED events

\* One try of a download; neither asks for a status nor for the stop.
TryAgain(h) == StrandTask(h).tries > 1 /\ strand' = [strand EXCEPT ![h][1].tries = @ - 1]

\* createDownloadFileTask: a file that cannot be opened, status 200, one from 400 on and the
\* last try end it.
FileTried(h) ==
    /\ StrandTask(h).kind = "download" /\ StrandTask(h).stage = "wait"
    /\ StrandStage(h, "reply") \/ TryAgain(h)
    /\ UNCHANGED events

\* createDownloadBufferTask: too large a buffer ends it, too.
BufferTried(h) ==
    /\ StrandTask(h).kind = "downloadBuffer" /\ StrandTask(h).stage = "wait"
    /\ StrandStage(h, "reply") \/ TryAgain(h)
    /\ UNCHANGED events

\* requestFirmwaresList: a request on the strand, in one step; its reply is an event.
FirmwaresListed(h) ==
    /\ StrandTask(h).kind = "firmwares"
    /\ IsAuthenticated(h) \/ net[h].status = "Failed" \/ net[h].stop
    /\ StrandNext(h)
    /\ \/ net[h].status = "Paired" /\ Push(h, "firmwares")
       \/ UNCHANGED events

StrandRuns(h) ==
    /\ net[h].running /\ strand[h] # <<>>
    /\ PairCodeArrives(h) \/ FileTried(h) \/ BufferTried(h) \/ FirmwaresListed(h)
    /\ UNCHANGED <<net, pool, files, second, botched, answers>>

-----------------------------------------------------------------------------
(* Diagnostics. *)

\* uploadDiagnostics: nothing left of the files that were named.
NothingToUpload(t) ==
    /\ t.kind = "upload" /\ t.stage = "collect"
    /\ Push(t.h, "uploaded")
    /\ Ended(t)
    /\ UNCHANGED <<net, strand, files, second, botched, answers>>

\* createTarGz opens the archive, whose name is the second: the file appears, or is the one
\* another upload has under way.
ArchiveOpens(t) ==
    /\ t.kind = "upload" /\ t.stage = "collect"
    /\ \/ /\ files' = files \cup {second}
          /\ Advance(t, [t EXCEPT !.stage = "write", !.file = second])
          /\ UNCHANGED events
       \/ Push(t.h, "uploaded") /\ Ended(t) /\ UNCHANGED files
    /\ UNCHANGED <<net, strand, second, botched, answers>>

\* Its entries are written; after a failure the file stays.
ArchiveWritten(t) ==
    /\ t.kind = "upload" /\ t.stage = "write"
    /\ \/ /\ Advance(t, [t EXCEPT !.stage = "check"])
          /\ UNCHANGED <<events, botched>>
       \/ /\ Push(t.h, "uploaded")
          /\ Ended(t)
          /\ botched' = botched \cup {t.file}
    /\ UNCHANGED <<net, strand, files, second, answers>>

\* The archive must still be there; then it is sent with a request like any other.
ArchiveChecked(t) ==
    /\ t.kind = "upload" /\ t.stage = "check"
    /\ IF t.file \in files
       THEN Advance(t, [t EXCEPT !.stage = "wait"]) /\ UNCHANGED events
       ELSE Push(t.h, "uploaded") /\ Ended(t)
    /\ UNCHANGED <<net, strand, files, second, botched, answers>>

\* publishDiagnosticPacket and setCreditsStatus: published when the client is there.
Publishes(t) ==
    /\ t.kind = "publish"
    /\ Ended(t)
    /\ UNCHANGED <<net, strand, events, files, second, botched, answers>>

\* Mutant of the next definition: the set is halved when it is full, not when it overflows.
MutantHalvedWhenFull(seen) ==
    IF Cardinality(seen) < SeenCap THEN {seen}
    ELSE {s \in SUBSET seen : Cardinality(s) = Cardinality(seen) - Cardinality(seen) \div 2}

\* The trace ids that stay: half of them go when there are too many, in the order of an
\* unordered_set, which may take the one just inserted.
Remembered(seen) ==
    IF Cardinality(seen) <= SeenCap THEN {seen}
    ELSE {s \in SUBSET seen : Cardinality(s) = Cardinality(seen) - Cardinality(seen) \div 2}

\* publishDiagnosticPacket and postDiagnosticAck.
DiagnosticPacket(h) == Task(h, "publish", "run", 0)
DiagnosticAck(h) == Task(h, "plain", "wait", 0)

\* handleDiagnosticProbe: an id not seen yet is answered on the channel and with a request.
HandleDiagnosticProbe(h, id) ==
    /\ UNCHANGED <<strand, events>>
    /\ IF id \in net[h].seen THEN UNCHANGED <<net, pool, answers>>
       ELSE /\ \E s \in Remembered(net[h].seen \cup {id}) : net' = [net EXCEPT ![h].seen = s]
            /\ pool' = BagAdd(BagAdd(pool, DiagnosticPacket(h)), DiagnosticAck(h))
            /\ answers' = [answers EXCEPT ![h] = Append(@, id)]

-----------------------------------------------------------------------------
(* Messages of the control channels and the worker. *)

Messages == {"startGame", "getSession", "creditsStatus", "addCredits", "uploadDiagnostics",
             "configRefresh", "unknown"} \cup Traces

\* onPublication.  Pairing and unpairing are in NetAuth and Centrifugo; the number of players
\* of a game the cloud starts goes into the session (GameSessions).
OnPublication(h, msg) ==
    /\ net[h].running /\ ~net[h].stop
    /\ CASE msg \in Traces -> HandleDiagnosticProbe(h, msg)
         [] msg = "getSession" -> RequestSessionData(h) /\ UNCHANGED <<net, events, answers>>
         [] msg = "configRefresh" -> GetConfig(h) /\ UNCHANGED <<net, events, answers>>
         [] msg = "unknown" -> UNCHANGED <<net, pool, strand, events, answers>>
         [] OTHER -> Push(h, msg) /\ UNCHANGED <<net, pool, strand, answers>>
    /\ UNCHANGED <<files, second, botched>>

\* The outcome of an authentication, a lost one, and the pair code that comes with an unpaired
\* Scorbitron's object.
StatusChanges(h, s) ==
    /\ net[h].running /\ ~net[h].stop /\ s # net[h].status
    /\ \/ s = "CheckingPairing" /\ net[h].status = "NotAuthenticated"
       \/ s = "Failed" /\ net[h].status = "NotAuthenticated"
       \/ s = "NotAuthenticated" /\ net[h].status \in {"CheckingPairing", "Unpaired", "Paired"}
    /\ net' = [net EXCEPT ![h].status = s]
    /\ IF s = "CheckingPairing" THEN InitializeConnectionState(h, pool) ELSE UNCHANGED <<pool, strand>>
    /\ UNCHANGED <<events, files, second, botched, answers>>

ShortCodeCached(h) ==
    /\ net[h].status = "Unpaired" /\ ~net[h].code
    /\ net' = [net EXCEPT ![h].code = TRUE]
    /\ UNCHANGED <<pool, strand, events, files, second, botched, answers>>

PoolRuns ==
    \E t \in BagToSet(pool) :
        /\ net[t.h].running
        /\ \/ RequestWakes(t) \/ RequestAnswered(t) \/ MachinePaired(t) \/ Publishes(t)
           \/ NothingToUpload(t) \/ ArchiveOpens(t) \/ ArchiveWritten(t) \/ ArchiveChecked(t)

\* ~Net: the stop, and the drained worker.  A worker that never started drops its tasks.
StopNet(h) == net' = [net EXCEPT ![h].stop = TRUE]
Drained(h) == net[h].running => strand[h] = <<>> /\ \A t \in BagToSet(pool) : t.h # h

-----------------------------------------------------------------------------
\* While the trace ids fit into their set none is answered a second time, however often the
\* channel delivers it: only what is answered after the first overflow may be a repetition
\* (handleDiagnosticProbe).
ProbeAnsweredOnce ==
    \A h \in Nets : \A i, j \in DOMAIN answers[h] :
        i < j /\ answers[h][i] = answers[h][j] => j > SeenCap + 1

\* A diagnostics archive in the temporary directory belongs to an upload under way, or its
\* creation failed: uploads of one second, which share a file, failures and the shutdown leave
\* none behind (uploadDiagnostics, createTarGz).
ArchivesRemoved ==
    \A f \in files : f \in botched \/ \E t \in BagToSet(pool) : t.kind = "upload" /\ t.file = f
=============================================================================
