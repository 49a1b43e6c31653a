-------------------------------- MODULE Probes -------------------------------
(***************************************************************************)
(* The NFC probe and the network discovery (libs/nfc), as Net drives them. *)
(*                                                                         *)
(* The probe's tag offers one URL with the machine and a nonce.  Nonces    *)
(* come from the server in batches (createNfcNonces); a timer looks every  *)
(* two seconds whether the tag has been read and replaces it (setNfcTag).  *)
(* The boot-reason timer enumerates the probes again when the probe does   *)
(* not answer.  The listener thread of NetworkDiscovery answers requests   *)
(* of the local network with the machine's description, which changes      *)
(* with the pairing.                                                       *)
(***************************************************************************)
EXTENDS Naturals, Sequences, FiniteSets, SequencesExt

CONSTANTS Machine,     \* the machine the server pairs the device with
          None,        \* no machine, and no nonce
          BatchSize,   \* nonces of a reply
          High, Low,   \* 10 and 5 of consumeNonce
          Titles,      \* the game names of the descriptions: "", "not paired", the machine's
          Provider,    \* the rest of the description
          Serial,      \* the serial number in WriteLE's bytes
          PayloadSize, \* kMaxPayloadSize
          MaxBatches, MaxReads, MaxPairings, MaxFaults, MaxAsks \* bounds

\* What AppendZ takes of a std::string: the bytes before its first zero.
Strings == Seq(Nat \ {0})

ASSUME ProbesAssumption ==
    /\ Machine # None
    /\ BatchSize \in Nat /\ {High, Low} \subseteq Nat
    /\ BatchSize > High /\ High > Low
    /\ {"start", "unpaired", Machine} \subseteq DOMAIN Titles
    /\ Titles \in [DOMAIN Titles -> Strings] /\ Provider \in Strings
    /\ Serial \in Seq(Nat) /\ PayloadSize \in Nat
    /\ {MaxBatches, MaxReads, MaxPairings, MaxFaults, MaxAsks} \subseteq Nat

VARIABLES nonces,     \* m_nonces
          creating,   \* createNfcNonces requests that are under way
          setters,    \* threads that have entered setNfcTag, by who called it
          writing,    \* threads that have made the URL and not yet written it
          tag,        \* the probe's tag
          handle,     \* m_nfc reaches the probe
          machine,    \* m_machineInfo.machineUuid
          title,      \* m_machineInfo.title, as its key in Titles
          status,     \* m_status, as far as requests wait for it
          server,     \* the pairing the server knows, and its messages on the way
          objects,    \* sendScorbitronObject requests that are under way
          known,      \* m_discoveryInfo of ProbesManager
          disc,       \* NetworkDiscovery: its description and its listener thread
          describing, \* threads in setDiscoveryDescription that have to start the listener
          alive,      \* nothing undefined has happened
          heard,      \* what a discoverer has decoded, and the description it was sent under
          budget,     \* what is left of the bounds
          ghost       \* nonces written, and whether one was a second time

tagVars == <<nonces, creating, setters, writing, tag>>
pairVars == <<machine, title, status, server, objects>>
discVars == <<known, disc, describing, alive, heard>>
probesVars == <<tagVars, handle, pairVars, discVars, budget, ghost>>

Keys == {"none", "start", "unpaired", Machine}
Machines == {Machine, None}
Callers == {"reply", "timer"}
NoReply == <<>>

ProbesTypeOK ==
    /\ nonces \in Seq(Nat)
    /\ creating \in Nat /\ setters \in [Callers -> Nat] /\ objects \in Nat
    /\ writing \subseteq [nonce: Nat \cup {None}, machine: Machines, by: Callers]
    /\ tag \in [nonce: Nat \cup {None}, machine: Machines, read: BOOLEAN]
    /\ handle \in {"ok", "stale"}
    /\ machine \in Machines /\ title \in Keys
    /\ status \in {"CheckingPairing", "Unpaired", "Paired"}
    /\ server \in [paired: Machines, messages: Seq({"paired", "unpaired"})]
    /\ known \in Keys /\ describing \subseteq Keys /\ alive \in BOOLEAN
    /\ disc \in [info: Keys, running: BOOLEAN, reply: Seq(Nat),
                thread: {"start", "bound", "delay", "ended"}]
    /\ heard \in [what: Seq(Nat), under: Keys]
    /\ budget \in [batches: 0..MaxBatches, reads: Nat, pairings: Nat, faults: Nat, asks: Nat]
    /\ ghost \in [written: SUBSET Nat, twice: BOOLEAN]

\* enumerate found the probe, setProbesManager has described the device and started the
\* timers, and initializeConnectionState its requests.
ProbesInit ==
    /\ nonces = <<>>
    /\ creating = 1 /\ setters = [c \in Callers |-> 0] /\ writing = {}
    /\ tag = [nonce |-> None, machine |-> None, read |-> FALSE]
    /\ handle = "ok"
    /\ machine = None /\ title = "start" /\ status = "CheckingPairing"
    /\ server \in [paired: {Machine, None}, messages: {<<>>}]
    /\ objects = 1
    /\ known = "start"
    /\ disc = [info |-> "start", running |-> TRUE, thread |-> "start", reply |-> NoReply]
    /\ describing = {}
    /\ alive = TRUE
    /\ heard = [what |-> NoReply, under |-> "none"]
    /\ budget = [batches |-> MaxBatches, reads |-> MaxReads, pairings |-> MaxPairings,
                 faults |-> MaxFaults, asks |-> MaxAsks]
    /\ ghost = [written |-> {}, twice |-> FALSE]

Spend(what) == budget[what] > 0 /\ budget' = [budget EXCEPT ![what] = @ - 1]

-----------------------------------------------------------------------------
(* Nonces and the tag. *)

\* The reply of createNfcNonces: the batch replaces what is left, then setNfcTag.
CreateSucceeds ==
    /\ creating > 0 /\ status # "CheckingPairing"
    /\ Spend("batches")
    /\ nonces' = [i \in 1..BatchSize |-> (MaxBatches - budget.batches) * BatchSize + i]
    /\ creating' = creating - 1
    /\ setters' = [setters EXCEPT !["reply"] = @ + 1]
    /\ UNCHANGED <<writing, tag, handle, pairVars, discVars, ghost>>

CreateFails ==
    /\ creating > 0 /\ status # "CheckingPairing"
    /\ creating' = creating - 1
    /\ UNCHANGED <<nonces, setters, writing, tag, handle, pairVars, discVars, budget, ghost>>

\* Mutant of the next definition: the nonce stays in the batch.
MutantNotPopped ==
    /\ nonces # <<>>
    /\ nonces' = nonces
    /\ creating' = creating + (IF Len(nonces) = High \/ Len(nonces) <= Low THEN 1 ELSE 0)

\* consumeNonce takes the last one, under m_noncesMutex, and asks for more when they run low.
ConsumeNonce ==
    /\ nonces # <<>>
    /\ nonces' = Front(nonces)
    /\ creating' = creating + (IF Len(nonces) = High \/ Len(nonces) <= Low THEN 1 ELSE 0)

NoNonce ==
    /\ nonces = <<>>
    /\ creating' = creating + 1
    /\ UNCHANGED nonces

\* setNfcTag makes the URL.  The nonces' reply may come before the machine is known.
MakeTag(by) ==
    /\ setters[by] > 0
    /\ setters' = [setters EXCEPT ![by] = @ - 1]
    /\ ConsumeNonce \/ NoNonce
    /\ writing' = writing \cup {[nonce |-> IF nonces = <<>> THEN None ELSE Last(nonces),
                                  machine |-> machine, by |-> by]}
    /\ UNCHANGED <<tag, handle, pairVars, discVars, budget, ghost>>

\* SetUri under m_nfcMutex, which fails when the probe is not there; the nonce is lost then.
WriteTag(w) ==
    /\ w \in writing
    /\ writing' = writing \ {w}
    /\ IF handle = "ok"
         THEN /\ tag' = [nonce |-> w.nonce, machine |-> w.machine, read |-> FALSE]
              /\ ghost' = [ghost EXCEPT !.written = @ \cup ({w.nonce} \ {None}),
                                        !.twice = @ \/ w.nonce \in ghost.written]
         ELSE UNCHANGED <<tag, ghost>>
    /\ UNCHANGED <<nonces, creating, setters, handle, pairVars, discVars, budget>>

\* A phone reads the tag: LastId becomes nonzero.
ReadTag ==
    /\ handle = "ok" /\ ~tag.read
    /\ Spend("reads")
    /\ tag' = [tag EXCEPT !.read = TRUE]
    /\ UNCHANGED <<nonces, creating, setters, writing, handle, pairVars, discVars, ghost>>

\* Mutant of the next definition: the timer does not survive a probe that does not answer.
MutantTimerLost ==
    /\ tag.read /\ handle = "ok" /\ setters["timer"] = 0 /\ \A w \in writing : w.by # "timer"
    /\ budget.faults = MaxFaults
    /\ setters' = [setters EXCEPT !["timer"] = @ + 1]
    /\ UNCHANGED <<nonces, creating, writing, tag, handle, pairVars, discVars, budget, ghost>>

\* The handler of the NfcCheckTag timer, which starts the timer anew before it looks.  One
\* that finds the tag unread, or no probe, does nothing.  The handler before it, two seconds
\* ago, has written the tag, but the setNfcTag of a reply may be under way.
CheckTag ==
    /\ tag.read /\ handle = "ok" /\ setters["timer"] = 0 /\ \A w \in writing : w.by # "timer"
    /\ setters' = [setters EXCEPT !["timer"] = @ + 1]
    /\ UNCHANGED <<nonces, creating, writing, tag, handle, pairVars, discVars, budget, ghost>>

\* The probe is unplugged and plugged in again: the open device is of no use.
ProbeFails ==
    /\ handle = "ok"
    /\ Spend("faults")
    /\ handle' = "stale"
    /\ UNCHANGED <<tagVars, pairVars, discVars, ghost>>

-----------------------------------------------------------------------------
(* Discovery.  A payload is a sequence of bytes; strings end with 0. *)

AppendZ(buf, s) ==
    LET room == PayloadSize - Len(buf)
        n    == IF Len(s) > room - 1 THEN room - 1 ELSE Len(s)
    IN  IF room <= 0 THEN buf ELSE buf \o SubSeq(s, 1, n) \o <<0>>

\* WriteLE, or the rest of the buffer, which is zero.
AppendSerial(buf) ==
    IF Len(buf) + Len(Serial) <= PayloadSize
      THEN buf \o Serial
      ELSE buf \o [i \in 1..(PayloadSize - Len(buf)) |-> 0]

Encode(key) == AppendZ(AppendSerial(AppendZ(AppendZ(<<>>, Titles[key]), Provider)), Provider)

\* ReadNextZ at the position after p bytes: the string and the position after it.
ReadNextZ(buf, p) ==
    LET zeros == {i \in (p + 1)..Len(buf) : buf[i] = 0}
        z     == CHOOSE i \in zeros : \A j \in zeros : i <= j
    IN  IF p >= Len(buf) \/ zeros = {} THEN <<<<>>, p>> ELSE <<SubSeq(buf, p + 1, z - 1), z>>

\* What Discover makes of a response.
Decode(buf) ==
    LET game     == ReadNextZ(buf, 0)
        provider == ReadNextZ(buf, game[2])
        after    == provider[2] + Len(Serial)
    IN  [game |-> game[1], provider |-> provider[1],
         serial |-> IF after <= Len(buf) THEN SubSeq(buf, provider[2] + 1, after) ELSE <<>>,
         extra |-> ReadNextZ(buf, after)[1]]

\* The listener thread.  It ends when it cannot bind, when reading fails, or when it is told.
Listen ==
    /\ disc.thread = "start"
    /\ disc' = [disc EXCEPT !.thread = "bound"]
    /\ UNCHANGED <<tagVars, handle, pairVars, known, describing, alive, heard, budget, ghost>>

ListenFails ==
    /\ disc.thread \in {"start", "bound"}
    /\ Spend("faults")
    /\ disc' = [disc EXCEPT !.thread = "ended", !.running = FALSE]
    /\ UNCHANGED <<tagVars, handle, pairVars, known, describing, alive, heard, ghost>>

\* A valid request: the response is made, and then waits a random time.
ListenerGets ==
    /\ disc.thread = "bound" /\ disc.running
    /\ Spend("asks")
    /\ disc' = [disc EXCEPT !.thread = "delay", !.reply = Encode(disc.info)]
    /\ UNCHANGED <<tagVars, handle, pairVars, known, describing, alive, heard, ghost>>

ListenerSends ==
    /\ disc.thread = "delay" /\ disc.running
    /\ disc' = [disc EXCEPT !.thread = "bound", !.reply = NoReply]
    /\ heard' = [what |-> disc.reply, under |-> disc.info]
    /\ UNCHANGED <<tagVars, handle, pairVars, known, describing, alive, budget, ghost>>

ListenerEnds ==
    /\ disc.thread \in {"bound", "delay"} /\ ~disc.running
    /\ disc' = [disc EXCEPT !.thread = "ended", !.reply = NoReply]
    /\ UNCHANGED <<tagVars, handle, pairVars, known, describing, alive, heard, budget, ghost>>

\* setDiscoveryDescription up to UnInitialize's join, in the handler that calls it.  No lock
\* keeps a second thread out; two that overlap join one std::thread or assign to one that
\* runs, which is undefined or ends the process: the model stops there.
SetDiscoveryDescription(key) ==
    IF key = known
      THEN UNCHANGED <<known, disc, describing, alive>>
      ELSE /\ known' = key
           /\ alive' = (describing = {})
           /\ describing' = describing \cup {key}
           /\ disc' = [disc EXCEPT !.running = FALSE]

\* Mutant of the next definition: the description is changed before the thread has ended.
MutantInfoFirst(key) ==
    /\ key \in describing
    /\ \/ /\ disc.thread # "ended" /\ disc.info # key
          /\ disc' = [disc EXCEPT !.info = key, !.running = TRUE]
          /\ UNCHANGED describing
       \/ /\ disc.thread = "ended"
          /\ disc' = [info |-> key, running |-> TRUE, thread |-> "start", reply |-> NoReply]
          /\ describing' = describing \ {key}
    /\ UNCHANGED <<tagVars, handle, pairVars, known, alive, heard, budget, ghost>>

\* Initialize after the join.
Describe(key) ==
    /\ key \in describing /\ disc.thread = "ended"
    /\ describing' = describing \ {key}
    /\ disc' = [info |-> key, running |-> TRUE, thread |-> "start", reply |-> NoReply]
    /\ UNCHANGED <<tagVars, handle, pairVars, known, alive, heard, budget, ghost>>

\* checkNfcBootReason finds a probe that does not answer: enumerate opens it again, if it is
\* found, and makes a new NetworkDiscovery, which has no listener, in either case;
\* m_discoveryInfo stays.  The old one must not be in use.
Enumerate(found) ==
    /\ handle = "stale"
    /\ handle' = IF found THEN "ok" ELSE "stale"
    /\ alive' = (describing = {})
    /\ disc' = [info |-> "none", running |-> FALSE, thread |-> "ended", reply |-> NoReply]
    /\ UNCHANGED <<tagVars, pairVars, known, describing, heard, budget, ghost>>

-----------------------------------------------------------------------------
(* The pairing. *)

ServerPairs ==
    /\ Spend("pairings")
    /\ server' = IF server.paired = None
                   THEN [paired |-> Machine, messages |-> Append(server.messages, "paired")]
                   ELSE [paired |-> None, messages |-> Append(server.messages, "unpaired")]
    /\ UNCHANGED <<tagVars, handle, machine, title, status, objects, discVars, ghost>>

\* parseScorbitronObject of the reply.  The machine object, whose title it asks for, comes later.
ObjectArrives ==
    /\ objects > 0
    /\ objects' = objects - 1
    /\ machine' = server.paired
    /\ status' = IF server.paired = None THEN "Unpaired" ELSE "Paired"
    /\ IF server.paired = None
         THEN title' = "unpaired" /\ SetDiscoveryDescription("unpaired")
         ELSE UNCHANGED <<title, known, disc, describing, alive>>
    /\ UNCHANGED <<tagVars, handle, server, heard, budget, ghost>>

\* requestMachineObject's reply.
TitleArrives ==
    /\ status = "Paired" /\ machine # None /\ title # machine
    /\ title' = machine
    /\ SetDiscoveryDescription(machine)
    /\ UNCHANGED <<tagVars, handle, machine, status, server, objects, heard, budget, ghost>>

OnPaired ==
    /\ server.messages # <<>> /\ Head(server.messages) = "paired"
    /\ server' = [server EXCEPT !.messages = Tail(@)]
    /\ status' = "Paired"
    /\ objects' = objects + 1
    /\ creating' = creating + 1
    /\ UNCHANGED <<nonces, setters, writing, tag, handle, machine, title, discVars, budget, ghost>>

OnUnpaired ==
    /\ server.messages # <<>> /\ Head(server.messages) = "unpaired"
    /\ server' = [server EXCEPT !.messages = Tail(@)]
    /\ status' = "Unpaired"
    /\ machine' = None
    /\ title' = "unpaired"
    /\ SetDiscoveryDescription("unpaired")
    /\ UNCHANGED <<tagVars, handle, objects, heard, budget, ghost>>

-----------------------------------------------------------------------------
Nonces ==
    \/ CreateSucceeds \/ CreateFails
    \/ \E by \in Callers : MakeTag(by)
    \/ \E w \in writing : WriteTag(w)

Listener == Listen \/ ListenerSends \/ ListenerEnds

Pairing == ObjectArrives \/ TitleArrives \/ OnPaired \/ OnUnpaired

ProbesNext ==
    /\ alive
    /\ \/ Nonces \/ CheckTag \/ ReadTag \/ ProbeFails
       \/ Listener \/ ListenFails \/ ListenerGets
       \/ \E key \in describing : Describe(key)
       \/ \E found \in BOOLEAN : Enumerate(found)
       \/ ServerPairs \/ Pairing

ProbesSpec == ProbesInit /\ [][ProbesNext]_probesVars

\* The pool runs the handlers of requests and timers, HTTP requests have time limits, the
\* listener looks at m_Running at least every 200 ms, and an unplugged probe is plugged in.
ProbesFairSpec ==
    /\ ProbesSpec
    /\ WF_probesVars(alive /\ Nonces) /\ WF_probesVars(alive /\ CheckTag)
    /\ WF_probesVars(alive /\ Enumerate(TRUE)) /\ WF_probesVars(alive /\ Listener)
    /\ WF_probesVars(alive /\ \E key \in describing : Describe(key))
    /\ WF_probesVars(alive /\ Pairing)

-----------------------------------------------------------------------------
\* No nonce is offered on the tag twice: whatever batches replace each other, however replies
\* and the timer's handlers overlap, and when writing fails (consumeNonce, setNfcTag).
NonceOffersOnce == ~ghost.twice

\* A tag that has been read is replaced in the end, also when the probe had to be opened
\* again, nonces ran out, or their creation failed (startNfcCheckTimer, checkNfcBootReason).
ReadTagReplaced == tag.read ~> ~tag.read \/ ~alive

\* Each field of d is the one of the description, cut where the payload ends.
ReadsAs(d, key) ==
    LET full == Len(Titles[key]) + 2 * Len(Provider) + Len(Serial) + 3
    IN  /\ IsPrefix(d.game, Titles[key])
        /\ IsPrefix(d.provider, Provider) /\ IsPrefix(d.extra, Provider)
        /\ d.serial \in {<<>>, Serial}
        /\ full <= PayloadSize => d = [game |-> Titles[key], provider |-> Provider,
                                      serial |-> Serial, extra |-> Provider]

\* What a discoverer decodes is the description that is current when it is sent, cut where
\* the payload ends: a name never runs into the next field, nor is one taken for another
\* (ListenerThreadProc's AppendZ and WriteLE, Discover's ReadNextZ, Initialize's order).
HeardIsCurrent == heard.under # "none" => ReadsAs(Decode(heard.what), heard.under)

=============================================================================
