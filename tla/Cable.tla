------------------------------- MODULE Cable -------------------------------
(***************************************************************************)
(* The serial link to the probes (libs/nfc: Cable.h, Probe.h, the lock of   *)
(* Util.h, probes_manager.cpp) and the TPM that is found on the same ports  *)
(* (CdcTpm.h, tpm.cpp, hardwaretpm.cpp, nfc_tpm_key_resolver.cpp).          *)
(*                                                                         *)
(* Three actors share the ports: the SDK's probe calls, a maintenance tool  *)
(* in another process (Probe.h: Reboot, UploadFirmware) and the thread that *)
(* resolves the key.  The first two serialise their commands with the       *)
(* InterprocessLock of the port; closing a cable and the search for the TPM *)
(* do not take it.  A reply is a frame of units: header, data, checksum.  A *)
(* unit carries the command it answers only as a ghost (`by'): the protocol *)
(* has no number that ties a reply to its command, and a reply that comes   *)
(* after its command has given up stays in the line.  POSIX builds.         *)
(***************************************************************************)
EXTENDS Integers, Sequences, FiniteSets, SequencesExt

CONSTANTS Sdk, Tool, Key, \* the actors
          Ports,          \* numbers of the ttyACM devices
          Orders,         \* the orders in which a directory may list them
          Nfc, Tpms,      \* NFC probes; TPMs behind a serial port
          Plugged,        \* the port of each device in the beginning, or 0
          Attached,       \* ports both users may have found in an earlier search, or 0
          Locked,         \* TPMs whose data zone is locked
          Valid,          \* devices with a serial number that Scorbit has assigned
          Unnumbered,     \* probes whose UID reads 0; no two of the others share a UID
          None,
          MaxOps,         \* bound: calls by the three actors
          MaxFaults,      \* bound: late, damaged and lost frames
          MaxTries        \* rounds of a reconnection or of a firmware copy

Devices == Nfc \cup Tpms
Users == {Sdk, Tool}

Closed == 0    \* hSerial < 0; for the SDK, no m_nfc
Dead == -1     \* a cable whose device has gone

ASSUME CableAssumption ==
    /\ Sdk # Tool /\ Key \notin Users /\ None \notin Users \cup Devices
    /\ Ports \subseteq Nat \ {0}
    /\ Orders \subseteq [Ports -> Nat] /\ Orders # {}
    /\ Plugged \in [Devices -> Ports \cup {0}]
    /\ \A c, d \in Devices : Plugged[c] = Plugged[d] /\ Plugged[c] # 0 => c = d
    /\ Attached \subseteq {Closed} \cup {Plugged[d] : d \in Nfc}
    /\ Unnumbered \subseteq Nfc
    /\ {MaxOps, MaxFaults} \subseteq Nat /\ MaxTries \in Nat \ {0}

VARIABLES at,      \* the port of each device, 0 for one that is not connected
          state,   \* what each device is doing
          inbox,   \* the commands each device has received and not yet answered
          line,    \* the units in the input queue of each port
          lock,    \* InterprocessLock of each port
          fd,      \* the cables of the users: m_nfc's or the tool's, and a temporary one
          job,     \* what each actor is doing
          tag,     \* probes in TAG mode
          known,   \* the TPM resolved: its path and identity, None for no m_tpm
          budget   \* what is left of MaxOps and MaxFaults

vars == <<at, state, inbox, line, lock, fd, job, tag, known, budget>>
deviceVars == <<at, state, inbox, tag>>

Reads == {"infos", "nfc"}
Commands == Reads \cup {"write", "type", "reboot", "bootloader"}

Values == Devices \cup {"tag", "reader", None}
Operations == {"idle", "enumerate", "isNfcTagRead", "setNfcTag", "bootReason", "find", "reboot",
               "bootloader", "upload", "resolve", "sign"}
Steps == {"idle", "end", "boot", "scan", "scanned", "attach", "tagmode", "seek", "sought",
          "found", "identified", "restarted", "copy", "discover", "listen", "identity", "check",
          "sign"}
Phases == {"run", "lock", "flush", "write", "head", "data", "crc"}

\* A unit of a reply, what a device has to answer, and what an actor is doing.
Unit == [by: Users \cup {None}, part: {"head", "data", "crc"}, val: Values, size: 0..2]
Request == [by: Users \cup {None}, cmd: Commands]
Job == [op: Operations, step: Steps, phase: Phases, slot: {"own", "tmp"}, cmd: Commands,
        port: Ports \cup {0}, quiet: BOOLEAN, got: Seq(Unit), ok: BOOLEAN, todo: SUBSET Ports,
        tries: Int, want: Values]

TypeOK ==
    /\ at \in [Devices -> Ports \cup {0}]
    /\ state \in [Devices -> {"up", "down", "reboot", "bootloader"}]
    /\ inbox \in [Devices -> Seq(Request)]
    /\ line \in [Ports -> Seq(Unit)]
    /\ lock \in [Ports -> Users \cup {None}]
    /\ fd \in [Users -> [{"own", "tmp"} -> Ports \cup {Closed, Dead}]]
    /\ job \in [Users \cup {Key} -> Job]
    /\ tag \subseteq Nfc
    /\ known \in [path: Ports \cup {0}, id: Tpms] \cup {None}
    /\ budget \in [ops: Nat, faults: Nat]

\* quiet is a ghost: nothing was owed or left over when the command took the lock.
Idle == [op |-> "idle", step |-> "idle", phase |-> "run", slot |-> "own", cmd |-> "infos",
         port |-> 0, quiet |-> TRUE, got |-> <<>>, ok |-> FALSE, todo |-> {}, tries |-> 0,
         want |-> None]

Init ==
    /\ at = Plugged
    /\ state = [d \in Devices |-> IF Plugged[d] = 0 THEN "down" ELSE "up"]
    /\ inbox = [d \in Devices |-> <<>>]
    /\ line = [q \in Ports |-> <<>>]
    /\ lock = [q \in Ports |-> None]
    /\ \E q \in Attached : fd = [p \in Users |-> [s \in {"own", "tmp"} |->
                                                  IF s = "own" THEN q ELSE Closed]]
    /\ job = [p \in Users \cup {Key} |-> Idle]
    /\ tag = {}
    /\ known = None
    /\ budget = [ops |-> MaxOps, faults |-> MaxFaults]

\* listUsbDevices: the character devices there are at the moment ...
ListUsbDevices == {q \in Ports : \E d \in Devices : at[d] = q}

\* ... in an order of the directory, which the loops follow.
IsFirst(q, qs) == q \in qs /\ \E order \in Orders : \A r \in qs : order[q] <= order[r]

DeviceAt(q) == CHOOSE d \in Devices : at[d] = q

Fault == /\ budget.faults > 0
         /\ budget' = [budget EXCEPT !.faults = @ - 1]

-----------------------------------------------------------------------------
(* One command: Command, CommandWrite, CommandRead and WaitForReply *)

\* The open cable of p's command; a cable that is not open fails at the first write.
Cable(p) == fd[p][job[p].slot]

In(p, phase) == job[p].phase = phase

Go(p, j) == job' = [job EXCEPT ![p] = j]

\* job[p] with a command to send on a cable, and the step that looks at its result.
Call(j, slot, cmd, step) ==
    [j EXCEPT !.phase = "lock", !.slot = slot, !.cmd = cmd, !.step = step]

\* The units or requests of s once p has given up.
Orphan(s, p) == [i \in DOMAIN s |-> IF s[i].by = p THEN [s[i] EXCEPT !.by = None] ELSE s[i]]

\* The command is over: the lock is released, and what still comes for it is left over.
Return(p, j, ok, l) ==
    /\ Go(p, [j EXCEPT !.phase = "run", !.ok = ok])
    /\ lock' = IF j.port = 0 THEN lock ELSE [lock EXCEPT ![j.port] = None]
    /\ line' = [q \in Ports |-> Orphan(l[q], p)]
    /\ inbox' = [d \in Devices |-> Orphan(inbox[d], p)]

NotOpen(p) ==
    /\ In(p, "lock") /\ Cable(p) \in {Closed, Dead}
    /\ Return(p, [job[p] EXCEPT !.port = 0, !.got = <<>>], FALSE, line)
    /\ UNCHANGED <<at, state, fd, tag, known, budget>>

\* Mutant of the next definition: another process's lock is ignored.
MutantNoLock(p) ==
    LET q == Cable(p) IN
    /\ In(p, "lock") /\ q \in Ports
    /\ lock' = [lock EXCEPT ![q] = p]
    /\ Go(p, [job[p] EXCEPT !.port = q, !.got = <<>>,
                            !.phase = IF job[p].cmd \in Reads THEN "flush" ELSE "write",
                            !.quiet = /\ inbox[DeviceAt(q)] = <<>>
                                      /\ job[p].cmd \in Reads \/ line[q] = <<>>])
    /\ UNCHANGED <<at, state, inbox, line, fd, tag, known, budget>>

\* InterprocessLock: flock() waits for the lock file of the port.
Lock(p) ==
    LET q == Cable(p) IN
    /\ In(p, "lock") /\ q \in Ports
    /\ lock[q] = None
    /\ lock' = [lock EXCEPT ![q] = p]
    /\ Go(p, [job[p] EXCEPT !.port = q, !.got = <<>>,
                            !.phase = IF job[p].cmd \in Reads THEN "flush" ELSE "write",
                            !.quiet = /\ inbox[DeviceAt(q)] = <<>>
                                      /\ job[p].cmd \in Reads \/ line[q] = <<>>])
    /\ UNCHANGED <<at, state, inbox, line, fd, tag, known, budget>>

\* Mutant of the next definition: the characters that are left over stay.
MutantNoFlush(p) ==
    /\ In(p, "flush")
    /\ Go(p, [job[p] EXCEPT !.phase = "write"])
    /\ UNCHANGED <<deviceVars, line, lock, fd, known, budget>>

\* CommandRead alone discards what is in the line, then sleeps for a millisecond.
Flush(p) ==
    /\ In(p, "flush")
    /\ line' = IF Cable(p) = Dead THEN line ELSE [line EXCEPT ![job[p].port] = <<>>]
    /\ Go(p, [job[p] EXCEPT !.phase = "write"])
    /\ UNCHANGED <<deviceVars, lock, fd, known, budget>>

\* _DataWrite sends the frame to the device behind the port, if it is still there.
Write(p) ==
    /\ In(p, "write")
    /\ IF Cable(p) = Dead
       THEN Return(p, job[p], FALSE, line)
       ELSE /\ inbox' = [inbox EXCEPT ![DeviceAt(job[p].port)] =
                            Append(@, [by |-> p, cmd |-> job[p].cmd])]
            /\ Go(p, [job[p] EXCEPT !.phase = "head"])
            /\ UNCHANGED <<line, lock>>
    /\ UNCHANGED <<at, state, fd, tag, known, budget>>

Unread(p) == Cable(p) # Dead /\ line[job[p].port] # <<>>

\* The line without the unit _DataRead has taken from it.
Taken(p) == [line EXCEPT ![job[p].port] = Tail(@)]

\* WaitForReply gives up at once if it does not read a header, and leaves the rest.
ReadHeader(p) ==
    /\ In(p, "head") /\ Unread(p)
    /\ IF Head(line[job[p].port]).part = "head"
       THEN /\ Go(p, [job[p] EXCEPT !.phase = IF job[p].cmd \in Reads THEN "data" ELSE "crc"])
            /\ line' = Taken(p)
            /\ UNCHANGED <<inbox, lock>>
       ELSE Return(p, job[p], FALSE, Taken(p))
    /\ UNCHANGED <<at, state, fd, tag, known, budget>>

\* Count: the answers to the two reads have different lengths.
Count(cmd) == CASE cmd = "infos" -> 1 [] cmd = "nfc" -> 2 [] OTHER -> 0

ReadData(p) ==
    LET got == Append(job[p].got, Head(line[job[p].port])) IN
    /\ In(p, "data") /\ Unread(p)
    /\ Go(p, [job[p] EXCEPT !.got = got,
                            !.phase = IF Len(got) = Count(job[p].cmd) THEN "crc" ELSE "data"])
    /\ line' = Taken(p)
    /\ UNCHANGED <<deviceVars, lock, fd, known, budget>>

\* The checksum covers the header, which is always the same, and the data.
CrcOk(got, crc) ==
    /\ crc.part = "crc"
    /\ crc.size = Len(got)
    /\ \A i \in DOMAIN got : got[i] = [crc EXCEPT !.part = "data"]

\* Data that timed out are empty, and callers take an empty result for a failure.
ReadCrc(p) ==
    LET crc == Head(line[job[p].port]) IN
    /\ In(p, "crc") /\ Unread(p)
    /\ Return(p, [job[p] EXCEPT !.got = Append(@, crc)],
              /\ CrcOk(job[p].got, crc)
              /\ Len(job[p].got) = Count(job[p].cmd),
              Taken(p))
    /\ UNCHANGED <<at, state, fd, tag, known, budget>>

\* Mutant of the next definition: _DataRead waits for as long as it takes.
MutantNoTimeout(p) == FALSE /\ UNCHANGED vars

\* _DataRead without a character for two seconds.  Unless the device is slow (a fault),
\* that is because no answer is on its way.  Missing data still let WaitForReply read the
\* checksum; anything else ends the command.
Timeout(p) ==
    /\ job[p].phase \in {"head", "data", "crc"} /\ ~Unread(p)
    /\ IF \E d \in Devices : \E i \in DOMAIN inbox[d] : inbox[d][i].by = p
       THEN Fault
       ELSE UNCHANGED budget
    /\ IF In(p, "data")
       THEN /\ Go(p, [job[p] EXCEPT !.phase = "crc", !.got = <<>>])
            /\ UNCHANGED <<inbox, line, lock>>
       ELSE Return(p, job[p], FALSE, line)
    /\ UNCHANGED <<at, state, fd, tag, known>>

CommandStep(p) ==
    \/ NotOpen(p) \/ Lock(p) \/ Flush(p) \/ Write(p)
    \/ ReadHeader(p) \/ ReadData(p) \/ ReadCrc(p) \/ Timeout(p)

-----------------------------------------------------------------------------
(* Opening and closing a cable *)

\* SerialCable::Close discards what is queued at the port, without the lock.
AfterClose(q) == IF q \in Ports THEN [line EXCEPT ![q] = <<>>] ELSE line

\* SerialCable::Initialize on one slot of p, after closing it: under the lock of the port
\* the device is opened, the queue discarded and five zeros written, which the receiver of
\* the probe skips.  open() fails when the device has gone,
\* which leaves the tool's cable closed and the SDK with a probe it cannot talk to.
Opened(p, slot, q) ==
    /\ lock[q] = None
    /\ fd' = [fd EXCEPT ![p][slot] = IF q \in ListUsbDevices THEN q
                                     ELSE IF p = Sdk THEN Dead ELSE Closed]
    /\ line' = [AfterClose(fd[p][slot]) EXCEPT ![q] = <<>>]

At(p, step) == job[p].phase = "run" /\ job[p].step = step

\* The device whose answer to `infos' was accepted.
Answered(p) == job[p].got[1].val

\* isValidScorbitSerial and HardwareTpm::isValid: the same test of the number's size and
\* digits.
IsValidSerial(d) == d \in Valid

-----------------------------------------------------------------------------
(* ProbesManager: enumerate, isNfcTagRead, setNfcTag, setNfcLeds, probesBootReason *)

Started(op, step) == [Idle EXCEPT !.op = op, !.step = step, !.todo = ListUsbDevices]

SdkCall ==
    /\ At(Sdk, "idle") /\ budget.ops > 0
    /\ \/ Go(Sdk, Started("enumerate", "scan"))
       \/ Go(Sdk, Call(Started("isNfcTagRead", "idle"), "own", "nfc", "end"))
       \/ Go(Sdk, Call(Started("setNfcTag", "idle"), "own", "write", "end"))
       \/ Go(Sdk, Call(Started("bootReason", "idle"), "own", "infos", "boot"))
    /\ budget' = [budget EXCEPT !.ops = @ - 1]
    /\ UNCHANGED <<deviceVars, line, lock, fd, known>>

\* probesBootReason enumerates again when the probe does not answer.
BootReason ==
    /\ At(Sdk, "boot")
    /\ Go(Sdk, [job[Sdk] EXCEPT !.step = IF job[Sdk].ok \/ fd[Sdk].own = Closed THEN "end" ELSE "scan",
                                !.todo = ListUsbDevices])
    /\ UNCHANGED <<deviceVars, line, lock, fd, known, budget>>

\* A temporary probe on each port is asked what it is.
Scan ==
    /\ At(Sdk, "scan")
    /\ \/ /\ job[Sdk].todo = {}
          /\ Go(Sdk, Call(job[Sdk], "own", "nfc", "tagmode"))
          /\ UNCHANGED <<line, fd>>
       \/ /\ job[Sdk].todo # {}
          /\ \E q \in Ports :
                LET j == [job[Sdk] EXCEPT !.todo = @ \ {q}]
                IN  /\ IsFirst(q, job[Sdk].todo)
                    /\ Opened(Sdk, "tmp", q)
                    /\ Go(Sdk, IF q \in ListUsbDevices THEN Call(j, "tmp", "infos", "scanned")
                                                       ELSE j)
    /\ UNCHANGED <<deviceVars, lock, known, budget>>

\* It is closed again; an NFC probe is attached.
Scanned ==
    /\ At(Sdk, "scanned")
    /\ line' = AfterClose(fd[Sdk].tmp)
    /\ fd' = [fd EXCEPT ![Sdk].tmp = Closed]
    /\ Go(Sdk, [job[Sdk] EXCEPT !.step = IF job[Sdk].ok /\ Answered(Sdk) \in Nfc
                                         THEN "attach" ELSE "scan"])
    /\ UNCHANGED <<deviceVars, lock, known, budget>>

\* m_nfc is replaced, the old one closes its cable, and whether the new one could be opened
\* is not looked at; one with a valid serial has its factory bit cleared.
Attach ==
    /\ At(Sdk, "attach")
    /\ Opened(Sdk, "own", job[Sdk].port)
    /\ Go(Sdk, IF IsValidSerial(Answered(Sdk))
               THEN Call(job[Sdk], "own", "write", "scan")
               ELSE [job[Sdk] EXCEPT !.step = "scan"])
    /\ UNCHANGED <<deviceVars, lock, known, budget>>

\* Put a probe that says it is no tag into TAG mode.
TagMode ==
    /\ At(Sdk, "tagmode")
    /\ Go(Sdk, IF job[Sdk].ok /\ Answered(Sdk) = "reader"
               THEN Call(job[Sdk], "own", "type", "end")
               ELSE [job[Sdk] EXCEPT !.step = "end"])
    /\ UNCHANGED <<deviceVars, line, lock, fd, known, budget>>

-----------------------------------------------------------------------------
(* ProbeBase: FindProbe, Reboot, UploadFirmware in the tool's process *)

\* UploadFirmware without a file only enters the bootloader, and without an open cable
\* goes straight to the copy.
ToolCall ==
    /\ At(Tool, "idle") /\ budget.ops > 0
    /\ \/ Go(Tool, [Started("find", "seek") EXCEPT !.tries = 1])
       \/ Go(Tool, Call(Started("reboot", "idle"), "own", "infos", "identified"))
       \/ Go(Tool, Call(Started("bootloader", "idle"), "own", "bootloader", "end"))
       \/ Go(Tool, IF fd[Tool].own = Closed
                   THEN [Started("upload", "copy") EXCEPT !.tries = MaxTries]
                   ELSE Call(Started("upload", "idle"), "own", "infos", "identified"))
    /\ budget' = [budget EXCEPT !.ops = @ - 1]
    /\ UNCHANGED <<deviceVars, line, lock, fd, known>>

\* The probe is remembered if it could be read, and sent the command to restart.  A
\* firmware that is not newer, or missing permissions, end an upload here.
Identified ==
    /\ At(Tool, "identified")
    /\ LET j == [job[Tool] EXCEPT !.want = IF job[Tool].ok THEN Answered(Tool) ELSE None,
                                  !.tries = MaxTries]
       IN  \/ j.op = "reboot" /\ Go(Tool, Call(j, "own", "reboot", "restarted"))
           \/ j.op = "upload" /\ Go(Tool, Call(j, "own", "bootloader", "copy"))
           \/ j.op = "upload" /\ Go(Tool, [j EXCEPT !.step = "end"])
    /\ UNCHANGED <<deviceVars, line, lock, fd, known, budget>>

\* Rebooting goes on whether or not the command was acknowledged.
Restarted ==
    /\ At(Tool, "restarted")
    /\ Go(Tool, [job[Tool] EXCEPT !.step = IF job[Tool].want = None THEN "end" ELSE "seek",
                                  !.todo = ListUsbDevices])
    /\ UNCHANGED <<deviceVars, line, lock, fd, known, budget>>

\* The firmware goes to the first bootloader disk that can be mounted, and the device
\* restarts; after the last round the upload has failed.  A probe that was read before is
\* looked for in either case.
Copy ==
    LET j == job[Tool]
        done == [j EXCEPT !.step = IF j.want = None THEN "end" ELSE "seek",
                          !.tries = MaxTries, !.todo = ListUsbDevices]
    IN  /\ At(Tool, "copy")
        /\ \/ \E d \in Devices : /\ state[d] = "bootloader"
                                 /\ state' = [state EXCEPT ![d] = "down"]
                                 /\ Go(Tool, done)
           \/ /\ \A d \in Devices : state[d] # "bootloader"
              /\ Go(Tool, IF j.tries = 1 THEN done ELSE [j EXCEPT !.tries = @ - 1])
              /\ UNCHANGED state
        /\ UNCHANGED <<at, inbox, tag, line, lock, fd, known, budget>>

\* FindProbe on the ports of one round; a round that found nothing is repeated.
Seek ==
    LET j == job[Tool] IN
    /\ At(Tool, "seek")
    /\ \/ /\ j.todo = {}
          /\ Go(Tool, IF j.tries = 1 THEN [j EXCEPT !.step = "end"]
                      ELSE [j EXCEPT !.tries = @ - 1, !.todo = ListUsbDevices])
          /\ UNCHANGED <<line, fd>>
       \/ /\ j.todo # {}
          /\ \E q \in Ports :
                LET k == [j EXCEPT !.todo = @ \ {q}]
                IN  /\ IsFirst(q, j.todo)
                    /\ Opened(Tool, "own", q)
                    /\ Go(Tool, IF q \in ListUsbDevices THEN Call(k, "own", "infos", "sought")
                                                        ELSE k)
    /\ UNCHANGED <<deviceVars, lock, known, budget>>

\* Mutant of the next definition: any NFC probe will do.
MutantAnyProbe(d, want) == d \in Nfc

\* The type and the UID of the probe that was restarted; a UID of 0 matches any UID.
SameProbe(d, want) == d \in Nfc /\ want \in {None, d} \cup Unnumbered

Sought ==
    /\ At(Tool, "sought")
    /\ Go(Tool, [job[Tool] EXCEPT !.step = IF job[Tool].ok /\ SameProbe(Answered(Tool), job[Tool].want)
                                           THEN "found" ELSE "seek"])
    /\ UNCHANGED <<deviceVars, line, lock, fd, known, budget>>

-----------------------------------------------------------------------------
(* The TPM: CdcTpm, Tpm, HardwareTpm, NfcTpmKeyResolver *)

KeyCall ==
    /\ At(Key, "idle") /\ budget.ops > 0
    /\ \/ Go(Key, Started("resolve", "discover"))
       \/ known # None /\ Go(Key, Started("sign", "sign"))
    /\ budget' = [budget EXCEPT !.ops = @ - 1]
    /\ UNCHANGED <<deviceVars, line, lock, fd, known>>

\* IdentifyTpmDevice opens each port, the probes' too, discards what is queued there and
\* writes its question; no lock is taken.
Discover ==
    LET j == job[Key] IN
    /\ At(Key, "discover")
    /\ \/ /\ j.todo = {}
          /\ known' = None
          /\ Go(Key, [j EXCEPT !.step = "end"])
          /\ UNCHANGED line
       \/ /\ j.todo # {}
          /\ \E q \in Ports :
                LET there == q \in ListUsbDevices
                IN  /\ IsFirst(q, j.todo)
                    /\ Go(Key, [j EXCEPT !.todo = @ \ {q}, !.port = q,
                                         !.step = IF there THEN "listen" ELSE "discover"])
                    /\ line' = IF there THEN [line EXCEPT ![q] = <<>>] ELSE line
          /\ UNCHANGED known
    /\ UNCHANGED <<deviceVars, lock, fd, budget>>

\* A TPM answers "ECC508"; whatever else comes in is read as well, and lost to others.
Listen ==
    LET q == job[Key].port IN
    /\ At(Key, "listen")
    /\ line' = [line EXCEPT ![q] = <<>>]
    /\ Go(Key, [job[Key] EXCEPT !.step = IF \E d \in Tpms : at[d] = q
                                         THEN "identity" ELSE "discover"])
    /\ UNCHANGED <<deviceVars, lock, fd, known, budget>>

\* The TPM opened at a path, if there is one (tryUsbBus: init and info).
TryUsbBus(q) == {d \in Tpms : at[d] = q}

\* A chip whose data zone is not locked has no serial and no uuid.
ReadIdentity(q) == TryUsbBus(q) \cap Locked

\* Every access is repeated a few times; that it fails to the end is a fault.
AtcaRetryGivesUp == Fault

\* HardwareTpm's constructor reads serial and uuid, and keeps the path with them.
Identity ==
    LET found == ReadIdentity(job[Key].port) IN
    /\ At(Key, "identity")
    /\ \/ /\ known' = IF found = {} THEN None
                      ELSE [path |-> job[Key].port, id |-> CHOOSE d \in found : TRUE]
          /\ UNCHANGED budget
       \/ known' = None /\ AtcaRetryGivesUp
    /\ Go(Key, [job[Key] EXCEPT !.step = "check"])
    /\ UNCHANGED <<deviceVars, line, lock, fd>>

\* tryResolve: hasTpm opens the device once more, and the serial must be valid; otherwise
\* there is no m_tpm.
HasTpm ==
    /\ At(Key, "check")
    /\ \/ /\ known' = IF known # None /\ TryUsbBus(known.path) # {} /\ IsValidSerial(known.id)
                      THEN known ELSE None
          /\ UNCHANGED budget
       \/ known' = None /\ AtcaRetryGivesUp
    /\ Go(Key, [job[Key] EXCEPT !.step = "end"])
    /\ UNCHANGED <<deviceVars, line, lock, fd>>

\* signDigest opens the cached path; the signature is that of the TPM found there.
Sign ==
    /\ At(Key, "sign")
    /\ \/ /\ Go(Key, [job[Key] EXCEPT !.step = "end", !.ok = TryUsbBus(known.path) # {}])
          /\ UNCHANGED budget
       \/ Go(Key, [job[Key] EXCEPT !.step = "end"]) /\ AtcaRetryGivesUp
    /\ UNCHANGED <<deviceVars, line, lock, fd, known>>

-----------------------------------------------------------------------------

\* An operation returns; the tool's probe was found or not.
Finish(p) ==
    /\ At(p, "end") \/ At(p, "found")
    /\ Go(p, Idle)
    /\ UNCHANGED <<deviceVars, line, lock, fd, known, budget>>

-----------------------------------------------------------------------------
(* The devices *)

\* The units of the answer to c, a command from by.
Reply(d, c, by) ==
    LET val == CASE c = "infos" -> d [] c = "nfc" -> IF d \in tag THEN "tag" ELSE "reader"
                 [] OTHER -> None
        U(part) == [by |-> by, part |-> part, val |-> val, size |-> Count(c)]
    IN  <<U("head")>> \o [i \in 1..Count(c) |-> U("data")] \o <<U("crc")>>

\* A probe carries out a command; its answer arrives whole, or without one unit (a fault).
Answer(d) ==
    LET c == Head(inbox[d])
        r == Reply(d, c.cmd, c.by)
    IN  /\ d \in Nfc /\ state[d] = "up" /\ inbox[d] # <<>>
        /\ \/ line' = [line EXCEPT ![at[d]] = @ \o r] /\ UNCHANGED budget
           \/ \E i \in DOMAIN r : line' = [line EXCEPT ![at[d]] = @ \o RemoveAt(r, i)] /\ Fault
        /\ inbox' = [inbox EXCEPT ![d] = Tail(@)]
        /\ tag' = IF c.cmd = "type" THEN tag \cup {d} ELSE tag
        /\ state' = [state EXCEPT ![d] = IF c.cmd \in {"reboot", "bootloader"} THEN c.cmd ELSE @]
        /\ UNCHANGED <<at, lock, fd, job, known>>

\* A TPM knows none of the probes' commands; a probe misses one that was damaged.
Ignore(d) ==
    /\ inbox[d] # <<>>
    /\ IF d \in Tpms THEN UNCHANGED budget ELSE state[d] = "up" /\ Fault
    /\ inbox' = [inbox EXCEPT ![d] = Tail(@)]
    /\ UNCHANGED <<at, state, tag, line, lock, fd, job, known>>

\* A device that restarts leaves its port.
Disconnect(d) ==
    LET q == at[d] IN
    /\ q # 0 /\ state[d] # "up"
    /\ at' = [at EXCEPT ![d] = 0]
    /\ state' = [state EXCEPT ![d] = IF @ = "bootloader" THEN @ ELSE "down"]
    /\ inbox' = [inbox EXCEPT ![d] = <<>>]
    /\ line' = [line EXCEPT ![q] = <<>>]
    /\ fd' = [p \in Users |-> [s \in DOMAIN fd[p] |-> IF fd[p][s] = q THEN Dead ELSE fd[p][s]]]
    /\ tag' = tag \ {d}
    /\ UNCHANGED <<lock, job, known, budget>>

\* It comes back at any port that is free.
Connect(d) ==
    /\ state[d] = "down"
    /\ at[d] = 0
    /\ \E q \in Ports \ ListUsbDevices : at' = [at EXCEPT ![d] = q]
    /\ state' = [state EXCEPT ![d] = "up"]
    /\ UNCHANGED <<inbox, tag, line, lock, fd, job, known, budget>>

-----------------------------------------------------------------------------

SdkStep == CommandStep(Sdk) \/ BootReason \/ Scan \/ Scanned \/ Attach \/ TagMode \/ Finish(Sdk)
ToolStep == CommandStep(Tool) \/ Identified \/ Restarted \/ Copy \/ Seek \/ Sought \/ Finish(Tool)
KeyStep == Discover \/ Listen \/ Identity \/ HasTpm \/ Sign \/ Finish(Key)
DeviceStep(d) == Answer(d) \/ Ignore(d) \/ Disconnect(d) \/ Connect(d)

Next ==
    \/ SdkCall \/ ToolCall \/ KeyCall
    \/ SdkStep \/ ToolStep \/ KeyStep
    \/ \E d \in Devices : DeviceStep(d)

Spec == Init /\ [][Next]_vars

\* Threads run, and devices answer, leave and come back.
Fairness ==
    /\ WF_vars(SdkStep) /\ WF_vars(ToolStep) /\ WF_vars(KeyStep)
    /\ WF_vars(\E d \in Devices : DeviceStep(d))

FairSpec == Spec /\ Fairness

-----------------------------------------------------------------------------
(* Properties *)

\* A command that succeeds was answered itself, if no answer to an earlier one was owed and,
\* for a write, none was left in the line when it took the lock: no other process, damaged
\* frame, closing cable or search for the TPM makes it take another command's reply.
ReplyIsOwn ==
    \A p \in Users :
        In(p, "run") /\ job[p].ok /\ job[p].quiet => \A i \in DOMAIN job[p].got : job[p].got[i].by = p

\* After a restart the tool's cable is at the probe it restarted and no other one, at
\* whatever port that has come back and whatever was there in between. A probe without a
\* UID cannot be told from others of its type: then it is an NFC probe, never a TPM and
\* never an empty port.
ReconnectedIsSame ==
    LET j == job[Tool] IN
    j.step = "found" /\ j.want # None /\ fd[Tool].own # Dead =>
        \E d \in Nfc : at[d] = fd[Tool].own /\ (d = j.want \/ j.want \in Unnumbered)

\* Every call returns: a probe that is silent, gone or out of step costs a timeout, a port
\* that is locked is released, and the searches for a probe end.
CallsReturn == []<>(\A p \in Users \cup {Key} : job[p].op = "idle")

=============================================================================
