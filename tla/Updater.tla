------------------------------- MODULE Updater -------------------------------
(***************************************************************************)
(* The self-update of the SDK library and of scorbitd (updater.cpp), with  *)
(* the remounting of the file system (fs_read_write.cpp), the extraction   *)
(* of the archive (archiver.cpp) and the synchronous download (net.cpp).   *)
(*                                                                         *)
(* A check runs on the pool thread that received the release track's reply *)
(* (requestReleaseTrackInfo), and every authentication and pairing asks    *)
(* for one, so several may run; each is a checker.  A step is one          *)
(* operation on the file system, with the tests that precede it, and the   *)
(* process may be restarted, or lose its power, between any two steps.     *)
(*                                                                         *)
(* The name of the downloaded archive is unique and its content is fixed   *)
(* when it is extracted, so it is not part of the state.  A version x.y.z  *)
(* is one number whose last digit is z.                                    *)
(***************************************************************************)
EXTENDS Naturals, FiniteSets

CONSTANTS Checkers,     \* replies of the release track that are being processed
          Versions,     \* versions of the binaries
          FirstVersion, \* the version installed in the beginning
          Devices,      \* kinds of device: see DeviceType
          Replies,      \* what the release track offers: see Offer
          MaxChecks,    \* bound: replies that arrive
          MaxRestarts   \* bound: restarts of the process

Bins == {"sdk", "scorbitd"}

\* windows: the branch of replaceBinary; static: the SDK is linked into the executable;
\* platform, named, key: the ids, file names and keys allow updates; boot: how the file
\* system is mounted at the start; roWord: its options contain "ro" even when it is writable;
\* daemon: the process is scorbitd and has told the SDK its version.
DeviceType == [windows: BOOLEAN, static: BOOLEAN, platform: BOOLEAN, named: BOOLEAN,
               key: BOOLEAN, boot: {"ro", "rw"}, roWord: BOOLEAN, daemon: BOOLEAN]

\* The entry of one binary in the reply: ver is 0 when it is absent, and asset is what
\* parseUrls finds in it.
Offer == [ver: Versions \cup {0}, asset: {"match", "none", "bad"}]

ASSUME UpdaterAssumption ==
    /\ Versions \subseteq Nat \ {0}
    /\ FirstVersion \in Versions
    /\ Devices \subseteq DeviceType
    /\ Replies \subseteq [Bins -> Offer]
    /\ MaxChecks \in Nat
    /\ MaxRestarts \in Nat

VARIABLES dev,        \* the device
          lib,        \* the file at the binary's path
          old,        \* the file at that path with ".old"
          dir,        \* the binaries in its UPDATE_DIR
          mount,      \* the mount of the file system
          running,    \* versions the process was started with
          inProgress, \* m_updateInProgress
          feedback,   \* m_feedback is not empty
          chk,        \* the checkers
          reported,   \* updateConfig has been called with success
          announced,  \* a ScorbitdUpdatedEvent has been pushed
          budget,     \* what is left of MaxChecks and MaxRestarts
          overlapped, \* ghost: two checks have run at the same time
          replaced    \* ghost: binaries some checker has put in place

vars == <<dev, lib, old, dir, mount, running, inProgress, feedback, chk, reported,
          announced, budget, overlapped, replaced>>
disk == <<lib, old, dir>>
outcome == <<reported, announced, overlapped>>

NoFile == [ver |-> 0, whole |-> FALSE]
File   == [ver: Versions, whole: BOOLEAN]
Exists(f) == f # NoFile

Stages == {"idle", "flag", "consider", "mount", "download", "extract", "find", "backup",
           "aside", "put", "unlink", "restore", "clean", "remount", "log"}

Checker == [pc: Stages, bin: Bins, offer: [Bins -> Offer], success: BOOLEAN,
            logs: BOOLEAN, mp: BOOLEAN, new: File \cup {NoFile}]

NoOffer == [b \in Bins |-> [ver |-> 0, asset |-> "none"]]

Idle == [pc |-> "idle", bin |-> "sdk", offer |-> NoOffer, success |-> FALSE,
         logs |-> FALSE, mp |-> FALSE, new |-> NoFile]

TypeOK ==
    /\ dev \in Devices
    /\ lib \in [Bins -> File \cup {NoFile}]
    /\ old \in [Bins -> File \cup {NoFile}]
    /\ dir \in [Bins -> SUBSET File]
    /\ mount \in {"ro", "rw"}
    /\ running \in [Bins -> Versions]
    /\ chk \in [Checkers -> Checker]
    /\ budget \in [checks: 0..MaxChecks, restarts: 0..MaxRestarts]
    /\ {inProgress, feedback, reported, announced, overlapped} \subseteq BOOLEAN
    /\ replaced \subseteq Bins

Init ==
    /\ dev \in Devices
    /\ lib = [b \in Bins |-> [ver |-> FirstVersion, whole |-> TRUE]]
    /\ old = [b \in Bins |-> NoFile]
    /\ dir = [b \in Bins |-> {}]
    /\ mount = dev.boot
    /\ running = [b \in Bins |-> FirstVersion]
    /\ inProgress = FALSE
    /\ feedback = FALSE
    /\ chk = [c \in Checkers |-> Idle]
    /\ reported = FALSE
    /\ announced = FALSE
    /\ budget = [checks |-> MaxChecks, restarts |-> MaxRestarts]
    /\ overlapped = FALSE
    /\ replaced = {}

Series(v) == v \div 10

Active(c) == chk[c].pc \notin {"idle", "flag"}

At(c, pc) == chk[c].pc = pc

Go(c, pc) == chk' = [chk EXCEPT ![c].pc = pc]

\* The replacement of c's binary is over with this result; the guard of update() removes
\* the temporary directory next.
Return(c, success) == chk' = [chk EXCEPT ![c].pc = "clean", ![c].success = success]

\* update(), replaceBinary() or one of the calls before them gives up with a message.
Fail(c, pc) ==
    /\ feedback' = TRUE
    /\ chk' = [chk EXCEPT ![c].pc = pc, ![c].success = FALSE]

\* An exception that nobody in Updater catches: requestReleaseTrackInfo logs it, and
\* m_updateInProgress keeps its value.
Escape(c) ==
    /\ chk' = [chk EXCEPT ![c] = Idle]
    /\ UNCHANGED <<inProgress, feedback, reported, announced, overlapped>>

-----------------------------------------------------------------------------
(* What may be updated. *)

IsPlatformIdValid == dev.platform

IsBinaryObjectValid == dev.named

IsEncryptedKeyValid == dev.key

\* Mutant of the next definition: any other version will do.
MutantAnySeries(v) == v # running["sdk"]

IsSdkVersionCompatible(v) ==
    /\ v # running["sdk"]
    /\ Series(v) = Series(running["sdk"])

IsScorbitdVersionCompatible(v) == dev.daemon /\ v # running["scorbitd"]

ParseUrls(o) == o.asset = "match"

\* Everything that is tested before the version, and complained about.
SdkPrerequisites(o) ==
    IsPlatformIdValid /\ ParseUrls(o) /\ IsBinaryObjectValid /\ IsEncryptedKeyValid

CanUpdateSdk(o) == ~dev.static /\ SdkPrerequisites(o) /\ IsSdkVersionCompatible(o.ver)

CanUpdateScorbitd(o) ==
    /\ IsScorbitdVersionCompatible(o.ver)
    /\ IsBinaryObjectValid /\ IsPlatformIdValid /\ ParseUrls(o)

CanUpdate(b, o) == IF b = "sdk" THEN CanUpdateSdk(o) ELSE CanUpdateScorbitd(o)

\* A refusal that leaves a message: being up to date or statically linked does not.
Complains(b, o) ==
    \/ o.asset = "bad"
    \/ /\ b = "sdk"
       /\ ~dev.static
       /\ SdkPrerequisites(o) => o.ver # running["sdk"]
    \/ b = "scorbitd" /\ IsScorbitdVersionCompatible(o.ver)

-----------------------------------------------------------------------------
(* checkNewVersionAndUpdate. *)

\* m_updateInProgress is tested ...
Check(c) ==
    /\ At(c, "idle")
    /\ budget.checks > 0
    /\ budget' = [budget EXCEPT !.checks = @ - 1]
    /\ IF inProgress
         THEN UNCHANGED chk
         ELSE \E o \in Replies :
                chk' = [chk EXCEPT ![c] = [Idle EXCEPT !.pc = "flag", !.offer = o]]
    /\ UNCHANGED <<dev, disk, mount, running, inProgress, feedback, outcome, replaced>>

\* ... and set, not in one step.
SetFlag(c) ==
    /\ At(c, "flag")
    /\ inProgress' = TRUE
    /\ feedback' = FALSE
    /\ overlapped' = (overlapped \/ \E d \in Checkers : Active(d))
    /\ Go(c, "consider")
    /\ UNCHANGED <<dev, disk, mount, running, reported, announced, budget, replaced>>

\* fs::canonical throws for the path of a file that is not there, and may do so once this
\* process has replaced the file: the path it was started from leads to the removed one.
MayNotResolve(b) == ~Exists(lib[b]) \/ b \in replaced

\* The path of the binary is resolved, which is the executable's for an SDK that is linked
\* into it, then canUpdate*; canUpdateSdk also resolves the executable's, and catches.
Consider(c) ==
    LET b == chk[c].bin
        o == chk[c].offer[b]
        path == IF dev.static THEN "scorbitd" ELSE b
    IN  /\ At(c, "consider")
        /\ o.ver # 0
        /\ \/ /\ MayNotResolve(path)
              /\ Escape(c)
           \/ /\ b = "sdk" /\ Exists(lib[path]) /\ MayNotResolve("scorbitd")
              /\ feedback' = TRUE
              /\ Go(c, "log")
              /\ UNCHANGED <<inProgress, outcome>>
           \/ /\ Exists(lib[path]) /\ (b = "sdk" => Exists(lib["scorbitd"]))
              /\ feedback' = (feedback \/ (~CanUpdate(b, o) /\ Complains(b, o)))
              /\ Go(c, IF CanUpdate(b, o) THEN "mount" ELSE "log")
              /\ UNCHANGED <<inProgress, outcome>>
        /\ UNCHANGED <<dev, disk, mount, running, budget, replaced>>

\* The lines for one binary are over: on to the next one, or to the report.
Advance(c, logs) ==
    IF chk[c].bin = "sdk"
      THEN /\ chk' = [chk EXCEPT ![c].pc = "consider", ![c].bin = "scorbitd",
                                 ![c].logs = logs]
           /\ feedback' = FALSE
           /\ UNCHANGED <<inProgress, reported>>
      ELSE /\ chk' = [chk EXCEPT ![c] = Idle]
           /\ reported' = (reported \/ (logs /\ chk[c].success))
           /\ inProgress' = FALSE
           /\ UNCHANGED feedback

NotOffered(c) ==
    /\ At(c, "consider")
    /\ chk[c].offer[chk[c].bin].ver = 0
    /\ Advance(c, chk[c].logs)
    /\ UNCHANGED <<dev, disk, mount, running, announced, overlapped, budget, replaced>>

\* success is one variable for both binaries: a refused scorbitd keeps the SDK's result.
Log(c) ==
    /\ At(c, "log")
    /\ Advance(c, chk[c].logs \/ feedback \/ chk[c].success)
    /\ UNCHANGED <<dev, disk, mount, running, announced, overlapped, budget, replaced>>

-----------------------------------------------------------------------------
(* tryToRemountAndUpdate and the remounting it calls. *)

\* isReadOnly searches the options of the mount for the letters "ro".
IsReadOnly == mount = "ro" \/ dev.roWord

\* fsMakeWritable; it throws when the mount point is not found.
FsMakeWritable(c) ==
    /\ At(c, "mount")
    /\ \/ ~dev.windows /\ Escape(c) /\ UNCHANGED mount
       \/ /\ dev.windows \/ ~IsReadOnly
          /\ chk' = [chk EXCEPT ![c].pc = "download", ![c].mp = FALSE]
          /\ UNCHANGED <<mount, feedback, inProgress, outcome>>
       \/ /\ ~dev.windows /\ IsReadOnly
          /\ mount' = "rw"
          /\ chk' = [chk EXCEPT ![c].pc = "download", ![c].mp = TRUE]
          /\ UNCHANGED <<feedback, inProgress, outcome>>
       \/ /\ ~dev.windows /\ IsReadOnly
          /\ Fail(c, "log")
          /\ UNCHANGED <<mount, inProgress, outcome>>
    /\ UNCHANGED <<dev, disk, running, budget, replaced>>

\* Mutant of the next definition: the result of the SDK's update is announced for scorbitd.
MutantAnnounceAny(c) ==
    /\ At(c, "remount")
    /\ mount' \in IF chk[c].mp THEN {mount, "ro"} ELSE {mount}
    /\ announced' = (announced \/ chk[c].success)
    /\ Go(c, "log")
    /\ UNCHANGED <<dev, disk, running, inProgress, feedback, reported, overlapped,
                   budget, replaced>>

\* fsRemountReadOnly, whose result is not looked at, and the event about scorbitd.
FsRemountReadOnly(c) ==
    /\ At(c, "remount")
    /\ mount' \in IF chk[c].mp THEN {mount, "ro"} ELSE {mount}
    /\ announced' = (announced \/ (chk[c].bin = "scorbitd" /\ chk[c].success))
    /\ Go(c, "log")
    /\ UNCHANGED <<dev, disk, running, inProgress, feedback, reported, overlapped,
                   budget, replaced>>

\* downloadAndupdateTgz: no directory for temporary files, a failed download, an archive.
Download(c) ==
    /\ At(c, "download")
    /\ \/ Escape(c)
       \/ Fail(c, "remount") /\ UNCHANGED <<inProgress, outcome>>
       \/ Go(c, "extract") /\ UNCHANGED <<feedback, inProgress, outcome>>
    /\ UNCHANGED <<dev, disk, mount, running, budget, replaced>>

-----------------------------------------------------------------------------
(* update and replaceBinary. *)

\* extract: the archive holds the binary or not; a failed write of its data is logged, and
\* the result of archive_write_finish_entry takes its place; other failures end it.
Extract(c) ==
    LET b == chk[c].bin
        f(whole) == [ver |-> chk[c].offer[b].ver, whole |-> whole]
        with(x) == {g \in dir[b] : g.ver # x.ver} \cup {x}
    IN  /\ At(c, "extract")
        /\ \/ /\ mount = "rw"
              /\ \/ UNCHANGED dir
                 \/ \E w \in BOOLEAN : dir' = [dir EXCEPT ![b] = with(f(w))]
              /\ Go(c, "find")
              /\ UNCHANGED feedback
           \/ /\ \/ UNCHANGED dir
                 \/ mount = "rw" /\ dir' = [dir EXCEPT ![b] = with(f(FALSE))]
              /\ Fail(c, "clean")
        /\ UNCHANGED <<dev, lib, old, mount, running, inProgress, outcome, budget, replaced>>

\* findFile takes the first match in an order the file system chooses.
FindFile(c) ==
    /\ At(c, "find")
    /\ \/ \E f \in dir[chk[c].bin] :
            /\ chk' = [chk EXCEPT ![c].pc = "backup", ![c].new = f]
            /\ UNCHANGED feedback
       \/ dir[chk[c].bin] = {} /\ Fail(c, "clean")
    /\ UNCHANGED <<dev, disk, mount, running, inProgress, outcome, budget, replaced>>

\* fs::rename(newLibPath, libPath) when it succeeds: the path still has the file.
RenameNew(c) ==
    LET b == chk[c].bin
    IN  /\ mount = "rw"
        /\ chk[c].new \in dir[b]
        /\ lib' = [lib EXCEPT ![b] = chk[c].new]
        /\ dir' = [dir EXCEPT ![b] = @ \ {chk[c].new}]
        /\ replaced' = replaced \cup {b}

\* Mutant of the next definition: the current file is removed instead of kept.
MutantBackupDropped(b) ==
    /\ mount = "rw"
    /\ Exists(lib[b])
    /\ lib' = [lib EXCEPT ![b] = NoFile]
    /\ UNCHANGED <<old, dir, replaced>>

\* fs::rename(libPath, backupPath) when it succeeds.
RenameToOld(b) ==
    /\ mount = "rw"
    /\ Exists(lib[b])
    /\ old' = [old EXCEPT ![b] = lib[b]]
    /\ lib' = [lib EXCEPT ![b] = NoFile]
    /\ UNCHANGED <<dir, replaced>>

\* POSIX: the first rename of replaceBinary, the only one when there is no current file.
BackupPosix(c) ==
    LET b == chk[c].bin
    IN  \/ RenameToOld(b) /\ Go(c, "put") /\ UNCHANGED feedback
        \/ ~Exists(lib[b]) /\ RenameNew(c) /\ Return(c, TRUE) /\ UNCHANGED <<old, feedback>>
        \/ Fail(c, "clean") /\ UNCHANGED <<disk, replaced>>

\* Windows: a .old that is still in use costs the current file.
BackupWindows(c) ==
    LET b == chk[c].bin
    IN  \/ /\ Exists(old[b])
           /\ old' = [old EXCEPT ![b] = NoFile]
           /\ Go(c, "aside") /\ UNCHANGED <<lib, dir, replaced, feedback>>
        \/ /\ Exists(old[b])
           /\ lib' = [lib EXCEPT ![b] = NoFile]
           /\ Go(c, "put") /\ UNCHANGED <<old, dir, replaced, feedback>>
        \/ ~Exists(old[b]) /\ RenameToOld(b) /\ Go(c, "put") /\ UNCHANGED feedback
        \/ /\ ~Exists(old[b]) /\ ~Exists(lib[b])
           /\ Go(c, "put") /\ UNCHANGED <<disk, replaced, feedback>>
        \/ Fail(c, "clean") /\ UNCHANGED <<disk, replaced>>

ReplaceBinary(c) ==
    /\ At(c, "backup")
    /\ IF dev.windows THEN BackupWindows(c) ELSE BackupPosix(c)
    /\ UNCHANGED <<dev, mount, running, inProgress, outcome, budget>>

MoveAside(c) ==
    /\ At(c, "aside")
    /\ \/ RenameToOld(chk[c].bin) /\ Go(c, "put") /\ UNCHANGED feedback
       \/ Fail(c, "clean") /\ UNCHANGED <<disk, replaced>>
    /\ UNCHANGED <<dev, mount, running, inProgress, outcome, budget>>

PutInPlace(c) ==
    /\ At(c, "put")
    /\ \/ /\ RenameNew(c)
          /\ IF dev.windows THEN Return(c, TRUE) ELSE Go(c, "unlink")
          /\ UNCHANGED <<old, feedback>>
       \/ /\ Fail(c, IF dev.windows THEN "clean" ELSE "restore")
          /\ UNCHANGED <<disk, replaced>>
    /\ UNCHANGED <<dev, mount, running, inProgress, outcome, budget>>

\* A backup that cannot be removed counts as a failed replacement.
RemoveBackup(c) ==
    LET b == chk[c].bin
    IN  /\ At(c, "unlink")
        /\ \/ /\ mount = "rw"
              /\ old' = [old EXCEPT ![b] = NoFile]
              /\ Return(c, TRUE) /\ UNCHANGED feedback
           \/ Fail(c, "restore") /\ UNCHANGED old
        /\ UNCHANGED <<dev, lib, dir, mount, running, inProgress, outcome, budget, replaced>>

Restore(c) ==
    LET b == chk[c].bin
    IN  /\ At(c, "restore")
        /\ \/ /\ mount = "rw" /\ Exists(old[b])
              /\ lib' = [lib EXCEPT ![b] = old[b]]
              /\ old' = [old EXCEPT ![b] = NoFile]
              /\ Return(c, FALSE) /\ UNCHANGED feedback
           \/ Fail(c, "clean") /\ UNCHANGED <<lib, old>>
        /\ UNCHANGED <<dev, dir, mount, running, inProgress, outcome, budget, replaced>>

\* The guard of update() removes the temporary directory, the callback of the download the
\* archive; a success is written to the feedback.
CleanUp(c) ==
    /\ At(c, "clean")
    /\ \/ UNCHANGED dir
       \/ dir' = [dir EXCEPT ![chk[c].bin] = {}]
    /\ feedback' = (feedback \/ chk[c].success)
    /\ Go(c, "remount")
    /\ UNCHANGED <<dev, lib, old, mount, running, inProgress, outcome, budget, replaced>>

-----------------------------------------------------------------------------

\* The process ends at any moment and is started again if its binaries are there: only the
\* disk keeps its state.
Restart ==
    /\ budget.restarts > 0
    /\ \A b \in Bins : Exists(lib[b])
    /\ budget' = [budget EXCEPT !.restarts = @ - 1]
    /\ running' = [b \in Bins |-> lib[b].ver]
    /\ chk' = [c \in Checkers |-> Idle]
    /\ inProgress' = FALSE
    /\ feedback' = FALSE
    /\ mount' = dev.boot
    /\ replaced' = {}
    /\ reported' = FALSE
    /\ announced' = FALSE
    /\ UNCHANGED <<dev, disk, overlapped>>

Step(c) ==
    \/ Check(c) \/ SetFlag(c) \/ Consider(c) \/ NotOffered(c) \/ Log(c)
    \/ FsMakeWritable(c) \/ FsRemountReadOnly(c) \/ Download(c)
    \/ Extract(c) \/ FindFile(c) \/ ReplaceBinary(c) \/ MoveAside(c)
    \/ PutInPlace(c) \/ RemoveBackup(c) \/ Restore(c) \/ CleanUp(c)

Next == Restart \/ \E c \in Checkers : Step(c)

Spec == Init /\ [][Next]_vars

-----------------------------------------------------------------------------
(* Properties. *)

\* Whatever step of replaceBinary fails or is the last before a crash, the binary is still
\* on the disk, at its path or as its backup - as long as checks do not overlap.
BinaryRecoverable ==
    overlapped \/ \A b \in Bins : Exists(lib[b]) \/ Exists(old[b])

\* updateConfig reports a success only if this process has replaced a binary, and the
\* event about scorbitd only comes when scorbitd itself was replaced, though success is one
\* variable for both binaries.
ReportTruthful ==
    /\ reported => replaced # {}
    /\ announced => "scorbitd" \in replaced

\* What may become of the SDK's library on this device.
SdkUpdatable == ~dev.static /\ IsPlatformIdValid /\ IsBinaryObjectValid /\ IsEncryptedKeyValid

\* "x.y.z updates only by x.y.*": through failed and interrupted replacements, files that an
\* earlier check has left in UPDATE_DIR, overlapping checks and restarts with a new version,
\* the library and its backup stay in the series the device was delivered with, and a
\* library that must not be updated stays what it was.
SdkStaysInSeries ==
    \A f \in {lib["sdk"], old["sdk"]} :
        Exists(f) => /\ Series(f.ver) = Series(FirstVersion)
                     /\ SdkUpdatable \/ f.ver = FirstVersion

=============================================================================
