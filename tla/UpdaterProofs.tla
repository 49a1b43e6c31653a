--------------------------- MODULE UpdaterProofs ---------------------------
(***************************************************************************)
(* Theorems about Updater, for any checkers, versions, devices and replies *)
(* of the release track, and any number of checks and restarts.            *)
(***************************************************************************)
EXTENDS Updater, TLAPS

\* The binary a checker works on was offered, from the decision to update it on.
Offered ==
    \A c \in Checkers : chk[c].pc \notin {"idle", "flag", "consider", "log", "clean", "remount"} =>
        chk[c].offer[chk[c].bin].ver \in Versions

\* While a check is alone, the file it is about to move or has put in place is there.
LibInPlace ==
    ~overlapped => \A c \in Checkers :
        chk[c].pc \in {"mount", "download", "extract", "find", "backup", "aside", "unlink"} =>
            Exists(lib[chk[c].bin])

\* A success has put a binary in place, the checker's own when it has just come from it.
SuccessIsReal ==
    \A c \in Checkers :
        /\ chk[c].success => replaced # {}
        /\ chk[c].pc = "unlink" => chk[c].bin \in replaced
        /\ chk[c].pc \in {"clean", "remount"} /\ chk[c].success => chk[c].bin \in replaced

\* m_updateInProgress keeps a check alone as long as no two have passed its test together.
Alone ==
    ~overlapped => \A c, d \in Checkers : Active(c) => inProgress /\ (Active(d) => c = d)

\* A version the SDK may have on this device.
InSeries(v) == Series(v) = Series(FirstVersion) /\ (SdkUpdatable \/ v = FirstVersion)

\* So has every file that can become the library, the library it was started with, and
\* the version that a check has decided on and not yet extracted.
SdkInSeries ==
    /\ SdkStaysInSeries
    /\ \A f \in dir["sdk"] : InSeries(f.ver)
    /\ InSeries(running["sdk"])
    /\ \A c \in Checkers : chk[c].pc \in {"mount", "download", "extract"} /\ chk[c].bin = "sdk" =>
           InSeries(chk[c].offer["sdk"].ver)

IInv ==
    /\ TypeOK
    /\ Offered
    /\ Alone
    /\ SdkInSeries
    /\ LibInPlace
    /\ BinaryRecoverable
    /\ SuccessIsReal
    /\ ReportTruthful

-----------------------------------------------------------------------------
(* Types *)

LEMMA IdleChecker == Idle \in Checker
BY DEF Idle, Checker, Stages, Bins, Offer, NoOffer

\* Assigning fields of a checker within their types leaves a checker.
LEMMA CheckerEdited ==
    ASSUME NEW r \in Checker, NEW pc \in Stages
    PROVE  /\ [r EXCEPT !.pc = pc] \in Checker
           /\ \A v \in BOOLEAN : /\ [r EXCEPT !.pc = pc, !.success = v] \in Checker
                                /\ [r EXCEPT !.pc = pc, !.mp = v] \in Checker
                                /\ [r EXCEPT !.pc = pc, !.bin = "scorbitd", !.logs = v] \in Checker
           /\ \A f \in File : [r EXCEPT !.pc = pc, !.new = f] \in Checker
BY DEF Checker, Bins

LEMMA InitTypeOK == Init => TypeOK
<1> SUFFICES ASSUME Init PROVE TypeOK
    OBVIOUS
<1>1. /\ lib \in [Bins -> File \cup {NoFile}] /\ old \in [Bins -> File \cup {NoFile}]
      /\ dir \in [Bins -> SUBSET File]
    BY UpdaterAssumption DEF Init, File
<1>2. mount \in {"ro", "rw"} /\ running \in [Bins -> Versions]
    BY UpdaterAssumption DEF Init, DeviceType
<1>3. chk \in [Checkers -> Checker]
    BY IdleChecker DEF Init
<1>4. budget \in [checks: 0..MaxChecks, restarts: 0..MaxRestarts]
    BY UpdaterAssumption DEF Init
<1>5. {inProgress, feedback, reported, announced, overlapped} \subseteq BOOLEAN
    BY Zenon DEF Init
<1> QED
    BY <1>1, <1>2, <1>3, <1>4, <1>5 DEF Init, TypeOK

\* Flags are assigned constants, themselves, or disjunctions.
LEMMA FlagStep ==
    ASSUME TypeOK, [Next]_vars
    PROVE  {inProgress, feedback, reported, announced, overlapped}' \subseteq BOOLEAN
<1>1. CASE UNCHANGED vars
    BY <1>1, Zenon DEF vars, TypeOK
<1>2. CASE Restart
    BY <1>2, Zenon DEF Restart, TypeOK
<1>3. ASSUME NEW c \in Checkers, Step(c)
      PROVE  {inProgress, feedback, reported, announced, overlapped}' \subseteq BOOLEAN
  <2> USE DEF Escape, Fail, Go, Return, Advance, outcome, TypeOK
  <2>1. CASE Check(c) \/ SetFlag(c) \/ Consider(c)
      BY <2>1, Zenon DEF Check, SetFlag, Consider
  <2>2. CASE NotOffered(c) \/ Log(c)
      BY <2>2, Zenon DEF NotOffered, Log
  <2>3. CASE FsMakeWritable(c) \/ FsRemountReadOnly(c) \/ Download(c)
      BY <2>3, Zenon DEF FsMakeWritable, FsRemountReadOnly, Download
  <2>4. CASE Extract(c) \/ FindFile(c)
      BY <2>4, Zenon DEF Extract, FindFile
  <2>5. CASE ReplaceBinary(c) \/ MoveAside(c) \/ PutInPlace(c)
      BY <2>5, Zenon DEF ReplaceBinary, BackupPosix, BackupWindows, MoveAside, PutInPlace
  <2>6. CASE RemoveBackup(c) \/ Restore(c) \/ CleanUp(c)
      BY <2>6, Zenon DEF RemoveBackup, Restore, CleanUp
  <2> QED
      BY <1>3, <2>1, <2>2, <2>3, <2>4, <2>5, <2>6, Zenon DEF Step
<1> QED
    BY <1>1, <1>2, <1>3 DEF Next

\* What a step makes of the checkers has their type.
LEMMA ChkStep ==
    ASSUME TypeOK, NEW c \in Checkers, Step(c)
    PROVE  chk' \in [Checkers -> Checker]
<1>0. chk \in [Checkers -> Checker] /\ chk[c] \in Checker
    BY DEF TypeOK
<1> DEFINE Becomes(r) == chk' = [chk EXCEPT ![c] = r]
<1>a. ASSUME NEW r \in Checker, Becomes(r) PROVE chk' \in [Checkers -> Checker]
    BY <1>0, <1>a
<1>b. ASSUME NEW pc \in Stages, Go(c, pc) PROVE chk' \in [Checkers -> Checker]
  <2>1. Becomes([chk[c] EXCEPT !.pc = pc])
      BY <1>0, <1>b DEF Go
  <2> QED
      BY <1>0, <1>a, <2>1, CheckerEdited
<1>c. ASSUME NEW pc \in Stages, Fail(c, pc) PROVE chk' \in [Checkers -> Checker]
  <2>1. Becomes([chk[c] EXCEPT !.pc = pc, !.success = FALSE])
      BY <1>0, <1>c DEF Fail
  <2> QED
      BY <1>0, <1>a, <2>1, CheckerEdited
<1>d. ASSUME NEW v \in BOOLEAN, Return(c, v) PROVE chk' \in [Checkers -> Checker]
  <2>1. Becomes([chk[c] EXCEPT !.pc = "clean", !.success = v])
      BY <1>0, <1>d DEF Return
  <2>2. "clean" \in Stages
      BY DEF Stages
  <2> QED
      BY <1>0, <1>a, <2>1, <2>2, CheckerEdited
<1>e. ASSUME Escape(c) PROVE chk' \in [Checkers -> Checker]
    BY <1>a, <1>e, IdleChecker DEF Escape
<1>3. CASE Check(c)
  <2>1. \A o \in Replies : [Idle EXCEPT !.pc = "flag", !.offer = o] \in Checker
      BY IdleChecker, UpdaterAssumption DEF Checker, Stages
  <2> QED
      BY <1>0, <1>3, <1>a, <2>1 DEF Check
<1>4. CASE SetFlag(c) \/ Consider(c)
    BY <1>b, <1>e, <1>4 DEF SetFlag, Consider, Stages
<1>5. CASE NotOffered(c) \/ Log(c)
  <2>1. PICK v : Advance(c, v) /\ v \in BOOLEAN
      BY <1>0, <1>5, Zenon DEF NotOffered, Log, Checker
  <2>2. \/ Becomes(Idle)
        \/ Becomes([chk[c] EXCEPT !.pc = "consider", !.bin = "scorbitd", !.logs = v])
      BY <1>0, <2>1 DEF Advance
  <2>3. "consider" \in Stages
      BY DEF Stages
  <2> QED
      BY <1>0, <1>a, <2>1, <2>2, <2>3, IdleChecker, CheckerEdited
<1>6. CASE FsMakeWritable(c)
  <2>1. "download" \in Stages /\ "log" \in Stages
      BY DEF Stages
  <2>2. ASSUME NEW v \in BOOLEAN, chk' = [chk EXCEPT ![c].pc = "download", ![c].mp = v]
        PROVE  chk' \in [Checkers -> Checker]
    <3>1. Becomes([chk[c] EXCEPT !.pc = "download", !.mp = v])
        BY <1>0, <2>2
    <3> QED
        BY <1>0, <1>a, <2>1, <3>1, CheckerEdited
  <2> QED
      BY <1>c, <1>e, <1>6, <2>1, <2>2 DEF FsMakeWritable
<1>7. CASE FsRemountReadOnly(c) \/ Download(c) \/ CleanUp(c)
    BY <1>b, <1>c, <1>e, <1>7 DEF FsRemountReadOnly, Download, CleanUp, Stages
<1>8. CASE Extract(c)
    BY <1>b, <1>c, <1>8 DEF Extract, Stages
<1>9. CASE FindFile(c)
  <2>1. "backup" \in Stages /\ "clean" \in Stages
      BY DEF Stages
  <2>2. dir[chk[c].bin] \subseteq File
      BY <1>0 DEF TypeOK, Checker
  <2>3. ASSUME NEW f \in File, chk' = [chk EXCEPT ![c].pc = "backup", ![c].new = f]
        PROVE  chk' \in [Checkers -> Checker]
    <3>1. Becomes([chk[c] EXCEPT !.pc = "backup", !.new = f])
        BY <1>0, <2>3
    <3> QED
        BY <1>0, <1>a, <2>1, <3>1, CheckerEdited
  <2> QED
      BY <1>c, <1>9, <2>1, <2>2, <2>3 DEF FindFile
<1>10. CASE ReplaceBinary(c)
    BY <1>b, <1>c, <1>d, <1>10 DEF ReplaceBinary, BackupPosix, BackupWindows, Stages
<1>11. CASE MoveAside(c) \/ PutInPlace(c) \/ RemoveBackup(c) \/ Restore(c)
    BY <1>b, <1>c, <1>d, <1>11 DEF MoveAside, PutInPlace, RemoveBackup, Restore, Stages
<1> QED
    BY <1>3, <1>4, <1>5, <1>6, <1>7, <1>8, <1>9, <1>10, <1>11 DEF Step

\* What a step makes of the files has their type.
LEMMA DiskStep ==
    ASSUME TypeOK, Offered, NEW c \in Checkers, Step(c)
    PROVE  /\ lib' \in [Bins -> File \cup {NoFile}]
           /\ old' \in [Bins -> File \cup {NoFile}]
           /\ dir' \in [Bins -> SUBSET File]
           /\ replaced' \subseteq Bins
<1> USE DEF disk
<1>0. chk[c].bin \in Bins
    BY DEF TypeOK, Checker
<1>1. CASE Extract(c)
  <2> DEFINE b == chk[c].bin
             with(x) == {g \in dir[b] : g.ver # x.ver} \cup {x}
             f(w) == [ver |-> chk[c].offer[b].ver, whole |-> w]
  <2>1. \A w \in BOOLEAN : f(w) \in File
      BY <1>1 DEF Extract, At, Offered, File
  <2>2. \A w \in BOOLEAN : with(f(w)) \in SUBSET File
      BY <1>0, <2>1 DEF TypeOK
  <2>3. \A v \in SUBSET File : [dir EXCEPT ![b] = v] \in [Bins -> SUBSET File]
      BY <1>0 DEF TypeOK
  <2>4. dir' = dir \/ \E w \in BOOLEAN : dir' = [dir EXCEPT ![b] = with(f(w))]
      BY <1>1, Zenon DEF Extract
  <2> HIDE DEF with, f, b
  <2>5. dir' \in [Bins -> SUBSET File]
      BY <2>2, <2>3, <2>4 DEF TypeOK
  <2>6. UNCHANGED <<lib, old, replaced>>
      BY <1>1 DEF Extract
  <2> QED
      BY <2>5, <2>6 DEF TypeOK
<1>2. CASE ReplaceBinary(c)
  <2>1. CASE RenameToOld(chk[c].bin)
      BY <1>0, <2>1 DEF RenameToOld, TypeOK
  <2>2. CASE RenameNew(c) /\ UNCHANGED old
      BY <1>0, <2>2 DEF RenameNew, TypeOK
  <2>3. CASE ~RenameToOld(chk[c].bin) /\ ~(RenameNew(c) /\ UNCHANGED old)
      BY <1>0, <1>2, <2>3 DEF ReplaceBinary, BackupPosix, BackupWindows, TypeOK
  <2> QED
      BY <2>1, <2>2, <2>3
<1>3. CASE MoveAside(c) \/ PutInPlace(c)
  <2>1. CASE RenameToOld(chk[c].bin)
      BY <1>0, <2>1 DEF RenameToOld, TypeOK
  <2>2. CASE RenameNew(c) /\ UNCHANGED old
      BY <1>0, <2>2 DEF RenameNew, TypeOK
  <2>3. CASE UNCHANGED <<disk, replaced>>
      BY <2>3 DEF TypeOK
  <2> QED
      BY <1>3, <2>1, <2>2, <2>3 DEF MoveAside, PutInPlace
<1>4. CASE RemoveBackup(c) \/ Restore(c) \/ CleanUp(c)
    BY <1>0, <1>4 DEF RemoveBackup, Restore, CleanUp, TypeOK
<1>5. CASE Check(c) \/ SetFlag(c) \/ Consider(c) \/ NotOffered(c) \/ Log(c) \/ FsMakeWritable(c)
           \/ FsRemountReadOnly(c) \/ Download(c) \/ FindFile(c)
    BY <1>5 DEF Check, SetFlag, Consider, NotOffered, Log, FsMakeWritable, FsRemountReadOnly,
                Download, FindFile, TypeOK
<1> QED
    BY <1>1, <1>2, <1>3, <1>4, <1>5 DEF Step

LEMMA TypeStep == TypeOK /\ Offered /\ [Next]_vars => TypeOK'
<1> SUFFICES ASSUME TypeOK, Offered, [Next]_vars PROVE TypeOK'
    OBVIOUS
<1> USE UpdaterAssumption
<1>f. {inProgress, feedback, reported, announced, overlapped}' \subseteq BOOLEAN
    BY FlagStep
<1>1. CASE UNCHANGED vars
    BY <1>1, <1>f DEF vars, TypeOK
<1>2. CASE Restart
  <2>1. running' \in [Bins -> Versions]
      BY <1>2 DEF Restart, Exists, TypeOK, File, NoFile
  <2>2. chk' \in [Checkers -> Checker]
      BY <1>2, IdleChecker DEF Restart
  <2>3. mount' \in {"ro", "rw"}
      BY <1>2 DEF Restart, TypeOK, DeviceType
  <2> QED
      BY <1>2, <1>f, <2>1, <2>2, <2>3 DEF Restart, TypeOK, disk
<1>3. ASSUME NEW c \in Checkers, Step(c) PROVE TypeOK'
  <2>1. dev' = dev /\ running' = running
      BY <1>3, Zenon
      DEF Step, Check, SetFlag, Consider, NotOffered, Log, FsMakeWritable, FsRemountReadOnly,
          Download, Extract, FindFile, ReplaceBinary, MoveAside, PutInPlace, RemoveBackup, Restore,
          CleanUp
  <2>2. mount' \in {"ro", "rw"}
      BY <1>3
      DEF Step, Check, SetFlag, Consider, NotOffered, Log, FsMakeWritable, FsRemountReadOnly,
          Download, Extract, FindFile, ReplaceBinary, MoveAside, PutInPlace, RemoveBackup, Restore,
          CleanUp, TypeOK
  <2>3. budget' \in [checks: 0..MaxChecks, restarts: 0..MaxRestarts]
    <3>1. budget' = budget \/ (budget.checks > 0 /\ budget' = [budget EXCEPT !.checks = @ - 1])
        BY <1>3, Zenon
        DEF Step, Check, SetFlag, Consider, NotOffered, Log, FsMakeWritable, FsRemountReadOnly,
            Download, Extract, FindFile, ReplaceBinary, MoveAside, PutInPlace, RemoveBackup, Restore,
            CleanUp
    <3> QED
        BY <3>1 DEF TypeOK
  <2> QED
      BY <1>3, <1>f, <2>1, <2>2, <2>3, ChkStep, DiskStep DEF TypeOK
<1> QED
    BY <1>1, <1>2, <1>3 DEF Next

-----------------------------------------------------------------------------
(* What a step does to the checkers, field by field *)

\* Checker c goes to pc with this result, and no other checker moves.
Moves(c, pc, success) ==
    /\ chk'[c].pc = pc /\ chk'[c].success = success
    /\ chk'[c].bin = chk[c].bin /\ chk'[c].offer = chk[c].offer
    /\ \A d \in Checkers \ {c} : chk'[d] = chk[d]

\* Checker c is done.
Ends(c) ==
    /\ chk'[c].pc = "idle" /\ chk'[c].success = FALSE
    /\ \A d \in Checkers \ {c} : chk'[d] = chk[d]

\* Checker c turns to scorbitd with the result of the SDK.
Turns(c) ==
    /\ chk'[c].pc = "consider" /\ chk'[c].bin = "scorbitd"
    /\ chk'[c].success = chk[c].success
    /\ \A d \in Checkers \ {c} : chk'[d] = chk[d]

LEMMA Moved ==
    ASSUME TypeOK, NEW c \in Checkers
    PROVE  /\ \A pc : Go(c, pc) => Moves(c, pc, chk[c].success)
           /\ \A pc : Fail(c, pc) => Moves(c, pc, FALSE)
           /\ \A v : Return(c, v) => Moves(c, "clean", v)
           /\ \A v : chk' = [chk EXCEPT ![c].pc = "download", ![c].mp = v]
                     => Moves(c, "download", chk[c].success)
           /\ \A f : chk' = [chk EXCEPT ![c].pc = "backup", ![c].new = f]
                     => Moves(c, "backup", chk[c].success)
           /\ \A v : Advance(c, v) => \/ Turns(c) /\ UNCHANGED <<inProgress, reported>>
                                     \/ /\ Ends(c) /\ ~inProgress'
                                        /\ reported' => reported \/ chk[c].success
           /\ Escape(c) => Ends(c)
<1> USE DEF Moves
<1>0. chk \in [Checkers -> Checker] /\ chk[c] \in Checker
    BY DEF TypeOK
<1>1. ASSUME NEW pc, Go(c, pc) PROVE Moves(c, pc, chk[c].success)
    BY <1>0, <1>1 DEF Go, Checker
<1>2. ASSUME NEW pc, Fail(c, pc) PROVE Moves(c, pc, FALSE)
    BY <1>0, <1>2 DEF Fail, Checker
<1>3. ASSUME NEW v, Return(c, v) PROVE Moves(c, "clean", v)
    BY <1>0, <1>3 DEF Return, Checker
<1>4. ASSUME NEW v, chk' = [chk EXCEPT ![c].pc = "download", ![c].mp = v]
      PROVE  Moves(c, "download", chk[c].success)
    BY <1>0, <1>4 DEF Checker
<1>5. ASSUME NEW f, chk' = [chk EXCEPT ![c].pc = "backup", ![c].new = f]
      PROVE  Moves(c, "backup", chk[c].success)
    BY <1>0, <1>5 DEF Checker
<1>6. ASSUME NEW v, Advance(c, v)
      PROVE  \/ Turns(c) /\ UNCHANGED <<inProgress, reported>>
             \/ Ends(c) /\ ~inProgress' /\ (reported' => reported \/ chk[c].success)
  <2>1. CASE chk[c].bin = "sdk"
      BY <1>0, <1>6, <2>1 DEF Advance, Turns, Checker
  <2>2. CASE chk[c].bin # "sdk"
    <3>1. Ends(c)
        BY <1>0, <1>6, <2>2 DEF Advance, Ends, Idle
    <3>2. ~inProgress' /\ (reported' => reported \/ chk[c].success)
        BY <1>6, <2>2, Zenon DEF Advance
    <3> QED
        BY <3>1, <3>2
  <2> QED
      BY <2>1, <2>2
<1>7. ASSUME Escape(c) PROVE Ends(c)
    BY <1>0, <1>7 DEF Escape, Ends, Idle
<1> QED
    BY <1>1, <1>2, <1>3, <1>4, <1>5, <1>6, <1>7

\* Check(c) leaves c before the flag.
LEMMA Begun ==
    ASSUME TypeOK, NEW c \in Checkers, Check(c)
    PROVE  /\ chk[c].pc = "idle"
           /\ chk' = chk \/ (chk'[c].pc = "flag" /\ ~chk'[c].success)
           /\ \A d \in Checkers \ {c} : chk'[d] = chk[d]
<1>0. chk \in [Checkers -> Checker]
    BY DEF TypeOK
<1> QED
    BY <1>0 DEF Check, At, Idle

(* A step is one of these, as far as the invariants are concerned. *)

Flags == <<inProgress, reported, announced, overlapped>>
Files == <<lib, old, replaced>>

BeginEffect(c) == /\ UNCHANGED <<Flags, Files>> /\ chk[c].pc = "idle"
                  /\ chk' = chk \/ (chk'[c].pc = "flag" /\ ~chk'[c].success)
                  /\ \A d \in Checkers \ {c} : chk'[d] = chk[d]

FlagEffect(c) == /\ UNCHANGED <<reported, announced, Files>>
                 /\ inProgress' /\ (overlapped => overlapped')
                 /\ ~overlapped' => \A d \in Checkers : ~Active(d)
                 /\ chk[c].pc = "flag" /\ Moves(c, "consider", chk[c].success)

EscapeEffect(c) == /\ UNCHANGED <<inProgress, reported, announced, overlapped, Files>>
                   /\ Active(c) /\ Ends(c)

FinishEffect(c) == /\ UNCHANGED <<announced, overlapped, Files>>
                   /\ ~inProgress' /\ (reported' => reported \/ chk[c].success)
                   /\ Active(c) /\ Ends(c)

TurnEffect(c) == UNCHANGED <<Flags, Files>> /\ Active(c) /\ Turns(c)

AnnounceEffect(c) == /\ UNCHANGED <<inProgress, reported, overlapped, Files>>
                     /\ announced' => announced \/ (chk[c].bin = "scorbitd" /\ chk[c].success)
                     /\ chk[c].pc = "remount" /\ Moves(c, "log", chk[c].success)

\* The stages between which c goes on with the result it has.
Onward == {<<"consider", "log">>, <<"mount", "download">>, <<"download", "extract">>,
           <<"extract", "find">>, <<"find", "backup">>, <<"clean", "remount">>}

\* The stages from which c goes on without a result.
Failing == {<<"mount", "log">>, <<"download", "remount">>, <<"extract", "clean">>,
            <<"find", "clean">>, <<"backup", "clean">>, <<"aside", "clean">>, <<"put", "clean">>,
            <<"put", "restore">>, <<"unlink", "restore">>, <<"restore", "clean">>}

DecideEffect(c) == /\ UNCHANGED <<Flags, Files>>
                   /\ chk[c].pc = "consider" /\ Moves(c, "mount", chk[c].success)
                   /\ chk[c].offer[chk[c].bin].ver # 0 /\ Exists(lib[chk[c].bin])

WalkEffect(c) == /\ UNCHANGED <<Flags, Files>>
                 /\ \E p \in Onward : chk[c].pc = p[1] /\ Moves(c, p[2], chk[c].success)

FailEffect(c) == /\ UNCHANGED <<Flags, Files>>
                 /\ \E p \in Failing : chk[c].pc = p[1] /\ Moves(c, p[2], FALSE)

\* Windows: with no current file and no backup there is nothing to move.
NothingEffect(c) == /\ UNCHANGED <<Flags, Files>>
                    /\ chk[c].pc = "backup" /\ Moves(c, "put", chk[c].success)
                    /\ ~Exists(lib[chk[c].bin])

AsideEffect(c) == /\ UNCHANGED <<Flags, replaced>>
                  /\ chk[c].pc \in {"backup", "aside"} /\ Moves(c, "put", chk[c].success)
                  /\ Exists(lib[chk[c].bin])
                  /\ old' = [old EXCEPT ![chk[c].bin] = lib[chk[c].bin]]
                  /\ lib' = [lib EXCEPT ![chk[c].bin] = NoFile]

PlaceEffect(c) == /\ UNCHANGED <<Flags, old>>
                  /\ \/ chk[c].pc \in {"backup", "put"} /\ Moves(c, "clean", TRUE)
                     \/ chk[c].pc = "put" /\ Moves(c, "unlink", chk[c].success)
                  /\ \E f \in File : lib' = [lib EXCEPT ![chk[c].bin] = f]
                  /\ replaced' = replaced \cup {chk[c].bin}

\* Windows: the backup goes, or it stays and the current file goes.
ClearEffect(c) == /\ UNCHANGED <<Flags, replaced>>
                  /\ chk[c].pc = "backup"
                  /\ \/ /\ Moves(c, "aside", chk[c].success) /\ UNCHANGED lib
                        /\ old' = [old EXCEPT ![chk[c].bin] = NoFile]
                     \/ /\ Moves(c, "put", chk[c].success) /\ UNCHANGED old
                        /\ Exists(old[chk[c].bin])
                        /\ lib' = [lib EXCEPT ![chk[c].bin] = NoFile]

UnlinkEffect(c) == /\ UNCHANGED <<Flags, lib, replaced>>
                   /\ chk[c].pc = "unlink" /\ Moves(c, "clean", TRUE)
                   /\ old' = [old EXCEPT ![chk[c].bin] = NoFile]

RestoreEffect(c) == /\ UNCHANGED <<Flags, replaced>>
                    /\ chk[c].pc = "restore" /\ Moves(c, "clean", FALSE)
                    /\ Exists(old[chk[c].bin])
                    /\ lib' = [lib EXCEPT ![chk[c].bin] = old[chk[c].bin]]
                    /\ old' = [old EXCEPT ![chk[c].bin] = NoFile]

Effect(c) ==
    \/ BeginEffect(c) \/ FlagEffect(c) \/ EscapeEffect(c) \/ FinishEffect(c) \/ TurnEffect(c)
    \/ AnnounceEffect(c) \/ DecideEffect(c) \/ WalkEffect(c) \/ FailEffect(c) \/ NothingEffect(c)
    \/ AsideEffect(c) \/ PlaceEffect(c) \/ ClearEffect(c) \/ UnlinkEffect(c) \/ RestoreEffect(c)

LEMMA StepEffect ==
    ASSUME TypeOK, NEW c \in Checkers, Step(c)
    PROVE  Effect(c)
<1> USE DEF Flags, Files, disk, outcome, At
<1>0. /\ \A pc : Go(c, pc) => Moves(c, pc, chk[c].success)
      /\ \A pc : Fail(c, pc) => Moves(c, pc, FALSE)
      /\ \A v : Return(c, v) => Moves(c, "clean", v)
      /\ Escape(c) => Ends(c)
    BY Moved, Zenon
<1>a. \A p \in Onward : chk[c].pc = p[1] /\ Go(c, p[2]) /\ UNCHANGED <<Flags, Files>> => Effect(c)
    BY <1>0, Zenon DEF Effect, WalkEffect
<1>b. \A p \in Failing : chk[c].pc = p[1] /\ Fail(c, p[2]) /\ UNCHANGED <<Flags, Files>> => Effect(c)
    BY <1>0, Zenon DEF Effect, FailEffect
<1>c. Active(c) /\ Escape(c) /\ UNCHANGED Files => Effect(c)
    BY <1>0, Zenon DEF Effect, EscapeEffect, Escape
<1>1. CASE Check(c)
    BY <1>1, Begun DEF Check, Effect, BeginEffect
<1>2. CASE SetFlag(c)
    BY <1>0, <1>2, Zenon DEF SetFlag, Effect, FlagEffect
<1>3. CASE Consider(c)
  <2>1. /\ chk[c].pc = "consider" /\ Active(c) /\ UNCHANGED Files
        /\ chk[c].offer[chk[c].bin].ver # 0
      BY <1>3 DEF Consider, Active
  <2>2. CASE Go(c, "log") /\ UNCHANGED Flags
      BY <1>a, <2>1, <2>2 DEF Onward
  <2>3. CASE Escape(c)
      BY <1>c, <2>1, <2>3
  <2>4. CASE /\ CanUpdate(chk[c].bin, chk[c].offer[chk[c].bin]) /\ Go(c, "mount")
             /\ Exists(lib[IF dev.static THEN "scorbitd" ELSE chk[c].bin]) /\ UNCHANGED Flags
    <3>1. chk[c].bin \in Bins
        BY DEF TypeOK, Checker
    <3>2. Exists(lib[chk[c].bin])
        BY <2>4, <3>1 DEF CanUpdate, CanUpdateSdk, Bins
    <3> QED
        BY <1>0, <2>1, <2>4, <3>2, Zenon DEF Effect, DecideEffect
  <2> QED
      BY <1>3, <2>2, <2>3, <2>4 DEF Consider
<1>4. CASE NotOffered(c) \/ Log(c)
  <2>1. PICK v : Advance(c, v)
      BY <1>4 DEF NotOffered, Log
  <2>2. \/ Turns(c) /\ UNCHANGED <<inProgress, reported>>
        \/ Ends(c) /\ ~inProgress' /\ (reported' => reported \/ chk[c].success)
      BY <2>1, Moved, Zenon
  <2>3. Active(c) /\ UNCHANGED <<announced, overlapped, Files>>
      BY <1>4 DEF NotOffered, Log, Active
  <2> QED
      BY <2>2, <2>3, Zenon DEF Effect, TurnEffect, FinishEffect
<1>5. CASE FsMakeWritable(c)
  <2>1. ASSUME NEW v, chk' = [chk EXCEPT ![c].pc = "download", ![c].mp = v]
        PROVE  Moves(c, "download", chk[c].success)
      BY <2>1, Moved, Zenon
  <2>2. ASSUME NEW v, chk' = [chk EXCEPT ![c].pc = "download", ![c].mp = v],
               UNCHANGED <<Flags, Files>>
        PROVE  Effect(c)
      BY <1>5, <2>1, <2>2 DEF FsMakeWritable, Effect, WalkEffect, Onward
  <2> QED
      BY <1>5, <1>b, <1>c, <2>2 DEF FsMakeWritable, Failing, Active
<1>6. CASE FsRemountReadOnly(c)
    BY <1>0, <1>6, Zenon DEF FsRemountReadOnly, Effect, AnnounceEffect
<1>7. CASE Download(c)
    BY <1>7, <1>a, <1>b, <1>c DEF Download, Onward, Failing, Active
<1>8. CASE Extract(c)
    BY <1>8, <1>a, <1>b DEF Extract, Onward, Failing
<1>9. CASE FindFile(c)
  <2>1. ASSUME NEW f, chk' = [chk EXCEPT ![c].pc = "backup", ![c].new = f]
        PROVE  Moves(c, "backup", chk[c].success)
      BY <2>1, Moved, Zenon
  <2> QED
      BY <1>9, <1>b, <2>1 DEF FindFile, Effect, WalkEffect, Onward, Failing
<1>d. ASSUME RenameNew(c)
      PROVE  /\ \E f \in File : lib' = [lib EXCEPT ![chk[c].bin] = f]
             /\ replaced' = replaced \cup {chk[c].bin}
  <2>1. dir[chk[c].bin] \subseteq File
      BY DEF TypeOK, Checker
  <2> QED
      BY <1>d, <2>1 DEF RenameNew
<1>10. CASE ReplaceBinary(c)
  <2>1. chk[c].pc = "backup" /\ UNCHANGED Flags
      BY <1>10 DEF ReplaceBinary
  <2>2. CASE BackupPosix(c)
    <3>1. CASE RenameNew(c) /\ Return(c, TRUE) /\ UNCHANGED old
        BY <1>0, <1>d, <2>1, <3>1 DEF Effect, PlaceEffect
    <3>2. CASE RenameToOld(chk[c].bin) /\ Go(c, "put")
        BY <1>0, <2>1, <3>2 DEF RenameToOld, Effect, AsideEffect
    <3>3. CASE Fail(c, "clean") /\ UNCHANGED <<disk, replaced>>
        BY <1>b, <2>1, <3>3 DEF Failing
    <3> QED
        BY <2>2, <3>1, <3>2, <3>3 DEF BackupPosix
  <2>3. CASE BackupWindows(c)
    <3>2. CASE RenameToOld(chk[c].bin) /\ Go(c, "put")
        BY <1>0, <2>1, <3>2 DEF RenameToOld, Effect, AsideEffect
    <3>3. CASE Fail(c, "clean") /\ UNCHANGED <<disk, replaced>>
        BY <1>b, <2>1, <3>3 DEF Failing
    <3> QED
        BY <1>0, <2>1, <2>3, <3>2, <3>3 DEF BackupWindows, Effect, ClearEffect, NothingEffect
  <2> QED
      BY <1>10, <2>2, <2>3 DEF ReplaceBinary
<1>11. CASE MoveAside(c)
    BY <1>0, <1>11, <1>b DEF MoveAside, RenameToOld, Effect, AsideEffect, Failing
<1>12. CASE PutInPlace(c)
  <2>1. chk[c].pc = "put" /\ UNCHANGED Flags
      BY <1>12 DEF PutInPlace
  <2>2. CASE RenameNew(c) /\ UNCHANGED old /\ (Return(c, TRUE) \/ Go(c, "unlink"))
      BY <1>0, <1>d, <2>1, <2>2 DEF Effect, PlaceEffect
  <2>3. CASE UNCHANGED <<disk, replaced>> /\ (Fail(c, "clean") \/ Fail(c, "restore"))
      BY <1>b, <2>1, <2>3 DEF Failing
  <2> QED
      BY <1>12, <2>2, <2>3 DEF PutInPlace
<1>13. CASE RemoveBackup(c)
    BY <1>0, <1>13, <1>b DEF RemoveBackup, Effect, UnlinkEffect, Failing
<1>14. CASE Restore(c)
    BY <1>0, <1>14, <1>b DEF Restore, Effect, RestoreEffect, Failing
<1>15. CASE CleanUp(c)
    BY <1>15, <1>a DEF CleanUp, Onward
<1> QED
    BY <1>1, <1>2, <1>3, <1>4, <1>5, <1>6, <1>7, <1>8, <1>9, <1>10, <1>11, <1>12, <1>13, <1>14,
       <1>15
    DEF Step

-----------------------------------------------------------------------------
(* The parts of the invariant *)

\* A step of one checker leaves the others alone.
LEMMA EffectLocal ==
    ASSUME NEW c \in Checkers, Effect(c)
    PROVE  \A d \in Checkers \ {c} : chk'[d] = chk[d]
BY DEF Effect, BeginEffect, FlagEffect, EscapeEffect, FinishEffect, TurnEffect, AnnounceEffect,
       DecideEffect, WalkEffect, FailEffect, NothingEffect, AsideEffect, PlaceEffect, ClearEffect,
       UnlinkEffect, RestoreEffect, Moves, Ends, Turns

LEMMA OfferedStep ==
    ASSUME TypeOK, Offered, NEW c \in Checkers, Effect(c)
    PROVE  Offered'
<1> DEFINE O(r) == r.pc \notin {"idle", "flag", "consider", "log", "clean", "remount"} =>
                      r.offer[r.bin].ver \in Versions
<1>0. \A d \in Checkers : O(chk[d])
    BY DEF Offered
<1>1. O(chk'[c])
  <2>1. CASE DecideEffect(c)
    <3>1. chk[c].offer[chk[c].bin].ver \in Versions
        BY <2>1 DEF DecideEffect, TypeOK, Checker, Offer
    <3> QED
        BY <2>1, <3>1 DEF DecideEffect, Moves
  <2>2. CASE WalkEffect(c)
      BY <1>0, <2>2 DEF WalkEffect, Onward, Moves
  <2>3. CASE FailEffect(c)
      BY <1>0, <2>3 DEF FailEffect, Failing, Moves
  <2>4. CASE BeginEffect(c) \/ FlagEffect(c) \/ EscapeEffect(c) \/ FinishEffect(c) \/ TurnEffect(c)
             \/ AnnounceEffect(c)
      BY <1>0, <2>4 DEF BeginEffect, FlagEffect, EscapeEffect, FinishEffect, TurnEffect,
                        AnnounceEffect, Moves, Ends, Turns
  <2>5. CASE NothingEffect(c) \/ AsideEffect(c) \/ PlaceEffect(c) \/ ClearEffect(c)
             \/ UnlinkEffect(c) \/ RestoreEffect(c)
      BY <1>0, <2>5 DEF NothingEffect, AsideEffect, PlaceEffect, ClearEffect, UnlinkEffect,
                        RestoreEffect, Moves
  <2> QED
      BY <2>1, <2>2, <2>3, <2>4, <2>5 DEF Effect
<1>2. \A d \in Checkers \ {c} : chk'[d] = chk[d]
    BY EffectLocal
<1> QED
    BY <1>0, <1>1, <1>2 DEF Offered

LEMMA AloneStep ==
    ASSUME TypeOK, Alone, NEW c \in Checkers, Effect(c)
    PROVE  Alone'
<1>0. \A d \in Checkers \ {c} : chk'[d] = chk[d]
    BY EffectLocal
<1>1. CASE FlagEffect(c)
    BY <1>0, <1>1 DEF FlagEffect, Alone, Active, Moves
<1>2. CASE EscapeEffect(c)
    BY <1>0, <1>2 DEF EscapeEffect, Alone, Active, Ends
<1>3. CASE FinishEffect(c)
    BY <1>0, <1>3 DEF FinishEffect, Alone, Active, Ends
<1>4. CASE BeginEffect(c)
    BY <1>0, <1>4 DEF BeginEffect, Alone, Active, Flags
<1>5. ASSUME Active(c), Active(c)', UNCHANGED <<inProgress, overlapped>>
      PROVE  Alone'
    BY <1>0, <1>5 DEF Alone, Active
<1>6. CASE TurnEffect(c) \/ AnnounceEffect(c) \/ DecideEffect(c)
    BY <1>5, <1>6 DEF TurnEffect, AnnounceEffect, DecideEffect, Active, Moves, Turns, Flags
<1>7. CASE WalkEffect(c)
    BY <1>5, <1>7 DEF WalkEffect, Onward, Active, Moves, Flags
<1>8. CASE FailEffect(c)
    BY <1>5, <1>8 DEF FailEffect, Failing, Active, Moves, Flags
<1>9. CASE NothingEffect(c) \/ AsideEffect(c) \/ PlaceEffect(c) \/ ClearEffect(c)
           \/ UnlinkEffect(c) \/ RestoreEffect(c)
    BY <1>5, <1>9 DEF NothingEffect, AsideEffect, PlaceEffect, ClearEffect, UnlinkEffect,
                      RestoreEffect, Active, Moves, Flags
<1> QED
    BY <1>1, <1>2, <1>3, <1>4, <1>6, <1>7, <1>8, <1>9 DEF Effect

\* A version is never 0, which tells a file from its absence.
LEMMA FilesExist == \A f \in File : Exists(f)
BY UpdaterAssumption DEF File, Exists, NoFile

\* The stages of c in which the file at its binary's path is there.
Present == {"mount", "download", "extract", "find", "backup", "aside", "unlink"}

LEMMA DiskSafeStep ==
    ASSUME TypeOK, Alone, LibInPlace, BinaryRecoverable,
           NEW c \in Checkers, Effect(c)
    PROVE  LibInPlace' /\ BinaryRecoverable'
<1> DEFINE b == chk[c].bin
<1> SUFFICES ASSUME ~overlapped'
             PROVE  LibInPlace' /\ BinaryRecoverable'
    BY DEF LibInPlace, BinaryRecoverable
<1>0. /\ \A d \in Checkers \ {c} : chk'[d] = chk[d]
      /\ lib \in [Bins -> File \cup {NoFile}] /\ old \in [Bins -> File \cup {NoFile}]
      /\ b \in Bins
    BY EffectLocal DEF TypeOK, Checker
<1>1. ~overlapped
    BY DEF Effect, BeginEffect, FlagEffect, EscapeEffect, FinishEffect, TurnEffect, AnnounceEffect,
           DecideEffect, WalkEffect, FailEffect, NothingEffect, AsideEffect, PlaceEffect,
           ClearEffect, UnlinkEffect, RestoreEffect, Flags
<1>2. /\ chk[c].pc \in Present => Exists(lib[b])
      /\ \A a \in Bins : Exists(lib[a]) \/ Exists(old[a])
      /\ \A d \in Checkers : chk[d].pc \in Present => Exists(lib[chk[d].bin])
    BY <1>1 DEF LibInPlace, BinaryRecoverable, Present
<1>4. \A d \in Checkers \ {c} : Active(c) => chk[d].pc \notin Present
    BY <1>1 DEF Alone, Active, Present
\* It is enough to look at c.
<1>5. ASSUME Active(c), chk'[c].pc \in Present => Exists(lib'[chk'[c].bin]),
             Exists(lib'[b]) \/ Exists(old'[b]),
             \A a \in Bins \ {b} : lib'[a] = lib[a] /\ old'[a] = old[a]
      PROVE  LibInPlace' /\ BinaryRecoverable'
  <2>1. \A a \in Bins : Exists(lib'[a]) \/ Exists(old'[a])
      BY <1>2, <1>5
  <2>2. \A d \in Checkers : chk'[d].pc \in Present => Exists(lib'[chk'[d].bin])
      BY <1>0, <1>4, <1>5
  <2> QED
      BY <2>1, <2>2 DEF LibInPlace, BinaryRecoverable, Present
<1>6. CASE BeginEffect(c) \/ FlagEffect(c) \/ EscapeEffect(c) \/ FinishEffect(c) \/ TurnEffect(c)
           \/ AnnounceEffect(c)
  <2>1. UNCHANGED <<lib, old>>
      BY <1>6 DEF BeginEffect, FlagEffect, EscapeEffect, FinishEffect, TurnEffect, AnnounceEffect,
                  Files
  <2>2. chk' = chk \/ chk'[c].pc \notin Present
      BY <1>6 DEF BeginEffect, FlagEffect, EscapeEffect, FinishEffect, TurnEffect, AnnounceEffect,
                  Moves, Ends, Turns, Present
  <2> QED
      BY <1>0, <1>1, <1>2, <2>1, <2>2 DEF LibInPlace, BinaryRecoverable, Present
<1>7. CASE DecideEffect(c)
    BY <1>0, <1>2, <1>5, <1>7 DEF DecideEffect, Moves, Files, Active
<1>8. CASE WalkEffect(c)
    BY <1>0, <1>2, <1>5, <1>8 DEF WalkEffect, Onward, Moves, Files, Active, Present
<1>9. CASE FailEffect(c)
    BY <1>0, <1>2, <1>5, <1>9 DEF FailEffect, Failing, Moves, Files, Active, Present
<1>10. CASE NothingEffect(c)
    BY <1>2, <1>10 DEF NothingEffect, Present
<1>11. CASE AsideEffect(c)
    BY <1>0, <1>2, <1>5, <1>11 DEF AsideEffect, Moves, Active, Present
<1>12. CASE PlaceEffect(c)
    BY <1>0, <1>2, <1>5, <1>12, FilesExist DEF PlaceEffect, Moves, Active, Present
<1>13. CASE ClearEffect(c)
    BY <1>0, <1>2, <1>5, <1>13 DEF ClearEffect, Moves, Active, Present
<1>14. CASE UnlinkEffect(c)
    BY <1>0, <1>2, <1>5, <1>14 DEF UnlinkEffect, Moves, Active, Present
<1>15. CASE RestoreEffect(c)
    BY <1>0, <1>2, <1>5, <1>15 DEF RestoreEffect, Moves, Active, Present
<1> QED
    BY <1>6, <1>7, <1>8, <1>9, <1>10, <1>11, <1>12, <1>13, <1>14, <1>15 DEF Effect

LEMMA SuccessStep ==
    ASSUME TypeOK, SuccessIsReal, NEW c \in Checkers, Effect(c)
    PROVE  SuccessIsReal'
<1> DEFINE Real(r, in) == /\ r.success => in # {}
                          /\ r.pc = "unlink" => r.bin \in in
                          /\ r.pc \in {"clean", "remount"} /\ r.success => r.bin \in in
<1>0. \A d \in Checkers : Real(chk[d], replaced)
    BY DEF SuccessIsReal
<1>1. replaced \subseteq replaced'
    BY DEF Effect, BeginEffect, FlagEffect, EscapeEffect, FinishEffect, TurnEffect, AnnounceEffect,
           DecideEffect, WalkEffect, FailEffect, NothingEffect, AsideEffect, PlaceEffect,
           ClearEffect, UnlinkEffect, RestoreEffect, Files
<1>2. Real(chk'[c], replaced')
  <2>0. Real(chk[c], replaced')
      BY <1>0, <1>1
  <2>1. CASE BeginEffect(c) \/ FlagEffect(c) \/ EscapeEffect(c) \/ FinishEffect(c)
             \/ TurnEffect(c)
      BY <2>0, <2>1 DEF BeginEffect, FlagEffect, EscapeEffect, FinishEffect, TurnEffect, Moves,
                        Ends, Turns
  <2>2. CASE AnnounceEffect(c) \/ DecideEffect(c) \/ NothingEffect(c) \/ AsideEffect(c)
             \/ ClearEffect(c)
      BY <2>0, <2>2 DEF AnnounceEffect, DecideEffect, NothingEffect, AsideEffect, ClearEffect, Moves
  <2>3. CASE WalkEffect(c)
      BY <2>0, <2>3 DEF WalkEffect, Onward, Moves
  <2>4. CASE FailEffect(c)
      BY <2>0, <2>4 DEF FailEffect, Failing, Moves
  <2>5. CASE PlaceEffect(c) \/ UnlinkEffect(c) \/ RestoreEffect(c)
      BY <2>0, <2>5 DEF PlaceEffect, UnlinkEffect, RestoreEffect, Moves
  <2> QED
      BY <2>1, <2>2, <2>3, <2>4, <2>5 DEF Effect
<1>3. \A d \in Checkers \ {c} : chk'[d] = chk[d]
    BY EffectLocal
<1> QED
    BY <1>0, <1>1, <1>2, <1>3 DEF SuccessIsReal

LEMMA ReportStep ==
    ASSUME SuccessIsReal, ReportTruthful, NEW c \in Checkers, Effect(c)
    PROVE  ReportTruthful'
<1>1. CASE FinishEffect(c)
    BY <1>1 DEF FinishEffect, SuccessIsReal, ReportTruthful, Files
<1>2. CASE AnnounceEffect(c)
    BY <1>2 DEF AnnounceEffect, SuccessIsReal, ReportTruthful, Files
<1>3. CASE PlaceEffect(c)
    BY <1>3 DEF PlaceEffect, ReportTruthful, Flags
<1>4. CASE BeginEffect(c) \/ FlagEffect(c) \/ EscapeEffect(c) \/ TurnEffect(c) \/ DecideEffect(c)
           \/ WalkEffect(c) \/ FailEffect(c) \/ NothingEffect(c) \/ AsideEffect(c)
           \/ ClearEffect(c) \/ UnlinkEffect(c) \/ RestoreEffect(c)
  <2>1. UNCHANGED <<reported, announced, replaced>>
      BY <1>4, Zenon
      DEF BeginEffect, FlagEffect, EscapeEffect, TurnEffect, DecideEffect, WalkEffect, FailEffect,
          NothingEffect, AsideEffect, ClearEffect, UnlinkEffect, RestoreEffect, Flags, Files
  <2> QED
      BY <2>1, Zenon DEF ReportTruthful
<1> QED
    BY <1>1, <1>2, <1>3, <1>4 DEF Effect

-----------------------------------------------------------------------------
(* The series of the SDK *)

\* A file at the library's path or its backup was at one of them or in UPDATE_DIR, and
\* what comes there is what the checker has decided on.
LEMMA SdkFiles ==
    ASSUME TypeOK, NEW c \in Checkers, Step(c)
    PROVE  /\ {lib'["sdk"], old'["sdk"]} \subseteq {lib["sdk"], old["sdk"], NoFile} \cup dir["sdk"]
           /\ \A f \in dir'["sdk"] : \/ f \in dir["sdk"]
                                    \/ /\ chk[c].pc = "extract" /\ chk[c].bin = "sdk"
                                       /\ f.ver = chk[c].offer["sdk"].ver
<1> USE DEF disk
<1>0. "sdk" \in Bins /\ chk[c].bin \in Bins
    BY DEF TypeOK, Checker, Bins
<1>1. CASE Extract(c)
  <2> DEFINE b == chk[c].bin
             with(x) == {g \in dir[b] : g.ver # x.ver} \cup {x}
             f(w) == [ver |-> chk[c].offer[b].ver, whole |-> w]
  <2>1. dir' = dir \/ \E w \in BOOLEAN : dir' = [dir EXCEPT ![b] = with(f(w))]
      BY <1>1, Zenon DEF Extract
  <2>2. UNCHANGED <<lib, old>> /\ chk[c].pc = "extract"
      BY <1>1 DEF Extract, At
  <2>3. ASSUME NEW w \in BOOLEAN, dir' = [dir EXCEPT ![b] = with(f(w))], NEW g \in dir'["sdk"],
               g \notin dir["sdk"]
        PROVE  b = "sdk" /\ g.ver = chk[c].offer["sdk"].ver
    <3>1. dir \in [Bins -> SUBSET File]
        BY DEF TypeOK
    <3>2. b = "sdk"
        BY <1>0, <2>3, <3>1
    <3>3. g = f(w)
        BY <1>0, <2>3, <3>1, <3>2
    <3> QED BY <3>2, <3>3
  <2> QED
      BY <2>1, <2>2, <2>3
<1>2. CASE ReplaceBinary(c) \/ MoveAside(c) \/ PutInPlace(c)
  <2>0. /\ lib \in [Bins -> File \cup {NoFile}] /\ old \in [Bins -> File \cup {NoFile}]
        /\ dir \in [Bins -> SUBSET File]
      BY DEF TypeOK
  <2>1. CASE RenameToOld(chk[c].bin)
      BY <1>0, <2>0, <2>1 DEF RenameToOld
  <2>2. CASE RenameNew(c) /\ UNCHANGED old
      BY <1>0, <2>0, <2>2 DEF RenameNew
  <2>3. CASE UNCHANGED <<disk, replaced>>
      BY <2>3
  <2>4. CASE ReplaceBinary(c) /\ ~RenameToOld(chk[c].bin) /\ ~(RenameNew(c) /\ UNCHANGED old)
      BY <1>0, <2>0, <2>4 DEF ReplaceBinary, BackupPosix, BackupWindows
  <2> QED
      BY <1>2, <2>1, <2>2, <2>3, <2>4 DEF MoveAside, PutInPlace
<1>3. CASE RemoveBackup(c) \/ Restore(c) \/ CleanUp(c)
    BY <1>0, <1>3 DEF RemoveBackup, Restore, CleanUp, TypeOK
<1>4. CASE Check(c) \/ SetFlag(c) \/ Consider(c) \/ NotOffered(c) \/ Log(c) \/ FsMakeWritable(c)
           \/ FsRemountReadOnly(c) \/ Download(c) \/ FindFile(c)
    BY <1>4 DEF Check, SetFlag, Consider, NotOffered, Log, FsMakeWritable, FsRemountReadOnly,
                Download, FindFile
<1> QED
    BY <1>1, <1>2, <1>3, <1>4 DEF Step

\* The decision is the only way to the download.
LEMMA DecidedWell ==
    ASSUME TypeOK, SdkInSeries, NEW c \in Checkers, Step(c), DecideEffect(c), chk[c].bin = "sdk"
    PROVE  InSeries(chk[c].offer["sdk"].ver)
<1>1. chk[c].pc = "consider" /\ chk'[c].pc = "mount"
    BY DEF DecideEffect, Moves
<1>2. Consider(c)
  <2>1. \A pc : At(c, pc) => pc = "consider"
      BY <1>1 DEF At
  <2>2. ~NotOffered(c)
      BY DEF NotOffered, DecideEffect
  <2> QED
      BY <2>1, <2>2 DEF Step, Check, SetFlag, Log, FsMakeWritable, FsRemountReadOnly, Download,
                       Extract, FindFile, ReplaceBinary, MoveAside, PutInPlace, RemoveBackup,
                       Restore, CleanUp
<1>3. \/ CanUpdate("sdk", chk[c].offer["sdk"])
      \/ Go(c, "log") \/ Escape(c)
    BY <1>2 DEF Consider
<1>4. ~Go(c, "log") /\ ~Escape(c)
  <2>1. (Go(c, "log") => chk'[c].pc = "log") /\ (Escape(c) => chk'[c].pc = "idle")
      BY Moved, Zenon DEF Moves, Ends
  <2> QED
      BY <1>1, <2>1
<1>5. CanUpdateSdk(chk[c].offer["sdk"])
    BY <1>3, <1>4 DEF CanUpdate
<1>6. SdkUpdatable /\ Series(chk[c].offer["sdk"].ver) = Series(running["sdk"])
    BY <1>5 DEF CanUpdateSdk, SdkPrerequisites, IsSdkVersionCompatible, SdkUpdatable
<1> QED
    BY <1>6 DEF SdkInSeries, InSeries

LEMMA SeriesStep ==
    ASSUME TypeOK, SdkInSeries, NEW c \in Checkers, Step(c), Effect(c)
    PROVE  SdkInSeries'
<1>1. dev' = dev /\ running' = running
    BY Zenon
    DEF Step, Check, SetFlag, Consider, NotOffered, Log, FsMakeWritable, FsRemountReadOnly,
        Download, Extract, FindFile, ReplaceBinary, MoveAside, PutInPlace, RemoveBackup, Restore,
        CleanUp
<1>2. \A v : InSeries(v)' <=> InSeries(v)
    BY <1>1 DEF InSeries, SdkUpdatable, IsPlatformIdValid, IsBinaryObjectValid, IsEncryptedKeyValid
<1> DEFINE Chosen(r) == r.pc \in {"mount", "download", "extract"} /\ r.bin = "sdk" =>
                           InSeries(r.offer["sdk"].ver)
<1>3. \A d \in Checkers : Chosen(chk[d])
    BY DEF SdkInSeries
<1>4. Chosen(chk'[c])
  <2>1. CASE DecideEffect(c)
      BY <2>1, DecidedWell DEF DecideEffect, Moves
  <2>2. CASE WalkEffect(c)
    <3>1. PICK p \in Onward : chk[c].pc = p[1] /\ Moves(c, p[2], chk[c].success)
        BY <2>2 DEF WalkEffect
    <3>2. chk'[c].pc = p[2] /\ chk'[c].bin = chk[c].bin /\ chk'[c].offer = chk[c].offer
        BY <3>1 DEF Moves
    <3>3. p[2] \in {"mount", "download", "extract"} => p[1] \in {"mount", "download", "extract"}
        BY DEF Onward
    <3> QED
        BY <1>3, <3>1, <3>2, <3>3
  <2>3. CASE FailEffect(c)
      BY <1>3, <2>3 DEF FailEffect, Failing, Moves
  <2>4. CASE BeginEffect(c) \/ FlagEffect(c) \/ EscapeEffect(c) \/ FinishEffect(c) \/ TurnEffect(c)
             \/ AnnounceEffect(c)
      BY <1>3, <2>4 DEF BeginEffect, FlagEffect, EscapeEffect, FinishEffect, TurnEffect,
                        AnnounceEffect, Moves, Ends, Turns
  <2>5. CASE NothingEffect(c) \/ AsideEffect(c) \/ PlaceEffect(c) \/ ClearEffect(c)
             \/ UnlinkEffect(c) \/ RestoreEffect(c)
      BY <2>5 DEF NothingEffect, AsideEffect, PlaceEffect, ClearEffect, UnlinkEffect,
                  RestoreEffect, Moves
  <2> QED
      BY <2>1, <2>2, <2>3, <2>4, <2>5 DEF Effect
<1>5. \A d \in Checkers : Chosen(chk'[d])
    BY <1>3, <1>4, EffectLocal
<1>6. \A f \in dir'["sdk"] : InSeries(f.ver)
    BY <1>3, SdkFiles DEF SdkInSeries
<1>7. \A f \in {lib'["sdk"], old'["sdk"]} : Exists(f) => InSeries(f.ver)
  <2>1. \A f \in {lib["sdk"], old["sdk"], NoFile} \cup dir["sdk"] : Exists(f) => InSeries(f.ver)
      BY DEF SdkInSeries, SdkStaysInSeries, InSeries, Exists
  <2> QED
      BY <2>1, SdkFiles
<1>8. SdkStaysInSeries'
  <2>1. \A f \in {lib'["sdk"], old'["sdk"]} : Exists(f) => InSeries(f.ver)'
      BY <1>2, <1>7
  <2> QED
      BY <2>1 DEF SdkStaysInSeries, InSeries
<1>9. InSeries(running["sdk"])'
    BY <1>1, <1>2 DEF SdkInSeries
<1> QED
    BY <1>2, <1>5, <1>6, <1>8, <1>9 DEF SdkInSeries

-----------------------------------------------------------------------------
(* The invariant and what it is for *)

LEMMA InitIInv == Init => IInv
<1> SUFFICES ASSUME Init PROVE IInv
    OBVIOUS
<1>1. TypeOK
    BY InitTypeOK
<1>2. Offered /\ LibInPlace
    BY DEF Init, Offered, LibInPlace, Idle
<1>3. BinaryRecoverable
    BY UpdaterAssumption DEF Init, BinaryRecoverable, Exists, NoFile
<1>4. Alone
    BY DEF Init, Alone, Active, Idle
<1>6. SdkInSeries
  <2>1. "sdk" \in Bins
      BY DEF Bins
  <2>2. InSeries(FirstVersion)
      BY DEF InSeries
  <2>3. /\ lib["sdk"].ver = FirstVersion /\ old["sdk"] = NoFile /\ dir["sdk"] = {}
        /\ running["sdk"] = FirstVersion /\ \A c \in Checkers : chk[c].pc = "idle"
      BY <2>1 DEF Init, Idle
  <2> QED
      BY <2>2, <2>3 DEF SdkInSeries, SdkStaysInSeries, InSeries, Exists
<1>5. SuccessIsReal /\ ReportTruthful
    BY DEF Init, SuccessIsReal, ReportTruthful, Idle
<1> QED
    BY <1>1, <1>2, <1>3, <1>4, <1>5, <1>6 DEF IInv

\* The process is started again with every binary in place and no check under way.
LEMMA RestartIInv ==
    ASSUME IInv, Restart
    PROVE  Offered' /\ Alone' /\ SdkInSeries' /\ LibInPlace' /\ BinaryRecoverable'
           /\ SuccessIsReal' /\ ReportTruthful'
<1>1. \A c \in Checkers : chk'[c].pc = "idle" /\ chk'[c].success = FALSE
    BY DEF Restart, Idle
<1>2. ~inProgress' /\ ~reported' /\ ~announced'
    BY Zenon DEF Restart
<1>3. UNCHANGED <<lib, old, overlapped>>
    BY DEF Restart, disk
<1>4. Offered' /\ LibInPlace' /\ SuccessIsReal'
    BY <1>1 DEF Offered, LibInPlace, SuccessIsReal
<1>5. Alone' /\ ReportTruthful'
    BY <1>1, <1>2 DEF Alone, ReportTruthful, Active
<1>6. BinaryRecoverable'
    BY <1>3 DEF IInv, BinaryRecoverable
<1>7. SdkInSeries'
  <2>1. "sdk" \in Bins
      BY DEF Bins
  <2>2. /\ UNCHANGED <<dev, lib, old, dir>> /\ running'["sdk"] = lib["sdk"].ver
        /\ Exists(lib["sdk"])
      BY <2>1 DEF Restart, disk
  <2>3. \A v : InSeries(v)' <=> InSeries(v)
      BY <2>2 DEF InSeries, SdkUpdatable, IsPlatformIdValid, IsBinaryObjectValid,
                  IsEncryptedKeyValid
  <2>4. SdkStaysInSeries' /\ InSeries(lib["sdk"].ver)
      BY <2>2, <2>3 DEF IInv, SdkInSeries, SdkStaysInSeries, InSeries
  <2> QED
      BY <1>1, <2>2, <2>3, <2>4 DEF IInv, SdkInSeries
<1> QED
    BY <1>4, <1>5, <1>6, <1>7

LEMMA NextIInv == IInv /\ [Next]_vars => IInv'
<1> SUFFICES ASSUME IInv, [Next]_vars PROVE IInv'
    OBVIOUS
<1>1. TypeOK'
    BY TypeStep DEF IInv
<1>2. CASE UNCHANGED vars
  <2>1. Offered' /\ Alone' /\ LibInPlace' /\ BinaryRecoverable' /\ SuccessIsReal'
        /\ ReportTruthful'
      BY <1>2 DEF vars, IInv, Offered, Alone, LibInPlace, BinaryRecoverable, SuccessIsReal,
                  ReportTruthful, Active
  <2>2. SdkInSeries'
      BY <1>2 DEF vars, IInv, SdkInSeries, SdkStaysInSeries, InSeries, SdkUpdatable,
                  IsPlatformIdValid, IsBinaryObjectValid, IsEncryptedKeyValid
  <2> QED
      BY <1>1, <2>1, <2>2 DEF IInv
<1>3. CASE Restart
    BY <1>1, <1>3, RestartIInv DEF IInv
<1>4. ASSUME NEW c \in Checkers, Step(c) PROVE IInv'
  <2>1. Effect(c)
      BY <1>4, StepEffect DEF IInv
  <2> QED
      BY <1>1, <1>4, <2>1, OfferedStep, AloneStep, SeriesStep, DiskSafeStep, SuccessStep,
         ReportStep
      DEF IInv
<1> QED
    BY <1>2, <1>3, <1>4 DEF Next

\* The inductive invariant of the checks and of the disk, through failures and restarts.
THEOREM Invariance == Spec => []IInv
BY InitIInv, NextIInv, PTL DEF Spec

\* Whichever rename, removal or write fails or is interrupted by a crash, in whatever
\* order of checks, the binary stays at its path or at its backup unless checks overlap.
THEOREM UpdateKeepsABinary == Spec => []BinaryRecoverable
<1>1. IInv => BinaryRecoverable
    BY DEF IInv
<1> QED
    BY <1>1, Invariance, PTL

\* No sequence of checks, overlapping or not, of crashes and of restarts takes the SDK's
\* library out of its series x.y, or changes one that the device must not update.
THEOREM SdkNeverLeavesSeries == Spec => []SdkStaysInSeries
<1>1. IInv => SdkStaysInSeries
    BY DEF IInv, SdkInSeries
<1> QED
    BY <1>1, Invariance, PTL

\* updateConfig and the event about scorbitd report nothing that has not happened.
THEOREM ReportsAreTrue == Spec => []ReportTruthful
<1>1. IInv => ReportTruthful
    BY DEF IInv
<1> QED
    BY <1>1, Invariance, PTL

=============================================================================
