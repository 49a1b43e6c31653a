----------------------------- MODULE CableProofs -----------------------------
(***************************************************************************)
(* Theorems about Cable, for any ports, probes, TPMs and bounds.           *)
(***************************************************************************)
EXTENDS Cable, SequenceTheorems, TLAPS

Actors == Users \cup {Key}
Slots == {"own", "tmp"}

-----------------------------------------------------------------------------
(* Sequences *)

\* s has no elements but those of t.
From(s, t) == \A i \in DOMAIN s : \E j \in DOMAIN t : s[i] = t[j]

LEMMA TailFrom ==
    ASSUME NEW X, NEW s \in Seq(X), s # <<>>
    PROVE  Tail(s) \in Seq(X) /\ From(Tail(s), s) /\ Head(s) \in X /\ Head(s) = s[1] /\ 1 \in DOMAIN s
<1>1. PICK n : n = Len(s)
    OBVIOUS
<1>2. PICK t : t = Tail(s)
    OBVIOUS
<1>3. /\ t \in Seq(X) /\ n \in Nat /\ n >= 1 /\ DOMAIN s = 1..n /\ DOMAIN t = 1..(n - 1)
      /\ \A i \in 1..(n - 1) : t[i] = s[i + 1]
      /\ Head(s) \in X /\ Head(s) = s[1]
    BY <1>1, <1>2
<1>4. \A i \in DOMAIN t : i + 1 \in DOMAIN s /\ t[i] = s[i + 1]
    BY <1>3
<1>5. 1 \in DOMAIN s
    BY <1>3
<1> QED BY <1>2, <1>3, <1>4, <1>5 DEF From

LEMMA Appended ==
    ASSUME NEW X, NEW s \in Seq(X), NEW e \in X
    PROVE  /\ Append(s, e) \in Seq(X)
           /\ \A i \in DOMAIN Append(s, e) :
                 Append(s, e)[i] = e \/ \E j \in DOMAIN s : Append(s, e)[i] = s[j]
<1>1. PICK n : n = Len(s)
    OBVIOUS
<1>2. PICK t : t = Append(s, e)
    OBVIOUS
<1>3. /\ t \in Seq(X) /\ n \in Nat /\ DOMAIN s = 1..n /\ DOMAIN t = 1..(n + 1)
      /\ \A i \in 1..n : t[i] = s[i]
      /\ t[n + 1] = e
    BY <1>1, <1>2
<1>4. \A i \in DOMAIN t : i \in DOMAIN s \/ i = n + 1
    BY <1>3
<1> QED BY <1>2, <1>3, <1>4

\* t has the elements of s and r.
FromEither(t, s, r) ==
    \A i \in DOMAIN t : (\E j \in DOMAIN s : t[i] = s[j]) \/ (\E j \in DOMAIN r : t[i] = r[j])

LEMMA Joined ==
    ASSUME NEW X, NEW s \in Seq(X), NEW r \in Seq(X), NEW t, t = s \o r
    PROVE  t \in Seq(X) /\ FromEither(t, s, r)
<1>1. PICK n : n = Len(s)
    OBVIOUS
<1>2. PICK m : m = Len(r)
    OBVIOUS
<1>4. /\ t \in Seq(X) /\ n \in Nat /\ m \in Nat /\ DOMAIN s = 1..n /\ DOMAIN r = 1..m
      /\ DOMAIN t = 1..(n + m)
      /\ \A i \in 1..(n + m) : t[i] = IF i <= n THEN s[i] ELSE r[i - n]
    BY <1>1, <1>2
<1>5. ASSUME NEW i \in DOMAIN t
      PROVE  (\E j \in DOMAIN s : t[i] = s[j]) \/ (\E j \in DOMAIN r : t[i] = r[j])
  <2>1. CASE i <= n
    <3>1. i \in DOMAIN s /\ t[i] = s[i]
        BY <1>4, <1>5, <2>1
    <3> QED BY <3>1
  <2>2. CASE ~(i <= n)
    <3>1. i - n \in DOMAIN r /\ t[i] = r[i - n]
        BY <1>4, <1>5, <2>2
    <3> QED BY <3>1
  <2> QED BY <2>1, <2>2
<1> QED BY <1>4, <1>5 DEF FromEither

LEMMA RemovedFrom ==
    ASSUME NEW s \in Seq(Unit), NEW k \in DOMAIN s
    PROVE  RemoveAt(s, k) \in Seq(Unit) /\ From(RemoveAt(s, k), s)
<1>1. PICK n : n = Len(s)
    OBVIOUS
<1>2. n \in Nat /\ k \in 1..n /\ DOMAIN s = 1..n
    BY <1>1
<1>3. PICK a : a = SubSeq(s, 1, k - 1)
    OBVIOUS
<1>4. PICK z : z = SubSeq(s, k + 1, n)
    OBVIOUS
<1>5. a \in Seq(Unit) /\ DOMAIN a = 1..(k - 1) /\ \A i \in 1..(k - 1) : a[i] = s[i]
    BY <1>1, <1>2, <1>3
<1>6. z \in Seq(Unit) /\ DOMAIN z = 1..(n - k) /\ \A i \in 1..(n - k) : z[i] = s[i + k]
    BY <1>1, <1>2, <1>4
<1>7. PICK d : d = RemoveAt(s, k)
    OBVIOUS
<1>8. d = a \o z
    BY <1>1, <1>3, <1>4, <1>7 DEF RemoveAt
<1>9. d \in Seq(Unit) /\ FromEither(d, a, z)
    BY <1>5, <1>6, <1>8, Joined
<1>10. \A j \in DOMAIN a : j \in DOMAIN s /\ a[j] = s[j]
    BY <1>2, <1>5
<1>11. \A j \in DOMAIN z : j + k \in DOMAIN s /\ z[j] = s[j + k]
    BY <1>2, <1>6
<1> QED BY <1>7, <1>9, <1>10, <1>11 DEF From, FromEither

LEMMA EmptySeqOf == ASSUME NEW X PROVE <<>> \in Seq(X) /\ DOMAIN <<>> = {}
OBVIOUS

-----------------------------------------------------------------------------
(* Whose a reply is, and whom it names *)

AllBy(s, p) == \A i \in DOMAIN s : s[i].by = p

\* An answer to `infos' names the device at port q.
HereOn(s, q, places) ==
    \A i \in DOMAIN s : s[i].size = 1 => s[i].val \in Devices /\ places[s[i].val] = q

LEMMA FromKeeps ==
    ASSUME NEW s, NEW t, From(s, t)
    PROVE  /\ \A p : AllBy(t, p) => AllBy(s, p)
           /\ \A q, places : HereOn(t, q, places) => HereOn(s, q, places)
BY DEF From, AllBy, HereOn

LEMMA EmptyKeeps ==
    /\ \A p : AllBy(<<>>, p)
    /\ \A q, places : HereOn(<<>>, q, places)
BY DEF AllBy, HereOn

LEMMA OrphanUnits ==
    ASSUME NEW s \in Seq(Unit), NEW p \in Users
    PROVE  /\ Orphan(s, p) \in Seq(Unit)
           /\ \A o : o # p /\ AllBy(s, o) => AllBy(Orphan(s, p), o)
           /\ \A q, places : HereOn(s, q, places) => HereOn(Orphan(s, p), q, places)
<1>1. PICK n : n = Len(s)
    OBVIOUS
<1>2. n \in Nat /\ DOMAIN s = 1..n /\ \A i \in 1..n : s[i] \in Unit
    BY <1>1
<1>3. PICK t : t = Orphan(s, p)
    OBVIOUS
<1>4. /\ DOMAIN t = 1..n
      /\ \A i \in 1..n : t[i] = IF s[i].by = p THEN [s[i] EXCEPT !.by = None] ELSE s[i]
    BY <1>2, <1>3 DEF Orphan
<1>5. ASSUME NEW i \in 1..n
      PROVE  /\ t[i] \in Unit /\ t[i].val = s[i].val /\ t[i].size = s[i].size
             /\ s[i].by # p => t[i].by = s[i].by
  <2>1. s[i] \in Unit
      BY <1>2
  <2> QED BY <1>4, <2>1 DEF Unit
<1>6. t \in Seq(Unit)
  <2>1. t \in [1..n -> Unit]
    <3>1. t = [i \in 1..n |-> IF s[i].by = p THEN [s[i] EXCEPT !.by = None] ELSE s[i]]
        BY <1>2, <1>3 DEF Orphan
    <3>2. \A i \in 1..n : (IF s[i].by = p THEN [s[i] EXCEPT !.by = None] ELSE s[i]) \in Unit
        BY <1>4, <1>5
    <3> QED BY <3>1, <3>2
  <2> QED BY <1>2, <2>1
<1> QED BY <1>2, <1>3, <1>4, <1>5, <1>6 DEF AllBy, HereOn

LEMMA OrphanRequests ==
    ASSUME NEW s \in Seq(Request), NEW p \in Users
    PROVE  /\ Orphan(s, p) \in Seq(Request)
           /\ \A o : o # p /\ AllBy(s, o) => AllBy(Orphan(s, p), o)
<1>1. PICK n : n = Len(s)
    OBVIOUS
<1>2. n \in Nat /\ DOMAIN s = 1..n /\ \A i \in 1..n : s[i] \in Request
    BY <1>1
<1>3. PICK t : t = Orphan(s, p)
    OBVIOUS
<1>4. /\ DOMAIN t = 1..n
      /\ \A i \in 1..n : t[i] = IF s[i].by = p THEN [s[i] EXCEPT !.by = None] ELSE s[i]
    BY <1>2, <1>3 DEF Orphan
<1>5. ASSUME NEW i \in 1..n
      PROVE  t[i] \in Request /\ (s[i].by # p => t[i].by = s[i].by)
  <2>1. s[i] \in Request
      BY <1>2
  <2> QED BY <1>4, <2>1 DEF Request
<1>6. t \in Seq(Request)
  <2>1. t \in [1..n -> Request]
    <3>1. t = [i \in 1..n |-> IF s[i].by = p THEN [s[i] EXCEPT !.by = None] ELSE s[i]]
        BY <1>2, <1>3 DEF Orphan
    <3>2. \A i \in 1..n : (IF s[i].by = p THEN [s[i] EXCEPT !.by = None] ELSE s[i]) \in Request
        BY <1>4, <1>5
    <3> QED BY <3>1, <3>2
  <2> QED BY <1>2, <2>1
<1> QED BY <1>2, <1>3, <1>4, <1>5, <1>6 DEF AllBy

\* What a device answers, of which a unit may be lost.
LEMMA Replied ==
    ASSUME NEW d \in Devices, NEW c \in Commands, NEW by \in Users \cup {None}
    PROVE  /\ Reply(d, c, by) \in Seq(Unit)
           /\ \A i \in DOMAIN Reply(d, c, by) :
                 /\ Reply(d, c, by)[i].by = by
                 /\ Reply(d, c, by)[i].size = 1 => Reply(d, c, by)[i].val = d
<1>1. PICK val : val = CASE c = "infos" -> d [] c = "nfc" -> IF d \in tag THEN "tag" ELSE "reader"
                         [] OTHER -> None
    OBVIOUS
<1>2. PICK n : n = Count(c)
    OBVIOUS
<1>3. n \in 0..2 /\ (n = 1 => val = d) /\ val \in Values
    BY <1>1, <1>2 DEF Count, Commands, Reads, Values
<1> DEFINE U(part) == [by |-> by, part |-> part, val |-> val, size |-> n]
<1>4. \A part \in {"head", "data", "crc"} :
          U(part) \in Unit /\ U(part).by = by /\ U(part).size = n /\ U(part).val = val
    BY <1>3 DEF Unit
<1>5. PICK h : h = U("head")
    OBVIOUS
<1>6. PICK u : u = U("data")
    OBVIOUS
<1>7. PICK e : e = U("crc")
    OBVIOUS
<1>8. PICK b : b = [i \in 1..n |-> u]
    OBVIOUS
<1>9. Reply(d, c, by) = <<h>> \o b \o <<e>>
    BY <1>1, <1>2, <1>5, <1>6, <1>7, <1>8 DEF Reply
<1>10. h \in Unit /\ u \in Unit /\ e \in Unit
    BY <1>4, <1>5, <1>6, <1>7
<1>11. \A x \in {h, u, e} : x.by = by /\ (x.size = 1 => x.val = d)
    BY <1>3, <1>4, <1>5, <1>6, <1>7
<1> HIDE DEF U
<1>12. <<h>> \in Seq(Unit) /\ <<e>> \in Seq(Unit) /\ \A i \in DOMAIN <<h>> : <<h>>[i] = h
    BY <1>10
<1>13. \A i \in DOMAIN <<e>> : <<e>>[i] = e
    OBVIOUS
<1>14. b \in Seq(Unit) /\ \A i \in DOMAIN b : b[i] = u
  <2>1. b \in [1..n -> Unit] /\ n \in Nat
      BY <1>3, <1>8, <1>10
  <2> QED BY <1>8, <2>1
<1>15. PICK a : a = <<h>> \o b
    OBVIOUS
<1>16. a \in Seq(Unit) /\ \A i \in DOMAIN a : a[i] \in {h, u}
    BY <1>12, <1>14, <1>15, Joined DEF FromEither
<1>17. PICK z : z = a \o <<e>>
    OBVIOUS
<1>18. z \in Seq(Unit) /\ \A i \in DOMAIN z : z[i] \in {h, u, e}
    BY <1>12, <1>13, <1>16, <1>17, Joined DEF FromEither
<1>19. z = Reply(d, c, by)
    BY <1>9, <1>15, <1>17
<1> QED BY <1>11, <1>18, <1>19

-----------------------------------------------------------------------------
(* The invariant *)

Active == {"flush", "write", "head", "data", "crc"}

\* No two devices are at one port; an open cable has a device at its end.
Distinct == \A c, d \in Devices : at[c] = at[d] /\ at[c] # 0 => c = d
Attended == \A p \in Users : \A s \in Slots : fd[p][s] \in Ports => fd[p][s] \in ListUsbDevices

\* A command holds the lock of its port, and its cable leads there until the device leaves.
Held(p) ==
    job[p].phase \in Active =>
        /\ job[p].port \in Ports /\ lock[job[p].port] = p
        /\ Cable(p) \in {job[p].port, Dead}

\* What p has read answers its own command, if that found nothing of others, ...
GotOwn(p) == job[p].quiet => AllBy(job[p].got, p)

\* ... and so does what the device and the line still have.
OwnAt(p, q) ==
    /\ \A d \in Devices : at[d] = q => AllBy(inbox[d], p)
    /\ job[p].phase # "flush" => AllBy(line[q], p)

Own(p) == job[p].phase \in Active /\ job[p].quiet /\ Cable(p) # Dead => OwnAt(p, job[p].port)

Mine(p) == Held(p) /\ GotOwn(p) /\ Own(p)

\* The answers to `infos' in a line name the device at its port.
AllHere == \A q \in Ports : HereOn(line[q], q, at)

\* Those the tool has read name the device at its cable, unless that has left.
Named(val) == fd[Tool]["own"] = Dead \/ (fd[Tool]["own"] \in Ports /\ val \in Devices
                                         /\ at[val] = fd[Tool]["own"])
Heard == \A i \in DOMAIN job[Tool].got : job[Tool].got[i].size = 1 => Named(job[Tool].got[i].val)

\* The probe found again is at the tool's cable.
Regained(want) == \E d \in Nfc : Named(d) /\ (d = want \/ want \in Unnumbered)

ToolInv ==
    /\ job[Tool].slot = "own"
    /\ job[Tool].phase \in Active \/ (job[Tool].phase = "run" /\ job[Tool].step = "sought") => Heard
    /\ job[Tool].step \in {"sought", "identified"} => job[Tool].cmd = "infos"
    /\ job[Tool].step \in {"sought", "identified"} /\ job[Tool].phase = "run" /\ job[Tool].ok =>
           1 \in DOMAIN job[Tool].got /\ job[Tool].got[1].size = 1
    /\ job[Tool].step = "found" => /\ job[Tool].phase = "run"
                                   /\ job[Tool].want # None => Regained(job[Tool].want)

KeyRuns == job[Key].phase = "run"

SharedType ==
    /\ at \in [Devices -> Ports \cup {0}]
    /\ inbox \in [Devices -> Seq(Request)]
    /\ line \in [Ports -> Seq(Unit)]
    /\ lock \in [Ports -> Users \cup {None}]
    /\ fd \in [Users -> [Slots -> Ports \cup {Closed, Dead}]]
    /\ job \in [Actors -> Job]

Safe == SharedType /\ Distinct /\ Attended /\ (\A p \in Users : Mine(p)) /\ AllHere /\ KeyRuns

IInv == TypeOK /\ Safe /\ ToolInv

-----------------------------------------------------------------------------
(* Steps of an actor *)

\* The parts of the state that the actors share, after a step of p.
LineKeeps(p) ==
    \A q \in Ports : /\ line'[q] \in Seq(Unit)
                     /\ HereOn(line[q], q, at) => HereOn(line'[q], q, at)
                     /\ \A o \in Users \ {p} : AllBy(line[q], o) => AllBy(line'[q], o)

InboxKeeps(p) ==
    \A d \in Devices : /\ inbox'[d] \in Seq(Request)
                       /\ \A o \in Users \ {p} : AllBy(inbox[d], o) =>
                              \/ AllBy(inbox'[d], o)
                              \/ p \in Users /\ job[p].phase = "write" /\ Cable(p) # Dead
                                 /\ at[d] = job[p].port

LockKeeps(p) ==
    /\ lock' \in [Ports -> Users \cup {None}]
    /\ \A q \in Ports : \A o \in Users \ {p} : lock[q] = o => lock'[q] = o

CableKeeps(p) ==
    /\ fd' \in [Users -> [Slots -> Ports \cup {Closed, Dead}]]
    /\ \A o \in Users \ {p} : fd'[o] = fd[o]
    /\ \A o \in Users : \A s \in Slots : fd'[o][s] \in Ports =>
           fd'[o][s] = fd[o][s] \/ fd'[o][s] \in ListUsbDevices

Shares(p) ==
    /\ UNCHANGED at
    /\ line' \in [Ports -> Seq(Unit)] /\ LineKeeps(p)
    /\ inbox' \in [Devices -> Seq(Request)] /\ InboxKeeps(p)
    /\ LockKeeps(p) /\ CableKeeps(p)

\* Actor p goes on with j.
Turns(p, j) == j \in Job /\ Go(p, j)

LEMMA Turned ==
    ASSUME TypeOK, NEW p \in Actors, NEW j, Turns(p, j)
    PROVE  /\ job' \in [Actors -> Job] /\ job'[p] = j
           /\ \A o \in Actors : o # p => job'[o] = job[o]
BY DEF TypeOK, Turns, Go, Actors

\* What an actor leaves of the invariant to the others.
LEMMA OthersStep ==
    ASSUME TypeOK, Safe, NEW p \in Actors, NEW j, Turns(p, j), Shares(p)
    PROVE  /\ SharedType' /\ Distinct' /\ Attended' /\ AllHere'
           /\ \A o \in Users : o # p => Mine(o)'
<1>1. Distinct'
    BY DEF Distinct, Shares, Safe
<1>2. Attended'
    BY DEF Attended, Shares, CableKeeps, ListUsbDevices, Safe
<1>3. AllHere'
    BY DEF AllHere, Shares, LineKeeps, Safe
<1>4. ASSUME NEW o \in Users, o # p
      PROVE  Mine(o)'
  <2>1. job'[o] = job[o] /\ o \in Users \ {p} /\ o \in Actors
      BY <1>4, Turned DEF Actors
  <2>2. Held(o) /\ GotOwn(o) /\ Own(o)
      BY DEF Safe, Mine
  <2>3. fd'[o] = fd[o] /\ Cable(o)' = Cable(o) /\ UNCHANGED at
      BY <2>1 DEF Shares, CableKeeps, Cable
  <2>4. Held(o)'
      BY <2>1, <2>2, <2>3 DEF Held, Shares, LockKeeps
  <2>5. GotOwn(o)'
      BY <2>1, <2>2 DEF GotOwn
  <2>6. ASSUME job[o].phase \in Active, job[o].quiet, Cable(o) # Dead
        PROVE  OwnAt(o, job[o].port)'
    <3>1. job[o].port \in Ports /\ lock[job[o].port] = o /\ OwnAt(o, job[o].port)
        BY <2>2, <2>6 DEF Held, Own
    <3>2. job[o].phase # "flush" => AllBy(line'[job[o].port], o)
        BY <2>1, <3>1 DEF OwnAt, Shares, LineKeeps
    <3>3. ASSUME NEW d \in Devices, at[d] = job[o].port
          PROVE  AllBy(inbox'[d], o)
      <4>1. AllBy(inbox[d], o)
          BY <3>1, <3>3 DEF OwnAt
      <4>2. ~(p \in Users /\ job[p].phase = "write" /\ at[d] = job[p].port)
        <5>1. ASSUME p \in Users, job[p].phase = "write" PROVE lock[job[p].port] = p
            BY <5>1 DEF Safe, Mine, Held, Active
        <5> QED BY <1>4, <3>1, <3>3, <5>1
      <4> QED BY <2>1, <4>1, <4>2 DEF Shares, InboxKeeps
    <3> QED BY <2>1, <2>3, <3>2, <3>3 DEF OwnAt
  <2>7. Own(o)'
      BY <2>1, <2>3, <2>6 DEF Own
  <2> QED BY <2>4, <2>5, <2>7 DEF Mine
<1>5. SharedType'
    BY Turned DEF SharedType, Shares, LockKeeps, CableKeeps, Safe
<1> QED BY <1>1, <1>2, <1>3, <1>4, <1>5

-----------------------------------------------------------------------------
(* Steps of an actor without a command *)

\* What p has read stays, or is forgotten.
Thought(p, j) ==
    /\ job[p].phase = "run" /\ j.phase \in {"run", "lock"}
    /\ j.got = <<>> \/ (j.got = job[p].got /\ j.quiet = job[p].quiet)

Thinks(p) == (\E j : Turns(p, j) /\ Thought(p, j)) /\ Shares(p)

LEMMA ThinkStep ==
    ASSUME TypeOK, Safe, NEW p \in Actors, Thinks(p), p = Key => job'[Key].phase = "run"
    PROVE  Safe'
<1>1. PICK j : Turns(p, j) /\ Thought(p, j) /\ Shares(p)
    BY DEF Thinks
<1>2. /\ job' \in [Actors -> Job] /\ job'[p] = j
      /\ \A o \in Actors : o # p => job'[o] = job[o]
    BY <1>1, Turned
<1>3. /\ SharedType' /\ Distinct' /\ Attended' /\ AllHere' /\ \A o \in Users : o # p => Mine(o)'
    BY <1>1, OthersStep
<1>4. ASSUME p \in Users
      PROVE  Mine(p)'
  <2>1. job'[p].phase \notin Active
      BY <1>1, <1>2 DEF Active, Thought
  <2>2. GotOwn(p)'
    <3>1. GotOwn(p)
        BY <1>4 DEF Safe, Mine
    <3> QED BY <1>1, <1>2, <3>1, EmptyKeeps DEF GotOwn, Thought
  <2> QED BY <2>1, <2>2 DEF Mine, Held, Own
<1>5. KeyRuns'
    BY <1>2 DEF KeyRuns, Safe, Actors
<1> QED BY <1>3, <1>4, <1>5 DEF Safe

LEMMA SharesStill ==
    ASSUME TypeOK, NEW p, UNCHANGED <<at, line, inbox, lock, fd>>
    PROVE  Shares(p)
BY DEF TypeOK, Shares, LineKeeps, InboxKeeps, LockKeeps, CableKeeps, Slots

\* Some lines are emptied, and cables of p opened or closed.
LEMMA SharesEmptied ==
    ASSUME TypeOK, NEW p, UNCHANGED <<at, inbox, lock>>,
           line' \in [Ports -> Seq(Unit)], \A q \in Ports : line'[q] \in {line[q], <<>>},
           CableKeeps(p)
    PROVE  Shares(p)
<1>1. LineKeeps(p)
    BY EmptyKeeps DEF LineKeeps
<1> QED BY <1>1 DEF TypeOK, Shares, InboxKeeps, LockKeeps

LEMMA OneEmptied ==
    ASSUME NEW l \in [Ports -> Seq(Unit)], NEW q
    PROVE  /\ [l EXCEPT ![q] = <<>>] \in [Ports -> Seq(Unit)]
           /\ \A r \in Ports : [l EXCEPT ![q] = <<>>][r] \in {l[r], <<>>}
<1>1. <<>> \in Seq(Unit)
    OBVIOUS
<1> QED BY <1>1

LEMMA SharesOpened ==
    ASSUME TypeOK, NEW p \in Users, NEW slot \in Slots, NEW q, Opened(p, slot, q),
           UNCHANGED <<at, inbox, lock>>
    PROVE  Shares(p)
<1>1. PICK l : l = AfterClose(fd[p][slot])
    OBVIOUS
<1>2. l \in [Ports -> Seq(Unit)] /\ \A r \in Ports : l[r] \in {line[r], <<>>}
    BY <1>1, OneEmptied DEF AfterClose, TypeOK
<1>3. line' = [l EXCEPT ![q] = <<>>]
    BY <1>1 DEF Opened
<1>4. line' \in [Ports -> Seq(Unit)] /\ \A r \in Ports : line'[r] \in {line[r], <<>>}
    BY <1>2, <1>3, OneEmptied
<1>5. PICK c : c = IF q \in ListUsbDevices THEN q ELSE IF p = Sdk THEN Dead ELSE Closed
    OBVIOUS
<1>6. /\ c \in Ports \cup {Closed, Dead}
      /\ c \in Ports => c \in ListUsbDevices
    BY <1>5, CableAssumption DEF ListUsbDevices, Dead, Closed
<1>7. fd' = [fd EXCEPT ![p][slot] = c] /\ fd \in [Users -> [Slots -> Ports \cup {Closed, Dead}]]
    BY <1>5 DEF Opened, TypeOK, Slots
<1>8. CableKeeps(p)
    BY <1>6, <1>7 DEF CableKeeps
<1> QED BY <1>4, <1>8, SharesEmptied

LEMMA IdleJob ==
    /\ Idle \in Job /\ Idle.phase = "run" /\ Idle.got = <<>>
    /\ Idle.slot = "own" /\ Idle.step = "idle" /\ Idle.cmd = "infos"
<1>1. <<>> \in Seq(Unit)
    OBVIOUS
<1> QED BY <1>1 DEF Idle, Job, Operations, Steps, Phases, Commands, Reads, Values

\* A new operation, with any number of rounds.
LEMMA StartedJob ==
    ASSUME NEW op \in Operations, NEW step \in Steps
    PROVE  /\ Started(op, step) \in Job /\ Started(op, step).phase = "run"
           /\ Started(op, step).got = <<>> /\ Started(op, step).slot = "own"
           /\ Started(op, step).step = step /\ Started(op, step).op = op
           /\ \A n \in Int : /\ [Started(op, step) EXCEPT !.tries = n] \in Job
                             /\ [Started(op, step) EXCEPT !.tries = n].phase = "run"
                             /\ [Started(op, step) EXCEPT !.tries = n].got = <<>>
                             /\ [Started(op, step) EXCEPT !.tries = n].slot = "own"
                             /\ [Started(op, step) EXCEPT !.tries = n].step = step
<1>1. ListUsbDevices \in SUBSET Ports
    BY DEF ListUsbDevices
<1>2. PICK i \in Job : i = Idle
    BY IdleJob
<1>3. PICK j : j = [i EXCEPT !.op = op, !.step = step, !.todo = ListUsbDevices]
    OBVIOUS
<1>4. /\ j \in Job /\ j.phase = i.phase /\ j.got = i.got /\ j.slot = i.slot /\ j.step = step
      /\ j.op = op
    BY <1>1, <1>3 DEF Job
<1>5. \A n \in Int : /\ [j EXCEPT !.tries = n] \in Job /\ [j EXCEPT !.tries = n].phase = j.phase
                     /\ [j EXCEPT !.tries = n].got = j.got /\ [j EXCEPT !.tries = n].slot = j.slot
                     /\ [j EXCEPT !.tries = n].step = j.step
    BY <1>4 DEF Job
<1>6. j = Started(op, step)
    BY <1>2, <1>3 DEF Started
<1> QED BY <1>2, <1>4, <1>5, <1>6, IdleJob

LEMMA CalledJob ==
    ASSUME NEW j \in Job, NEW slot \in Slots, NEW cmd \in Commands, NEW step \in Steps
    PROVE  /\ Call(j, slot, cmd, step) \in Job /\ Call(j, slot, cmd, step).phase = "lock"
           /\ Call(j, slot, cmd, step).got = j.got /\ Call(j, slot, cmd, step).quiet = j.quiet
           /\ Call(j, slot, cmd, step).slot = slot /\ Call(j, slot, cmd, step).cmd = cmd
           /\ Call(j, slot, cmd, step).step = step
BY DEF Call, Job, Slots, Phases

LEMMA UsersApart == Sdk \in Users /\ Tool \in Users /\ Sdk # Tool /\ Key \notin Users /\ None \notin Users
BY CableAssumption DEF Users

\* The SDK's steps.
LEMMA SdkThinks ==
    ASSUME TypeOK,
           SdkCall \/ BootReason \/ Scan \/ Scanned \/ Attach \/ TagMode \/ Finish(Sdk)
    PROVE  Thinks(Sdk)
<1>1. PICK k \in Job : k = job[Sdk]
    BY UsersApart DEF TypeOK
<1>2. ASSUME NEW j \in Job, Go(Sdk, j), k.phase = "run", j.phase \in {"run", "lock"},
             j.got = <<>> \/ (j.got = k.got /\ j.quiet = k.quiet),
             Shares(Sdk)
      PROVE  Thinks(Sdk)
    BY <1>1, <1>2 DEF Thinks, Turns, Thought
<1>3. CASE SdkCall
  <2>1. k.phase = "run" /\ Shares(Sdk)
      BY <1>1, <1>3, SharesStill DEF SdkCall, At, deviceVars
  <2>2. CASE Go(Sdk, Started("enumerate", "scan"))
    <3>1. PICK j : j = Started("enumerate", "scan")
        OBVIOUS
    <3>2. "enumerate" \in Operations /\ "scan" \in Steps
        BY DEF Operations, Steps
    <3>3. j \in Job /\ j.phase = "run" /\ j.got = <<>>
        BY <3>1, <3>2, StartedJob
    <3>4. Go(Sdk, j)
        BY <2>2, <3>1
    <3> QED BY <1>2, <2>1, <3>3, <3>4
  <2>3. ASSUME NEW op \in Operations, NEW cmd \in Commands, NEW step \in Steps,
               Go(Sdk, Call(Started(op, "idle"), "own", cmd, step))
        PROVE  Thinks(Sdk)
    <3>1. Started(op, "idle") \in Job /\ Started(op, "idle").got = <<>>
        BY StartedJob DEF Steps
    <3>2. "own" \in Slots
        BY DEF Slots
    <3>3. PICK j : j = Call(Started(op, "idle"), "own", cmd, step)
        OBVIOUS
    <3>4. j \in Job /\ j.phase = "lock" /\ j.got = <<>>
        BY <3>1, <3>2, <3>3, CalledJob
    <3> QED BY <1>2, <2>1, <2>3, <3>3, <3>4
  <2>4. /\ {"isNfcTagRead", "setNfcTag", "bootReason"} \subseteq Operations
        /\ {"nfc", "write", "infos"} \subseteq Commands /\ {"end", "boot"} \subseteq Steps
      BY DEF Operations, Commands, Reads, Steps
  <2> QED BY <1>3, <2>2, <2>3, <2>4 DEF SdkCall
<1>4. CASE BootReason
  <2>1. k.phase = "run" /\ Shares(Sdk)
      BY <1>1, <1>4, SharesStill DEF BootReason, At, deviceVars
  <2>2. PICK s \in {"end", "scan"} : Go(Sdk, [k EXCEPT !.step = s, !.todo = ListUsbDevices])
      BY <1>1, <1>4 DEF BootReason
  <2>3. s \in Steps /\ ListUsbDevices \in SUBSET Ports
      BY DEF Steps, ListUsbDevices
  <2>4. [k EXCEPT !.step = s, !.todo = ListUsbDevices] \in Job
      BY <2>3 DEF Job
  <2> QED BY <1>2, <2>1, <2>2, <2>4 DEF Job
<1>5. CASE Scan
  <2>1. k.phase = "run"
      BY <1>1, <1>5 DEF Scan, At
  <2>2. CASE Go(Sdk, Call(job[Sdk], "own", "nfc", "tagmode")) /\ UNCHANGED <<line, fd>>
    <3>1. Shares(Sdk)
        BY <1>5, <2>2, SharesStill DEF Scan, deviceVars
    <3>2. PICK j : j = Call(k, "own", "nfc", "tagmode")
        OBVIOUS
    <3>3. j \in Job /\ j.phase = "lock" /\ j.got = k.got /\ j.quiet = k.quiet
        BY SMTT(20), <3>2, CalledJob DEF Slots, Commands, Reads, Steps
    <3> QED BY <1>1, <1>2, <2>1, <2>2, <3>1, <3>2, <3>3
  <2>3. ASSUME NEW q \in Ports, Opened(Sdk, "tmp", q),
               NEW j, j = [job[Sdk] EXCEPT !.todo = @ \ {q}],
               Go(Sdk, IF q \in ListUsbDevices THEN Call(j, "tmp", "infos", "scanned") ELSE j)
        PROVE  Thinks(Sdk)
    <3>1. Shares(Sdk)
        BY <1>5, <2>3, SharesOpened, UsersApart DEF Scan, deviceVars, Slots
    <3>2. j \in Job /\ j.phase = k.phase /\ j.got = k.got /\ j.quiet = k.quiet
        BY <1>1, <2>3 DEF Job
    <3>3. PICK c : c = Call(j, "tmp", "infos", "scanned")
        OBVIOUS
    <3>4. c \in Job /\ c.phase = "lock" /\ c.got = j.got /\ c.quiet = j.quiet
        BY SMTT(20), <3>2, <3>3, CalledJob DEF Slots, Commands, Reads, Steps
    <3>5. Go(Sdk, c) \/ Go(Sdk, j)
        BY <2>3, <3>3
    <3> QED BY <1>2, <2>1, <3>1, <3>2, <3>4, <3>5
  <2> QED BY <1>5, <2>2, <2>3 DEF Scan
<1>6. CASE Scanned
  <2>1. /\ k.phase = "run" /\ line' = AfterClose(fd[Sdk].tmp) /\ UNCHANGED <<at, inbox, lock>>
        /\ fd' = [fd EXCEPT ![Sdk].tmp = Closed]
      BY <1>1, <1>6 DEF Scanned, At, deviceVars
  <2>2. line' \in [Ports -> Seq(Unit)] /\ \A r \in Ports : line'[r] \in {line[r], <<>>}
      BY <2>1, OneEmptied DEF AfterClose, TypeOK
  <2>3. fd \in [Users -> [Slots -> Ports \cup {Closed, Dead}]]
      BY DEF TypeOK, Slots
  <2>4. Closed \notin Ports
      BY CableAssumption DEF Closed
  <2>5. CableKeeps(Sdk)
      BY <2>1, <2>3, <2>4 DEF CableKeeps, Slots
  <2>6. Shares(Sdk)
      BY <2>1, <2>2, <2>5, SharesEmptied
  <2>7. PICK s \in {"attach", "scan"} : Go(Sdk, [k EXCEPT !.step = s])
      BY <1>1, <1>6 DEF Scanned
  <2>8. [k EXCEPT !.step = s] \in Job
      BY DEF Job, Steps
  <2> QED BY <1>2, <2>1, <2>6, <2>7, <2>8 DEF Job
<1>7. CASE Attach
  <2>1. k.phase = "run" /\ Shares(Sdk)
    <3>1. Opened(Sdk, "own", job[Sdk].port) /\ UNCHANGED <<at, inbox, lock>>
        BY <1>7 DEF Attach, deviceVars
    <3> QED BY <1>1, <1>7, <3>1, SharesOpened, UsersApart DEF Attach, At, Slots
  <2>2. PICK c : c = Call(k, "own", "write", "scan")
      OBVIOUS
  <2>3. c \in Job /\ c.phase = "lock" /\ c.got = k.got /\ c.quiet = k.quiet
      BY <2>2, CalledJob DEF Slots, Commands, Steps
  <2>4. [k EXCEPT !.step = "scan"] \in Job
      BY DEF Job, Steps
  <2>5. Go(Sdk, c) \/ Go(Sdk, [k EXCEPT !.step = "scan"])
      BY <1>1, <1>7, <2>2 DEF Attach
  <2> QED BY <1>2, <2>1, <2>3, <2>4, <2>5 DEF Job
<1>8. CASE TagMode
  <2>1. k.phase = "run" /\ Shares(Sdk)
      BY <1>1, <1>8, SharesStill DEF TagMode, At, deviceVars
  <2>2. PICK c : c = Call(k, "own", "type", "end")
      OBVIOUS
  <2>3. c \in Job /\ c.phase = "lock" /\ c.got = k.got /\ c.quiet = k.quiet
      BY <2>2, CalledJob DEF Slots, Commands, Steps
  <2>4. [k EXCEPT !.step = "end"] \in Job
      BY DEF Job, Steps
  <2>5. Go(Sdk, c) \/ Go(Sdk, [k EXCEPT !.step = "end"])
      BY <1>1, <1>8, <2>2 DEF TagMode
  <2> QED BY <1>2, <2>1, <2>3, <2>4, <2>5 DEF Job
<1>9. CASE Finish(Sdk)
  <2>1. k.phase = "run" /\ Shares(Sdk) /\ Go(Sdk, Idle)
      BY <1>1, <1>9, SharesStill DEF Finish, At, deviceVars
  <2> QED BY <1>2, <2>1, IdleJob
<1> QED BY <1>3, <1>4, <1>5, <1>6, <1>7, <1>8, <1>9

\* The steps of the thread with the key.
LEMMA KeyThinks ==
    ASSUME TypeOK, KeyCall \/ Discover \/ Listen \/ Identity \/ HasTpm \/ Sign \/ Finish(Key)
    PROVE  Thinks(Key) /\ job'[Key].phase = "run"
<1>1. PICK k \in Job : k = job[Key]
    BY DEF TypeOK
<1>2. ASSUME NEW j \in Job, Go(Key, j), k.phase = "run", j.phase = "run",
             j.got = <<>> \/ (j.got = k.got /\ j.quiet = k.quiet), Shares(Key)
      PROVE  Thinks(Key) /\ job'[Key].phase = "run"
  <2>1. Turns(Key, j) /\ Key \in Actors
      BY <1>2 DEF Turns, Actors
  <2> QED BY <1>1, <1>2, <2>1, Turned DEF Thinks, Thought
<1>3. fd \in [Users -> [Slots -> Ports \cup {Closed, Dead}]] /\ line \in [Ports -> Seq(Unit)]
    BY DEF TypeOK, Slots
<1>4. CASE KeyCall
  <2>1. k.phase = "run" /\ Shares(Key)
      BY <1>1, <1>4, SharesStill DEF KeyCall, At, deviceVars
  <2>2. PICK op, step : /\ op \in {"resolve", "sign"} /\ step \in {"discover", "sign"}
                        /\ Go(Key, Started(op, step))
      BY <1>4 DEF KeyCall
  <2>3. op \in Operations /\ step \in Steps
      BY <2>2 DEF Operations, Steps
  <2>4. PICK j : j = Started(op, step)
      OBVIOUS
  <2>5. j \in Job /\ j.phase = "run" /\ j.got = <<>>
      BY <2>3, <2>4, StartedJob
  <2>6. Go(Key, j)
      BY <2>2, <2>4
  <2> QED BY <1>2, <2>1, <2>5, <2>6
<1>5. CASE Discover
  <2>1. k.phase = "run" /\ UNCHANGED <<at, inbox, lock, fd>>
      BY <1>1, <1>5 DEF Discover, At, deviceVars
  <2>2. CASE Go(Key, [job[Key] EXCEPT !.step = "end"]) /\ UNCHANGED line
    <3>1. [k EXCEPT !.step = "end"] \in Job
        BY DEF Job, Steps
    <3>2. Shares(Key)
        BY <2>1, <2>2, SharesStill
    <3> QED BY <1>1, <1>2, <2>1, <2>2, <3>1, <3>2 DEF Job
  <2>3. ASSUME NEW q \in Ports, NEW s \in {"listen", "discover"},
               Go(Key, [job[Key] EXCEPT !.todo = @ \ {q}, !.port = q, !.step = s]),
               line' = [line EXCEPT ![q] = <<>>] \/ UNCHANGED line
        PROVE  Thinks(Key) /\ job'[Key].phase = "run"
    <3>1. line' \in [Ports -> Seq(Unit)] /\ \A r \in Ports : line'[r] \in {line[r], <<>>}
      <4>1. CASE line' = [line EXCEPT ![q] = <<>>]
          BY <1>3, <4>1, OneEmptied
      <4>2. CASE UNCHANGED line
          BY <1>3, <4>2
      <4> QED BY <2>3, <4>1, <4>2
    <3>2. Shares(Key)
        BY <1>3, <2>1, <3>1, SharesEmptied DEF CableKeeps
    <3>3. PICK j : j = [k EXCEPT !.todo = @ \ {q}, !.port = q, !.step = s]
        OBVIOUS
    <3>4. j \in Job /\ j.phase = k.phase /\ j.got = k.got /\ j.quiet = k.quiet
        BY <3>3 DEF Job, Steps
    <3> QED BY <1>1, <1>2, <2>1, <2>3, <3>2, <3>3, <3>4
  <2> QED BY <1>5, <2>2, <2>3 DEF Discover
<1>6. CASE Listen
  <2>1. k.phase = "run" /\ UNCHANGED <<at, inbox, lock, fd>>
        /\ line' = [line EXCEPT ![k.port] = <<>>]
      BY <1>1, <1>6 DEF Listen, At, deviceVars
  <2>2. line' \in [Ports -> Seq(Unit)] /\ \A r \in Ports : line'[r] \in {line[r], <<>>}
      BY <1>3, <2>1, OneEmptied
  <2>3. Shares(Key)
      BY <1>3, <2>1, <2>2, SharesEmptied DEF CableKeeps
  <2>4. PICK s \in {"identity", "discover"} : Go(Key, [k EXCEPT !.step = s])
      BY <1>1, <1>6 DEF Listen
  <2>5. [k EXCEPT !.step = s] \in Job
      BY DEF Job, Steps
  <2> QED BY <1>2, <2>1, <2>3, <2>4, <2>5 DEF Job
<1>7. CASE Identity \/ HasTpm
  <2>1. k.phase = "run" /\ Shares(Key)
      BY <1>1, <1>7, SharesStill DEF Identity, HasTpm, At, deviceVars
  <2>2. PICK s \in {"check", "end"} : Go(Key, [k EXCEPT !.step = s])
      BY <1>1, <1>7 DEF Identity, HasTpm
  <2>3. [k EXCEPT !.step = s] \in Job
      BY DEF Job, Steps
  <2> QED BY <1>2, <2>1, <2>2, <2>3 DEF Job
<1>8. CASE Sign
  <2>1. k.phase = "run" /\ Shares(Key)
      BY <1>1, <1>8, SharesStill DEF Sign, At, deviceVars
  <2>2. CASE Go(Key, [job[Key] EXCEPT !.step = "end", !.ok = TryUsbBus(known.path) # {}])
    <3>1. PICK ok \in BOOLEAN : ok = (TryUsbBus(known.path) # {})
        OBVIOUS
    <3>2. PICK j : j = [k EXCEPT !.step = "end", !.ok = ok]
        OBVIOUS
    <3>3. j \in Job /\ j.phase = k.phase /\ j.got = k.got /\ j.quiet = k.quiet
        BY <3>2 DEF Job, Steps
    <3>4. Go(Key, j)
        BY <1>1, <2>2, <3>1, <3>2
    <3> QED BY <1>2, <2>1, <3>3, <3>4
  <2>3. CASE Go(Key, [job[Key] EXCEPT !.step = "end"])
    <3>1. [k EXCEPT !.step = "end"] \in Job
        BY DEF Job, Steps
    <3> QED BY <1>1, <1>2, <2>1, <2>3, <3>1 DEF Job
  <2> QED BY <1>8, <2>2, <2>3 DEF Sign
<1>9. CASE Finish(Key)
  <2>1. k.phase = "run" /\ Shares(Key) /\ Go(Key, Idle)
      BY <1>1, <1>9, SharesStill DEF Finish, At, deviceVars
  <2> QED BY <1>2, <2>1, IdleJob
<1> QED BY <1>4, <1>5, <1>6, <1>7, <1>8, <1>9

\* The steps of others do not concern the tool.
LEMMA ToolStill ==
    ASSUME ToolInv, UNCHANGED at, job'[Tool] = job[Tool], fd'[Tool] = fd[Tool]
    PROVE  ToolInv'
<1>1. \A val : Named(val)' <=> Named(val)
    BY DEF Named
<1>2. Heard' <=> Heard
    BY <1>1 DEF Heard
<1>3. \A want : Regained(want)' <=> Regained(want)
    BY <1>1 DEF Regained
<1> QED BY <1>2, <1>3 DEF ToolInv

LEMMA OthersTool ==
    ASSUME TypeOK, ToolInv, NEW p \in Actors, p # Tool, NEW j, Turns(p, j), Shares(p)
    PROVE  ToolInv'
<1>1. Tool \in Users \ {p} /\ Tool \in Actors /\ Tool # p
    BY UsersApart DEF Actors
<1>2. job'[Tool] = job[Tool] /\ fd'[Tool] = fd[Tool] /\ UNCHANGED at
    BY <1>1, Turned DEF Shares, CableKeeps
<1> QED BY <1>2, ToolStill

\* The tool's steps.
LEMMA ToolThinks ==
    ASSUME TypeOK, ToolInv,
           ToolCall \/ Identified \/ Restarted \/ Copy \/ Seek \/ Sought \/ Finish(Tool)
    PROVE  Thinks(Tool) /\ ToolInv'
<1>1. PICK k \in Job : k = job[Tool]
    BY UsersApart DEF TypeOK
<1>2. k.slot = "own" /\ k.tries \in Int /\ k.want \in Values
    BY <1>1 DEF ToolInv, Job
<1>3. ASSUME NEW j \in Job, Go(Tool, j), k.phase = "run", j.phase \in {"run", "lock"},
             j.got = <<>> \/ (j.got = k.got /\ j.quiet = k.quiet),
             Shares(Tool), j.slot = "own",
             j.step \in {"sought", "identified"} => j.phase = "lock" /\ j.cmd = "infos",
             j.step # "found"
      PROVE  Thinks(Tool) /\ ToolInv'
  <2>1. Turns(Tool, j) /\ Tool \in Actors
      BY <1>3, UsersApart DEF Turns, Actors
  <2>2. job'[Tool] = j
      BY <2>1, Turned
  <2>3. ToolInv'
      BY <1>3, <2>2 DEF ToolInv, Active
  <2> QED BY <1>1, <1>3, <2>1, <2>3 DEF Thinks, Thought
<1>4. "own" \in Slots /\ MaxTries \in Int /\ ListUsbDevices \in SUBSET Ports
    BY CableAssumption DEF Slots, ListUsbDevices
<1>5. CASE ToolCall
  <2>1. k.phase = "run" /\ Shares(Tool)
      BY <1>1, <1>5, SharesStill DEF ToolCall, At, deviceVars
  <2>2. ASSUME NEW op \in Operations, NEW step \in {"seek", "copy"}, NEW n \in Int,
               Go(Tool, [Started(op, step) EXCEPT !.tries = n])
        PROVE  Thinks(Tool) /\ ToolInv'
    <3>1. step \in Steps /\ step \notin {"sought", "identified"} /\ step # "found"
        BY DEF Steps
    <3>2. PICK j : j = [Started(op, step) EXCEPT !.tries = n]
        OBVIOUS
    <3>3. j \in Job /\ j.phase = "run" /\ j.got = <<>> /\ j.slot = "own" /\ j.step = step
        BY <3>1, <3>2, StartedJob
    <3> QED BY <1>3, <2>1, <2>2, <3>1, <3>2, <3>3
  <2>3. ASSUME NEW op \in Operations, NEW cmd \in Commands, NEW step \in {"identified", "end"},
               step = "identified" => cmd = "infos",
               Go(Tool, Call(Started(op, "idle"), "own", cmd, step))
        PROVE  Thinks(Tool) /\ ToolInv'
    <3>1. Started(op, "idle") \in Job /\ Started(op, "idle").got = <<>>
        BY StartedJob DEF Steps
    <3>2. step \in Steps /\ step # "sought" /\ step # "found"
        BY DEF Steps
    <3>3. PICK j : j = Call(Started(op, "idle"), "own", cmd, step)
        OBVIOUS
    <3>4. /\ j \in Job /\ j.phase = "lock" /\ j.got = <<>> /\ j.slot = "own" /\ j.step = step
          /\ j.cmd = cmd
        BY <1>4, <3>1, <3>2, <3>3, CalledJob
    <3> QED BY <1>3, <2>1, <2>3, <3>2, <3>3, <3>4
  <2>4. /\ {"find", "reboot", "bootloader", "upload"} \subseteq Operations
        /\ {"infos", "bootloader"} \subseteq Commands
      BY DEF Operations, Commands, Reads
  <2>5. \/ Go(Tool, [Started("find", "seek") EXCEPT !.tries = 1])
        \/ Go(Tool, Call(Started("reboot", "idle"), "own", "infos", "identified"))
        \/ Go(Tool, Call(Started("bootloader", "idle"), "own", "bootloader", "end"))
        \/ Go(Tool, [Started("upload", "copy") EXCEPT !.tries = MaxTries])
        \/ Go(Tool, Call(Started("upload", "idle"), "own", "infos", "identified"))
      BY <1>5 DEF ToolCall
  <2>6. ASSUME NEW op \in {"reboot", "upload"},
               Go(Tool, Call(Started(op, "idle"), "own", "infos", "identified"))
        PROVE  Thinks(Tool) /\ ToolInv'
      BY <2>3, <2>4, <2>6
  <2>7. CASE Go(Tool, Call(Started("bootloader", "idle"), "own", "bootloader", "end"))
      BY <2>3, <2>4, <2>7
  <2>8. CASE Go(Tool, [Started("find", "seek") EXCEPT !.tries = 1])
      BY <2>2, <2>4, <2>8
  <2>9. CASE Go(Tool, [Started("upload", "copy") EXCEPT !.tries = MaxTries])
      BY <1>4, <2>2, <2>4, <2>9
  <2> QED BY <2>5, <2>6, <2>7, <2>8, <2>9
<1>6. CASE Identified
  <2>1. k.phase = "run" /\ Shares(Tool)
      BY <1>1, <1>6, SharesStill DEF Identified, At, deviceVars
  <2>2. PICK w \in Values : w = IF job[Tool].ok THEN Answered(Tool) ELSE None
    <3>1. CASE job[Tool].ok
      <4>1. 1 \in DOMAIN k.got => k.got[1].val \in Values
        <5>1. k.got \in Seq(Unit)
            BY DEF Job
        <5>2. 1 \in DOMAIN k.got => k.got[1] \in Unit
            BY <5>1
        <5> QED BY <5>2 DEF Unit
      <4>2. 1 \in DOMAIN k.got
          BY <1>1, <1>6, <3>1 DEF ToolInv, Identified, At
      <4> QED BY <1>1, <3>1, <4>1, <4>2 DEF Answered
    <3>2. CASE ~job[Tool].ok
        BY <3>2 DEF Values
    <3> QED BY <3>1, <3>2
  <2>3. PICK j : j = [k EXCEPT !.want = w, !.tries = MaxTries]
      OBVIOUS
  <2>4. j \in Job /\ j.phase = k.phase /\ j.got = k.got /\ j.quiet = k.quiet /\ j.slot = k.slot
      BY <1>4, <2>3 DEF Job
  <2>5. \/ Go(Tool, Call(j, "own", "reboot", "restarted"))
        \/ Go(Tool, Call(j, "own", "bootloader", "copy"))
        \/ Go(Tool, [j EXCEPT !.step = "end"])
      BY <1>1, <1>6, <2>2, <2>3 DEF Identified
  <2>6. CASE Go(Tool, [j EXCEPT !.step = "end"])
    <3>1. PICK e : e = [j EXCEPT !.step = "end"]
        OBVIOUS
    <3>2. e \in Job /\ e.phase = k.phase /\ e.got = k.got /\ e.quiet = k.quiet /\ e.slot = k.slot
          /\ e.step = "end"
        BY <2>4, <3>1 DEF Job, Steps
    <3> QED BY <1>2, <1>3, <2>1, <2>6, <3>1, <3>2
  <2>7. ASSUME NEW cmd \in Commands, NEW step \in {"restarted", "copy"},
               Go(Tool, Call(j, "own", cmd, step))
        PROVE  Thinks(Tool) /\ ToolInv'
    <3>1. PICK e : e = Call(j, "own", cmd, step)
        OBVIOUS
    <3>2. step \in Steps /\ step \notin {"sought", "identified"} /\ step # "found"
        BY DEF Steps
    <3>3. e \in Job /\ e.phase = "lock" /\ e.got = k.got /\ e.quiet = k.quiet /\ e.slot = "own"
          /\ e.step = step
        BY <1>4, <2>4, <3>1, <3>2, CalledJob
    <3> QED BY <1>3, <2>1, <2>7, <3>1, <3>2, <3>3
  <2>8. "reboot" \in Commands /\ "bootloader" \in Commands
      BY DEF Commands
  <2> QED BY <2>5, <2>6, <2>7, <2>8
<1>7. CASE Restarted
  <2>1. k.phase = "run" /\ Shares(Tool)
      BY <1>1, <1>7, SharesStill DEF Restarted, At, deviceVars
  <2>2. PICK s \in {"end", "seek"} : Go(Tool, [k EXCEPT !.step = s, !.todo = ListUsbDevices])
      BY <1>1, <1>7 DEF Restarted
  <2>3. PICK j : j = [k EXCEPT !.step = s, !.todo = ListUsbDevices]
      OBVIOUS
  <2>4. j \in Job /\ j.phase = k.phase /\ j.got = k.got /\ j.quiet = k.quiet /\ j.slot = k.slot
        /\ j.step = s
      BY <1>4, <2>3 DEF Job, Steps
  <2> QED BY <1>2, <1>3, <2>1, <2>2, <2>3, <2>4
<1>8. CASE Copy
  <2>1. k.phase = "run" /\ Shares(Tool)
      BY <1>1, <1>8, SharesStill DEF Copy, At
  <2>2. PICK s : s = IF k.want = None THEN "end" ELSE "seek"
      OBVIOUS
  <2>3. PICK j : j = [k EXCEPT !.step = s, !.tries = MaxTries, !.todo = ListUsbDevices]
      OBVIOUS
  <2>4. j \in Job /\ j.phase = k.phase /\ j.got = k.got /\ j.quiet = k.quiet /\ j.slot = k.slot
        /\ j.step = s /\ s \in {"end", "seek"}
      BY <1>4, <2>2, <2>3 DEF Job, Steps
  <2>5. PICK e : e = [k EXCEPT !.tries = @ - 1]
      OBVIOUS
  <2>6. e \in Job /\ e.phase = k.phase /\ e.got = k.got /\ e.quiet = k.quiet /\ e.slot = k.slot
        /\ e.step = k.step
      BY <1>2, <2>5 DEF Job
  <2>7. Go(Tool, j) \/ Go(Tool, e)
      BY <1>1, <1>8, <2>2, <2>3, <2>5 DEF Copy
  <2>8. k.step = "copy"
      BY <1>1, <1>8 DEF Copy, At
  <2> QED BY <1>2, <1>3, <2>1, <2>4, <2>6, <2>7, <2>8
<1>9. CASE Seek
  <2>1. k.phase = "run" /\ k.step = "seek" /\ UNCHANGED <<at, inbox, lock>>
      BY <1>1, <1>9 DEF Seek, At, deviceVars
  <2>2. CASE /\ UNCHANGED <<line, fd>>
             /\ \/ Go(Tool, [k EXCEPT !.step = "end"])
                \/ Go(Tool, [k EXCEPT !.tries = @ - 1, !.todo = ListUsbDevices])
    <3>1. Shares(Tool)
        BY <2>1, <2>2, SharesStill
    <3>2. PICK j : j = [k EXCEPT !.step = "end"]
        OBVIOUS
    <3>3. j \in Job /\ j.phase = k.phase /\ j.got = k.got /\ j.quiet = k.quiet /\ j.slot = k.slot
          /\ j.step = "end"
        BY <3>2 DEF Job, Steps
    <3>4. PICK n \in Int : n = k.tries - 1
        BY <1>2
    <3>8. PICK e : e = [k EXCEPT !.tries = n, !.todo = ListUsbDevices]
        OBVIOUS
    <3>5. e \in Job /\ e.phase = k.phase /\ e.got = k.got /\ e.quiet = k.quiet /\ e.slot = k.slot
          /\ e.step = k.step
        BY <1>4, <3>8 DEF Job
    <3>6. CASE Go(Tool, j)
        BY <1>2, <1>3, <2>1, <3>1, <3>3, <3>6
    <3>7. CASE Go(Tool, e)
        BY <1>2, <1>3, <2>1, <3>1, <3>5, <3>7
    <3> QED BY <2>2, <3>2, <3>4, <3>6, <3>7, <3>8
  <2>3. ASSUME NEW q \in Ports, Opened(Tool, "own", q),
               NEW j, j = [k EXCEPT !.todo = @ \ {q}],
               Go(Tool, IF q \in ListUsbDevices THEN Call(j, "own", "infos", "sought") ELSE j)
        PROVE  Thinks(Tool) /\ ToolInv'
    <3>1. Shares(Tool)
        BY <1>4, <2>1, <2>3, SharesOpened, UsersApart
    <3>2. j \in Job /\ j.phase = k.phase /\ j.got = k.got /\ j.quiet = k.quiet /\ j.slot = k.slot
          /\ j.step = k.step
        BY <2>3 DEF Job
    <3>3. PICK c : c = Call(j, "own", "infos", "sought")
        OBVIOUS
    <3>4. /\ c \in Job /\ c.phase = "lock" /\ c.got = j.got /\ c.quiet = j.quiet /\ c.slot = "own"
          /\ c.cmd = "infos" /\ c.step = "sought"
      <4>1. "infos" \in Commands /\ "sought" \in Steps
          BY DEF Commands, Reads, Steps
      <4> QED BY <1>4, <3>2, <3>3, <4>1, CalledJob
    <3>5. Go(Tool, c) \/ Go(Tool, j)
        BY <2>3, <3>3
    <3>6. CASE Go(Tool, c)
        BY <1>3, <2>1, <3>1, <3>2, <3>4, <3>6
    <3>7. CASE Go(Tool, j)
        BY <1>2, <1>3, <2>1, <3>1, <3>2, <3>7
    <3> QED BY <3>5, <3>6, <3>7
  <2>4. \/ /\ UNCHANGED <<line, fd>>
           /\ \/ Go(Tool, [k EXCEPT !.step = "end"])
              \/ Go(Tool, [k EXCEPT !.tries = @ - 1, !.todo = ListUsbDevices])
        \/ \E q \in Ports : \E j :
             /\ Opened(Tool, "own", q) /\ j = [k EXCEPT !.todo = @ \ {q}]
             /\ Go(Tool, IF q \in ListUsbDevices THEN Call(j, "own", "infos", "sought") ELSE j)
      BY <1>1, <1>9 DEF Seek
  <2> QED BY <2>2, <2>3, <2>4
<1>10. CASE Sought
  <2>1. /\ k.phase = "run" /\ k.step = "sought" /\ Shares(Tool) /\ UNCHANGED <<at, fd>>
      BY <1>1, <1>10, SharesStill DEF Sought, At, deviceVars
  <2>2. CASE k.ok /\ SameProbe(Answered(Tool), k.want) /\ Go(Tool, [k EXCEPT !.step = "found"])
    <3>1. PICK j : j = [k EXCEPT !.step = "found"]
        OBVIOUS
    <3>2. j \in Job /\ j.phase = k.phase /\ j.got = k.got /\ j.quiet = k.quiet /\ j.slot = k.slot
          /\ j.step = "found" /\ j.want = k.want
        BY <3>1 DEF Job, Steps
    <3>3. Turns(Tool, j) /\ Tool \in Actors
        BY <2>2, <3>1, <3>2, UsersApart DEF Turns, Actors
    <3>4. job'[Tool] = j
        BY <3>3, Turned
    <3>5. /\ 1 \in DOMAIN k.got /\ k.got[1].size = 1 /\ Heard
        BY <1>1, <2>1, <2>2 DEF ToolInv
    <3>6. Named(k.got[1].val)
        BY <1>1, <3>5 DEF Heard
    <3>7. k.want # None => Regained(k.want)
        BY <1>1, <2>2, <3>6 DEF SameProbe, Answered, Regained
    <3>8. j.want # None => Regained(j.want)'
        BY <2>1, <3>2, <3>7 DEF Regained, Named
    <3>9. (job[Tool].want # None => Regained(job[Tool].want))'
        BY <3>4, <3>8 DEF Regained, Named
    <3>10. ToolInv'
        BY <1>2, <2>1, <3>2, <3>4, <3>9 DEF ToolInv, Active
    <3> QED BY <1>1, <2>1, <3>2, <3>3, <3>10 DEF Thinks, Thought
  <2>3. CASE Go(Tool, [k EXCEPT !.step = "seek"])
    <3>1. PICK j : j = [k EXCEPT !.step = "seek"]
        OBVIOUS
    <3>2. j \in Job /\ j.phase = k.phase /\ j.got = k.got /\ j.quiet = k.quiet /\ j.slot = k.slot
          /\ j.step = "seek"
        BY <3>1 DEF Job, Steps
    <3> QED BY <1>2, <1>3, <2>1, <2>3, <3>1, <3>2
  <2> QED BY <1>1, <1>10, <2>2, <2>3 DEF Sought
<1>11. CASE Finish(Tool)
  <2>1. k.phase = "run" /\ Shares(Tool) /\ Go(Tool, Idle)
      BY <1>1, <1>11, SharesStill DEF Finish, At, deviceVars
  <2> QED BY <1>3, <2>1, IdleJob
<1> QED BY <1>5, <1>6, <1>7, <1>8, <1>9, <1>10, <1>11

-----------------------------------------------------------------------------
(* Steps of a command *)

\* What every step of a command keeps of the actor's work.
Kept(p, j) ==
    /\ j.slot = job[p].slot /\ j.step = job[p].step /\ j.cmd = job[p].cmd
    /\ j.want = job[p].want

\* What the tool reads.
NamedAll(s) == \A i \in DOMAIN s : s[i].size = 1 => Named(s[i].val)

HearsOwn(j) ==
    /\ NamedAll(j.got)
    /\ j.phase = "run" /\ j.ok /\ j.cmd = "infos" => 1 \in DOMAIN j.got /\ j.got[1].size = 1

LEMMA CommandSafe ==
    ASSUME TypeOK, Safe, ToolInv, NEW p \in Users, NEW j, Turns(p, j), Shares(p), UNCHANGED fd,
           Kept(p, j), job[p].phase # "run", Mine(p)', p = Tool => HearsOwn(j)
    PROVE  Safe' /\ ToolInv'
<1>1. p \in Actors /\ p # Key /\ Key \in Actors
    BY UsersApart DEF Actors
<1>2. job'[p] = j /\ job'[Key] = job[Key] /\ UNCHANGED at
    BY <1>1, Turned DEF Shares
<1>3. SharedType' /\ Distinct' /\ Attended' /\ AllHere' /\ \A o \in Users : o # p => Mine(o)'
    BY <1>1, OthersStep
<1>4. Safe'
    BY <1>2, <1>3 DEF Safe, KeyRuns
<1>5. ASSUME p # Tool
      PROVE  ToolInv'
    BY <1>1, <1>5, OthersTool
<1>6. ASSUME p = Tool
      PROVE  ToolInv'
  <2>1. \A val : Named(val)' <=> Named(val)
      BY <1>2 DEF Named
  <2>2. Heard'
      BY <1>2, <1>6, <2>1 DEF Heard, HearsOwn, NamedAll
  <2>3. j.step # "found"
      BY <1>6 DEF ToolInv, Kept
  <2>4. /\ j.slot = "own" /\ (j.step \in {"sought", "identified"} => j.cmd = "infos")
        /\ j.phase = "run" /\ j.ok /\ j.cmd = "infos" => 1 \in DOMAIN j.got /\ j.got[1].size = 1
      BY <1>6 DEF ToolInv, Kept, HearsOwn
  <2>5. job'[Tool] = j
      BY <1>2, <1>6
  <2> QED BY <2>2, <2>3, <2>4, <2>5 DEF ToolInv
<1> QED BY <1>4, <1>5, <1>6

\* What a command has read before holds until it is over.
LEMMA HeardBefore ==
    ASSUME ToolInv, job[Tool].phase \in Active
    PROVE  NamedAll(job[Tool].got)
BY DEF ToolInv, Heard, NamedAll

LEMMA NothingHeard == NamedAll(<<>>)
BY DEF NamedAll

LEMMA LineFrom ==
    ASSUME NEW p, NEW l \in [Ports -> Seq(Unit)], \A q \in Ports : From(l[q], line[q]), line' = l
    PROVE  line' \in [Ports -> Seq(Unit)] /\ LineKeeps(p)
BY FromKeeps DEF LineKeeps

LEMMA FromItself == \A s : From(s, s)
BY DEF From

LEMMA TakenLine ==
    ASSUME TypeOK, NEW p \in Users, job[p].port \in Ports, line[job[p].port] # <<>>
    PROVE  /\ Taken(p) \in [Ports -> Seq(Unit)] /\ \A q \in Ports : From(Taken(p)[q], line[q])
           /\ Head(line[job[p].port]) \in Unit
           /\ Head(line[job[p].port]) = line[job[p].port][1] /\ 1 \in DOMAIN line[job[p].port]
           /\ From(Taken(p)[job[p].port], line[job[p].port])
<1>1. PICK q : q = job[p].port
    OBVIOUS
<1>2. q \in Ports /\ line[q] \in Seq(Unit) /\ line[q] # <<>> /\ line \in [Ports -> Seq(Unit)]
    BY <1>1 DEF TypeOK
<1>3. /\ Tail(line[q]) \in Seq(Unit) /\ From(Tail(line[q]), line[q])
      /\ Head(line[q]) \in Unit /\ Head(line[q]) = line[q][1] /\ 1 \in DOMAIN line[q]
    BY <1>2, TailFrom
<1>4. Taken(p) = [line EXCEPT ![q] = Tail(line[q])]
    BY <1>1, <1>2 DEF Taken
<1> QED BY <1>1, <1>2, <1>3, <1>4, FromItself

\* The end of a command, as far as the others are concerned.
LEMMA Returned ==
    ASSUME TypeOK, NEW p \in Users, NEW k \in Job, NEW ok \in BOOLEAN,
           NEW l \in [Ports -> Seq(Unit)], \A q \in Ports : From(l[q], line[q]),
           k.port \in Ports => lock[k.port] = p,
           k.slot = job[p].slot /\ k.step = job[p].step /\ k.cmd = job[p].cmd /\ k.want = job[p].want,
           k.quiet => AllBy(k.got, p),
           Return(p, k, ok, l), UNCHANGED <<at, fd>>
    PROVE  \E j : /\ Turns(p, j) /\ Shares(p) /\ Kept(p, j) /\ Mine(p)'
                  /\ j.phase = "run" /\ j.ok = ok /\ j.got = k.got
<1>1. PICK j : j = [k EXCEPT !.phase = "run", !.ok = ok]
    OBVIOUS
<1>2. /\ j \in Job /\ j.phase = "run" /\ j.ok = ok /\ j.got = k.got /\ j.quiet = k.quiet
      /\ j.slot = k.slot /\ j.step = k.step /\ j.cmd = k.cmd /\ j.want = k.want
    BY <1>1 DEF Job, Phases
<1>3. Turns(p, j) /\ Kept(p, j)
    BY <1>1, <1>2 DEF Turns, Return, Kept
<1>4. job'[p] = j
    BY <1>3, Turned DEF Actors
<1>5. Mine(p)'
    BY <1>2, <1>4 DEF Mine, Held, GotOwn, Own, Active
<1>6. line' \in [Ports -> Seq(Unit)] /\ LineKeeps(p)
  <2>1. line' = [q \in Ports |-> Orphan(l[q], p)]
      BY DEF Return
  <2>2. ASSUME NEW q \in Ports
        PROVE  /\ line'[q] \in Seq(Unit) /\ HereOn(line[q], q, at) => HereOn(line'[q], q, at)
               /\ \A o \in Users \ {p} : AllBy(line[q], o) => AllBy(line'[q], o)
    <3>1. line'[q] = Orphan(l[q], p) /\ l[q] \in Seq(Unit) /\ From(l[q], line[q])
        BY <2>1
    <3> QED BY <3>1, FromKeeps, OrphanUnits
  <2>3. \A q \in Ports : Orphan(l[q], p) \in Seq(Unit)
      BY OrphanUnits
  <2> QED BY <2>1, <2>2, <2>3 DEF LineKeeps
<1>7. inbox' \in [Devices -> Seq(Request)] /\ InboxKeeps(p)
  <2>1. inbox' = [d \in Devices |-> Orphan(inbox[d], p)] /\ inbox \in [Devices -> Seq(Request)]
      BY DEF Return, TypeOK
  <2>2. ASSUME NEW d \in Devices
        PROVE  /\ inbox'[d] \in Seq(Request) /\ Orphan(inbox[d], p) \in Seq(Request)
               /\ \A o \in Users \ {p} : AllBy(inbox[d], o) => AllBy(inbox'[d], o)
    <3>1. inbox'[d] = Orphan(inbox[d], p) /\ inbox[d] \in Seq(Request)
        BY <2>1
    <3> QED BY <3>1, OrphanRequests
  <2> QED BY <2>1, <2>2 DEF InboxKeeps
<1>8. LockKeeps(p)
  <2>1. lock \in [Ports -> Users \cup {None}]
      BY DEF TypeOK
  <2>2. lock' = lock \/ lock' = [lock EXCEPT ![k.port] = None]
      BY DEF Return
  <2> QED BY <2>1, <2>2 DEF LockKeeps
<1>9. CableKeeps(p)
    BY DEF CableKeeps, TypeOK, Slots
<1> QED BY <1>2, <1>3, <1>5, <1>6, <1>7, <1>8, <1>9 DEF Shares

\* A command that is over without success, as for its data.
LEMMA ReturnedFalse ==
    ASSUME TypeOK, Safe, ToolInv, NEW p \in Users, job[p].phase \in Active,
           NEW l \in [Ports -> Seq(Unit)], \A q \in Ports : From(l[q], line[q]),
           Return(p, job[p], FALSE, l), UNCHANGED <<at, fd>>
    PROVE  Safe' /\ ToolInv'
<1>1. PICK ok \in BOOLEAN : ok = FALSE
    OBVIOUS
<1>2. job[p] \in Job /\ Mine(p)
    BY DEF TypeOK, Safe
<1>3. PICK k \in Job : k = job[p]
    BY <1>2
<1>4. k.port \in Ports => lock[k.port] = p
    BY <1>2, <1>3 DEF Mine, Held
<1>5. k.quiet => AllBy(k.got, p)
    BY <1>2, <1>3 DEF Mine, GotOwn
<1>6. Return(p, k, ok, l)
    BY <1>1, <1>3
<1>7. PICK j : /\ Turns(p, j) /\ Shares(p) /\ Kept(p, j) /\ Mine(p)'
               /\ j.phase = "run" /\ j.ok = ok /\ j.got = k.got
    BY <1>3, <1>4, <1>5, <1>6, Returned
<1>8. p = Tool => HearsOwn(j)
    BY <1>1, <1>3, <1>7, HeardBefore DEF HearsOwn
<1> QED BY <1>7, <1>8, CommandSafe DEF Active

LEMMA CommandsStep ==
    ASSUME TypeOK, Safe, ToolInv, NEW p \in Users, CommandStep(p)
    PROVE  Safe' /\ ToolInv'
<1>1. PICK k \in Job : k = job[p]
    BY DEF TypeOK
<1>2. p \in Actors /\ Held(p) /\ GotOwn(p) /\ Own(p)
    BY DEF Actors, Safe, Mine
<1>3. /\ line \in [Ports -> Seq(Unit)] /\ lock \in [Ports -> Users \cup {None}]
      /\ inbox \in [Devices -> Seq(Request)] /\ k.got \in Seq(Unit)
      /\ fd \in [Users -> [Slots -> Ports \cup {Closed, Dead}]]
    BY DEF TypeOK, Job, Slots
<1>5. ASSUME UNCHANGED fd
      PROVE  CableKeeps(p)
    BY <1>3, <1>5 DEF CableKeeps
<1>6. ASSUME UNCHANGED inbox
      PROVE  inbox' \in [Devices -> Seq(Request)] /\ InboxKeeps(p)
    BY <1>3, <1>6 DEF InboxKeeps
<1>7. ASSUME UNCHANGED line
      PROVE  line' \in [Ports -> Seq(Unit)] /\ LineKeeps(p)
    BY <1>3, <1>7 DEF LineKeeps
<1>8. ASSUME UNCHANGED lock
      PROVE  LockKeeps(p)
    BY <1>3, <1>8 DEF LockKeeps
<1>9. k.phase \in Active => k.port \in Ports /\ lock[k.port] = p /\ Cable(p) \in {k.port, Dead}
    BY <1>1, <1>2 DEF Held
<1>10. k.quiet => AllBy(k.got, p)
    BY <1>1, <1>2 DEF GotOwn
<1>11. ASSUME k.phase \in Active, k.quiet, Cable(p) # Dead
       PROVE  /\ \A d \in Devices : at[d] = k.port => AllBy(inbox[d], p)
              /\ k.phase # "flush" => AllBy(line[k.port], p)
    BY <1>1, <1>2, <1>11 DEF Own, OwnAt
<1>12. \A q \in Ports : From(line[q], line[q])
    BY FromItself
<1>13. CASE NotOpen(p)
  <2>1. PICK ok \in BOOLEAN : ok = FALSE
      OBVIOUS
  <2>2. PICK n : n = [k EXCEPT !.port = 0, !.got = <<>>]
      OBVIOUS
  <2>3. <<>> \in Seq(Unit)
      OBVIOUS
  <2>4. n \in Job /\ n.port = 0 /\ n.got = <<>> /\ n.slot = k.slot /\ n.step = k.step
        /\ n.cmd = k.cmd /\ n.want = k.want
      BY <2>2, <2>3 DEF Job
  <2>5. Return(p, n, ok, line) /\ UNCHANGED <<at, fd>> /\ k.phase = "lock"
      BY <1>1, <1>13, <2>1, <2>2 DEF NotOpen, In
  <2>6. n.port \notin Ports
      BY <2>4, CableAssumption
  <2>7. PICK j : /\ Turns(p, j) /\ Shares(p) /\ Kept(p, j) /\ Mine(p)'
                 /\ j.phase = "run" /\ j.ok = ok /\ j.got = n.got
    <3>1. n.quiet => AllBy(n.got, p)
        BY <2>4, EmptyKeeps
    <3>2. n.port \in Ports => lock[n.port] = p
        BY <2>6
    <3>3. n.slot = job[p].slot /\ n.step = job[p].step /\ n.cmd = job[p].cmd /\ n.want = job[p].want
        BY <1>1, <2>4
    <3> QED BY SMTT(20), <1>3, <1>12, <2>4, <2>5, <3>1, <3>2, <3>3, Returned
  <2>8. HearsOwn(j)
      BY <2>1, <2>4, <2>7, NothingHeard DEF HearsOwn
  <2> QED BY <1>1, <2>5, <2>7, <2>8, CommandSafe
<1>14. CASE Lock(p)
  <2>1. PICK q : q = Cable(p)
      OBVIOUS
  <2>2. q \in Ports /\ lock[q] = None /\ k.phase = "lock" /\ lock' = [lock EXCEPT ![q] = p]
        /\ UNCHANGED <<at, inbox, line, fd>>
      BY <1>1, <1>14, <2>1 DEF Lock, In
  <2>3. PICK quiet \in BOOLEAN :
            quiet = (inbox[DeviceAt(q)] = <<>> /\ (k.cmd \in Reads \/ line[q] = <<>>))
      OBVIOUS
  <2>4. PICK phase : phase = IF k.cmd \in Reads THEN "flush" ELSE "write"
      OBVIOUS
  <2>5. PICK j : j = [k EXCEPT !.port = q, !.got = <<>>, !.phase = phase, !.quiet = quiet]
      OBVIOUS
  <2>6. <<>> \in Seq(Unit)
      OBVIOUS
  <2>7. /\ j \in Job /\ j.port = q /\ j.got = <<>> /\ j.phase = phase /\ j.quiet = quiet
        /\ j.slot = k.slot /\ j.step = k.step /\ j.cmd = k.cmd /\ j.want = k.want
      BY <2>2, <2>4, <2>5, <2>6 DEF Job, Phases
  <2>8. Go(p, j)
      BY <1>1, <1>14, <2>1, <2>3, <2>4, <2>5 DEF Lock
  <2>9. Turns(p, j) /\ Kept(p, j) /\ job'[p] = j
      BY <1>1, <1>2, <2>7, <2>8, Turned DEF Turns, Kept
  <2>10. LockKeeps(p) /\ lock'[q] = p
      BY <1>3, <2>2, UsersApart DEF LockKeeps
  <2>11. Shares(p)
      BY <1>5, <1>6, <1>7, <2>2, <2>10 DEF Shares
  <2>12. Cable(p)' = q
      BY <1>1, <2>1, <2>2, <2>7, <2>9 DEF Cable
  <2>13. Held(p)' /\ GotOwn(p)'
      BY <2>2, <2>7, <2>9, <2>10, <2>12, EmptyKeeps DEF Held, GotOwn
  <2>14. ASSUME quiet
         PROVE  OwnAt(p, q)'
    <3>1. \A d \in Devices : at[d] = q => d = DeviceAt(q)
      <4>1. ASSUME NEW d \in Devices, at[d] = q PROVE d = DeviceAt(q)
        <5>1. DeviceAt(q) \in Devices /\ at[DeviceAt(q)] = q
            BY <4>1 DEF DeviceAt
        <5>2. q # 0
            BY <2>2, CableAssumption
        <5> QED BY <4>1, <5>1, <5>2 DEF Safe, Distinct
      <4> QED BY <4>1
    <3>2. inbox[DeviceAt(q)] = <<>> /\ (k.cmd \in Reads \/ line[q] = <<>>)
        BY <2>3, <2>14
    <3>3. \A d \in Devices : at[d] = q => AllBy(inbox[d], p)
        BY <3>1, <3>2, EmptyKeeps
    <3>4. phase # "flush" => AllBy(line[q], p)
        BY <2>4, <3>2, EmptyKeeps
    <3> QED BY <2>2, <2>7, <2>9, <3>3, <3>4 DEF OwnAt
  <2>15. Own(p)'
      BY <2>7, <2>9, <2>14 DEF Own
  <2>16. HearsOwn(j)
      BY <2>4, <2>7, NothingHeard DEF HearsOwn
  <2> QED BY <1>1, <2>2, <2>9, <2>11, <2>13, <2>15, <2>16, CommandSafe DEF Mine
<1>15. ASSUME k.phase \in Active,
              NEW j \in Job, Go(p, j), j.phase \in {"write", "head", "data", "crc"},
              j.slot = k.slot /\ j.step = k.step /\ j.cmd = k.cmd /\ j.want = k.want,
              j.port = k.port /\ j.quiet = k.quiet, j.quiet => AllBy(j.got, p),
              UNCHANGED <<at, lock, fd>>, line' \in [Ports -> Seq(Unit)], LineKeeps(p),
              inbox' \in [Devices -> Seq(Request)], InboxKeeps(p),
              k.quiet /\ Cable(p) # Dead =>
                  /\ \A d \in Devices : at[d] = k.port => AllBy(inbox'[d], p)
                  /\ AllBy(line'[k.port], p),
              p = Tool => NamedAll(j.got)
       PROVE  Safe' /\ ToolInv'
  <2>1. Turns(p, j) /\ Kept(p, j) /\ job'[p] = j /\ Shares(p)
      BY <1>1, <1>2, <1>5, <1>8, <1>15, Turned DEF Turns, Kept, Shares
  <2>2. Cable(p)' = Cable(p)
      BY <1>1, <1>15, <2>1 DEF Cable
  <2>3. Held(p)' /\ GotOwn(p)'
      BY <1>9, <1>15, <2>1, <2>2 DEF Held, GotOwn
  <2>4. Own(p)'
      BY <1>15, <2>1, <2>2 DEF Own, OwnAt
  <2>5. p = Tool => HearsOwn(j)
      BY <1>15 DEF HearsOwn
  <2> QED BY <1>1, <1>15, <2>1, <2>3, <2>4, <2>5, CommandSafe DEF Mine, Active
<1>16. k.phase \in Active /\ p = Tool => NamedAll(k.got)
    BY <1>1, HeardBefore
<1>17. CASE Flush(p)
  <2>1. PICK j : j = [k EXCEPT !.phase = "write"]
      OBVIOUS
  <2>2. /\ j \in Job /\ j.phase = "write" /\ j.got = k.got /\ j.quiet = k.quiet /\ j.port = k.port
        /\ j.slot = k.slot /\ j.step = k.step /\ j.cmd = k.cmd /\ j.want = k.want
      BY <2>1 DEF Job, Phases
  <2>3. /\ Go(p, j) /\ k.phase \in Active /\ UNCHANGED <<at, lock, fd, inbox>>
        /\ line' = IF Cable(p) = Dead THEN line ELSE [line EXCEPT ![k.port] = <<>>]
      BY <1>1, <1>17, <2>1 DEF Flush, In, deviceVars, Active
  <2>4. line' \in [Ports -> Seq(Unit)] /\ \A r \in Ports : line'[r] \in {line[r], <<>>}
      BY <1>3, <2>3, OneEmptied
  <2>5. LineKeeps(p)
      BY <2>4, EmptyKeeps DEF LineKeeps
  <2>6. Cable(p) # Dead => line'[k.port] = <<>>
      BY <1>3, <1>9, <2>3
  <2>7. ASSUME k.quiet /\ Cable(p) # Dead
        PROVE  /\ \A d \in Devices : at[d] = k.port => AllBy(inbox'[d], p)
               /\ AllBy(line'[k.port], p)
      BY <1>11, <2>3, <2>6, <2>7, EmptyKeeps
  <2> QED BY <1>6, <1>10, <1>15, <1>16, <2>2, <2>3, <2>4, <2>5, <2>7
<1>18. CASE Write(p)
  <2>1. k.phase = "write" /\ k.phase \in Active /\ UNCHANGED <<at, fd>>
      BY <1>1, <1>18 DEF Write, In, Active
  <2>2. CASE Cable(p) = Dead
    <3>1. Return(p, job[p], FALSE, line)
        BY <1>18, <2>2 DEF Write
    <3> QED BY <1>1, <1>3, <1>12, <2>1, <3>1, ReturnedFalse
  <2>3. CASE Cable(p) # Dead
    <3>1. PICK q : q = k.port
        OBVIOUS
    <3>2. q \in Ports /\ Cable(p) = q
        BY <1>9, <2>1, <2>3, <3>1
    <3>3. q \in ListUsbDevices
      <4>1. job[p].slot \in Slots
          BY DEF TypeOK, Job, Slots
      <4> QED BY <3>2, <4>1 DEF Cable, Safe, Attended
    <3>4. PICK e : e = DeviceAt(q)
        OBVIOUS
    <3>5. e \in Devices /\ at[e] = q
        BY <3>3, <3>4 DEF ListUsbDevices, DeviceAt
    <3>6. \A d \in Devices : at[d] = q => d = e
        BY <3>2, <3>5, CableAssumption DEF Safe, Distinct
    <3>7. PICK r : r = [by |-> p, cmd |-> k.cmd]
        OBVIOUS
    <3>8. r \in Request /\ r.by = p
        BY <3>7 DEF Request, Job
    <3>9. /\ Append(inbox[e], r) \in Seq(Request)
          /\ AllBy(inbox[e], p) => AllBy(Append(inbox[e], r), p)
      <4>1. inbox[e] \in Seq(Request)
          BY <1>3, <3>5
      <4> QED BY <3>8, <4>1, Appended DEF AllBy
    <3>10. inbox' = [inbox EXCEPT ![e] = Append(inbox[e], r)] /\ UNCHANGED <<line, lock>>
        BY <1>1, <1>18, <2>3, <3>1, <3>4, <3>7 DEF Write
    <3>11. /\ inbox' \in [Devices -> Seq(Request)] /\ inbox'[e] = Append(inbox[e], r)
           /\ \A d \in Devices : d # e => inbox'[d] = inbox[d]
        BY <1>3, <3>5, <3>9, <3>10
    <3>12. InboxKeeps(p)
        BY <1>1, <2>1, <2>3, <3>1, <3>5, <3>11 DEF InboxKeeps
    <3>13. PICK j : j = [k EXCEPT !.phase = "head"]
        OBVIOUS
    <3>14. /\ j \in Job /\ j.phase = "head" /\ j.got = k.got /\ j.quiet = k.quiet
           /\ j.port = k.port /\ j.slot = k.slot /\ j.step = k.step /\ j.cmd = k.cmd
           /\ j.want = k.want
        BY <3>13 DEF Job, Phases
    <3>15. Go(p, j)
        BY <1>1, <1>18, <2>3, <3>13 DEF Write
    <3>16. ASSUME k.quiet /\ Cable(p) # Dead
           PROVE  /\ \A d \in Devices : at[d] = k.port => AllBy(inbox'[d], p)
                  /\ AllBy(line'[k.port], p)
        BY <1>11, <2>1, <3>1, <3>5, <3>6, <3>9, <3>10, <3>11, <3>16
    <3> QED BY <1>7, <1>10, <1>15, <1>16, <2>1, <3>10, <3>11, <3>12, <3>14, <3>15, <3>16
  <2> QED BY <2>2, <2>3
\* A unit is taken from the line.
<1>19. ASSUME Unread(p), k.phase \in {"head", "data", "crc"}
       PROVE  /\ Taken(p) \in [Ports -> Seq(Unit)] /\ \A q \in Ports : From(Taken(p)[q], line[q])
              /\ Head(line[k.port]) \in Unit
              /\ k.quiet => Head(line[k.port]).by = p
              /\ p = Tool /\ Head(line[k.port]).size = 1 => Named(Head(line[k.port]).val)
              /\ k.phase \in Active /\ Cable(p) # Dead
              /\ k.quiet => AllBy(Taken(p)[k.port], p)
  <2>1. k.phase \in Active /\ k.port \in Ports /\ Cable(p) = k.port /\ line[k.port] # <<>>
        /\ Cable(p) # Dead /\ k.phase # "flush"
      BY <1>1, <1>9, <1>19 DEF Unread, Active
  <2>2. /\ Taken(p) \in [Ports -> Seq(Unit)] /\ \A q \in Ports : From(Taken(p)[q], line[q])
        /\ Head(line[k.port]) \in Unit
        /\ Head(line[k.port]) = line[k.port][1] /\ 1 \in DOMAIN line[k.port]
        /\ From(Taken(p)[k.port], line[k.port])
      BY <1>1, <2>1, TakenLine
  <2>3. k.quiet => AllBy(line[k.port], p)
      BY <1>11, <2>1
  <2>4. k.quiet => Head(line[k.port]).by = p /\ AllBy(Taken(p)[k.port], p)
    <3>1. k.quiet => Head(line[k.port]).by = p
        BY <2>2, <2>3 DEF AllBy
    <3>2. k.quiet => AllBy(Taken(p)[k.port], p)
        BY <2>2, <2>3, FromKeeps
    <3> QED BY <3>1, <3>2
  <2>5. ASSUME p = Tool, Head(line[k.port]).size = 1
        PROVE  Named(Head(line[k.port]).val)
    <3>1. HereOn(line[k.port], k.port, at)
        BY <2>1 DEF Safe, AllHere
    <3>2. fd[Tool]["own"] = k.port
        BY <1>1, <2>1, <2>5 DEF Cable, ToolInv
    <3> QED BY <2>1, <2>2, <2>5, <3>1, <3>2 DEF HereOn, Named
  <2> QED BY <2>1, <2>2, <2>4, <2>5
<1>20. ASSUME Unread(p), k.phase \in {"head", "data", "crc"}, line' = Taken(p), UNCHANGED inbox,
              k.quiet /\ Cable(p) # Dead
       PROVE  /\ \A d \in Devices : at[d] = k.port => AllBy(inbox'[d], p)
              /\ AllBy(line'[k.port], p)
    BY <1>11, <1>19, <1>20
<1>21. CASE ReadHeader(p)
  <2>1. k.phase = "head" /\ k.phase \in Active /\ Unread(p) /\ UNCHANGED <<at, fd>>
      BY <1>1, <1>21 DEF ReadHeader, In, Active
  <2>2. CASE Return(p, job[p], FALSE, Taken(p))
      BY <1>1, <1>19, <2>1, <2>2, ReturnedFalse
  <2>3. CASE /\ Go(p, [job[p] EXCEPT !.phase = IF job[p].cmd \in Reads THEN "data" ELSE "crc"])
             /\ line' = Taken(p) /\ UNCHANGED <<inbox, lock>>
    <3>1. PICK phase : phase = IF k.cmd \in Reads THEN "data" ELSE "crc"
        OBVIOUS
    <3>2. PICK j : j = [k EXCEPT !.phase = phase]
        OBVIOUS
    <3>3. /\ j \in Job /\ j.phase = phase /\ j.got = k.got /\ j.quiet = k.quiet
          /\ j.port = k.port /\ j.slot = k.slot /\ j.step = k.step /\ j.cmd = k.cmd
          /\ j.want = k.want /\ phase \in {"data", "crc"}
        BY <3>1, <3>2 DEF Job, Phases
    <3>4. Go(p, j)
        BY <1>1, <2>3, <3>1, <3>2
    <3>5. line' \in [Ports -> Seq(Unit)] /\ LineKeeps(p)
        BY <1>19, <2>1, <2>3, LineFrom
    <3>6. j.phase \in {"write", "head", "data", "crc"} /\ (j.quiet => AllBy(j.got, p))
        BY <1>10, <3>3
    <3> QED BY <1>6, <1>15, <1>16, <1>20, <2>1, <2>3, <3>3, <3>4, <3>5, <3>6
  <2> QED BY <1>21, <2>2, <2>3 DEF ReadHeader
<1>22. ASSUME Unread(p), k.phase \in {"head", "data", "crc"},
              NEW got, got = Append(k.got, Head(line[k.port]))
       PROVE  /\ got \in Seq(Unit) /\ (k.quiet => AllBy(got, p)) /\ (p = Tool => NamedAll(got))
  <2>1. PICK u \in Unit : u = Head(line[k.port])
      BY <1>19, <1>22
  <2>2. /\ got \in Seq(Unit)
        /\ \A i \in DOMAIN got : got[i] = u \/ \E j \in DOMAIN k.got : got[i] = k.got[j]
      BY <1>3, <1>22, <2>1, Appended
  <2>3. k.quiet => AllBy(got, p)
      BY <1>10, <1>19, <1>22, <2>1, <2>2 DEF AllBy
  <2>4. p = Tool => NamedAll(got)
      BY <1>16, <1>19, <1>22, <2>1, <2>2 DEF NamedAll
  <2> QED BY <2>2, <2>3, <2>4
<1>23. CASE ReadData(p)
  <2>1. k.phase = "data" /\ k.phase \in Active /\ Unread(p) /\ UNCHANGED <<at, fd, lock, inbox>>
        /\ line' = Taken(p)
      BY <1>1, <1>23 DEF ReadData, In, Active, deviceVars
  <2>2. PICK got : got = Append(k.got, Head(line[k.port]))
      OBVIOUS
  <2>3. /\ got \in Seq(Unit) /\ (k.quiet => AllBy(got, p)) /\ (p = Tool => NamedAll(got))
      BY <1>22, <2>1, <2>2
  <2>4. PICK phase : phase = IF Len(got) = Count(k.cmd) THEN "crc" ELSE "data"
      OBVIOUS
  <2>5. PICK j : j = [k EXCEPT !.got = got, !.phase = phase]
      OBVIOUS
  <2>6. /\ j \in Job /\ j.phase = phase /\ j.got = got /\ j.quiet = k.quiet
        /\ j.port = k.port /\ j.slot = k.slot /\ j.step = k.step /\ j.cmd = k.cmd
        /\ j.want = k.want /\ phase \in {"data", "crc"}
      BY <2>3, <2>4, <2>5 DEF Job, Phases
  <2>7. Go(p, j)
      BY <1>1, <1>23, <2>2, <2>4, <2>5 DEF ReadData
  <2>8. line' \in [Ports -> Seq(Unit)] /\ LineKeeps(p)
      BY <1>19, <2>1, LineFrom
  <2>9. j.phase \in {"write", "head", "data", "crc"} /\ (j.quiet => AllBy(j.got, p))
      BY <2>3, <2>6
  <2> QED BY <1>6, <1>15, <1>20, <2>1, <2>3, <2>6, <2>7, <2>8, <2>9
<1>24. CASE ReadCrc(p)
  <2>1. k.phase = "crc" /\ k.phase \in Active /\ Unread(p) /\ UNCHANGED <<at, fd>>
      BY <1>1, <1>24 DEF ReadCrc, In, Active
  <2>2. PICK crc \in Unit : crc = Head(line[k.port])
      BY <1>19, <2>1
  <2>3. PICK got : got = Append(k.got, crc)
      OBVIOUS
  <2>4. /\ got \in Seq(Unit) /\ (k.quiet => AllBy(got, p)) /\ (p = Tool => NamedAll(got))
      BY <1>22, <2>1, <2>2, <2>3
  <2>5. PICK ok \in BOOLEAN : ok = (CrcOk(k.got, crc) /\ Len(k.got) = Count(k.cmd))
      OBVIOUS
  <2>6. PICK n : n = [k EXCEPT !.got = got]
      OBVIOUS
  <2>7. /\ n \in Job /\ n.got = got /\ n.quiet = k.quiet /\ n.port = k.port /\ n.slot = k.slot
        /\ n.step = k.step /\ n.cmd = k.cmd /\ n.want = k.want
      BY <2>4, <2>6 DEF Job
  <2>8. Return(p, n, ok, Taken(p))
    <3>1. n = [job[p] EXCEPT !.got = Append(@, crc)]
        BY <1>1, <2>3, <2>6
    <3> QED BY <1>1, <1>24, <2>2, <2>5, <3>1 DEF ReadCrc
  <2>9. PICK j : /\ Turns(p, j) /\ Shares(p) /\ Kept(p, j) /\ Mine(p)'
                 /\ j.phase = "run" /\ j.ok = ok /\ j.got = n.got
    <3>1. n.port \in Ports => lock[n.port] = p
        BY <1>9, <2>1, <2>7
    <3>2. n.slot = job[p].slot /\ n.step = job[p].step /\ n.cmd = job[p].cmd /\ n.want = job[p].want
        BY <1>1, <2>7
    <3>3. n.quiet => AllBy(n.got, p)
        BY <2>4, <2>7
    <3> QED BY <1>19, <2>1, <2>7, <2>8, <3>1, <3>2, <3>3, Returned
  <2>10. ASSUME ok, k.cmd = "infos"
         PROVE  1 \in DOMAIN got /\ got[1].size = 1
    <3>1. Len(k.got) = 1 /\ crc.size = Len(k.got)
          /\ \A i \in DOMAIN k.got : k.got[i] = [crc EXCEPT !.part = "data"]
        BY <2>5, <2>10 DEF CrcOk, Count
    <3>2. 1 \in DOMAIN k.got /\ 1 \in DOMAIN got /\ got[1] = k.got[1]
        BY <1>3, <2>3, <3>1
    <3>3. [crc EXCEPT !.part = "data"].size = crc.size
        BY DEF Unit
    <3> QED BY <3>1, <3>2, <3>3
  <2>11. p = Tool => HearsOwn(j)
      BY <1>1, <2>4, <2>7, <2>9, <2>10 DEF HearsOwn, Kept
  <2> QED BY <1>1, <2>1, <2>9, <2>11, CommandSafe
<1>25. CASE Timeout(p)
  <2>1. k.phase \in {"head", "data", "crc"} /\ k.phase \in Active /\ UNCHANGED <<at, fd>>
      BY <1>1, <1>25 DEF Timeout, Active
  <2>2. CASE Return(p, job[p], FALSE, line)
      BY <1>1, <1>3, <1>12, <2>1, <2>2, ReturnedFalse
  <2>3. CASE /\ Go(p, [job[p] EXCEPT !.phase = "crc", !.got = <<>>])
             /\ UNCHANGED <<inbox, line, lock>>
    <3>1. PICK j : j = [k EXCEPT !.phase = "crc", !.got = <<>>]
        OBVIOUS
    <3>2. <<>> \in Seq(Unit)
        OBVIOUS
    <3>3. /\ j \in Job /\ j.phase = "crc" /\ j.got = <<>> /\ j.quiet = k.quiet
          /\ j.port = k.port /\ j.slot = k.slot /\ j.step = k.step /\ j.cmd = k.cmd
          /\ j.want = k.want
        BY <3>1, <3>2 DEF Job, Phases
    <3>4. Go(p, j)
        BY <1>1, <2>3, <3>1
    <3>5. (j.quiet => AllBy(j.got, p)) /\ NamedAll(j.got)
        BY <3>3, EmptyKeeps, NothingHeard
    <3>6. ASSUME k.quiet /\ Cable(p) # Dead
          PROVE  /\ \A d \in Devices : at[d] = k.port => AllBy(inbox'[d], p)
                 /\ AllBy(line'[k.port], p)
        BY <1>11, <2>1, <2>3, <3>6
    <3> QED BY <1>6, <1>7, <1>15, <2>1, <2>3, <3>3, <3>4, <3>5, <3>6
  <2> QED BY <1>25, <2>2, <2>3 DEF Timeout
<1> QED
    BY <1>13, <1>14, <1>17, <1>18, <1>21, <1>23, <1>24, <1>25 DEF CommandStep

-----------------------------------------------------------------------------
(* Steps of a device *)

\* The invariant for the users does not depend on what a device does, but for their lines.
LEMMA UsersKeep ==
    ASSUME Safe, UNCHANGED <<lock, job>>,
           \A p \in Users : Cable(p)' \in {Cable(p), Dead},
           \A p \in Users : Own(p)'
    PROVE  (\A p \in Users : Mine(p)') /\ KeyRuns'
<1>1. ASSUME NEW p \in Users
      PROVE  Held(p)' /\ GotOwn(p)'
  <2>1. Held(p) /\ GotOwn(p)
      BY DEF Safe, Mine
  <2>2. Held(p)'
      BY <2>1 DEF Held
  <2>3. GotOwn(p)'
      BY <2>1 DEF GotOwn
  <2> QED BY <2>2, <2>3
<1> QED BY <1>1 DEF Mine, KeyRuns, Safe

LEMMA ToolKeeps ==
    ASSUME ToolInv, UNCHANGED job, \A val : Named(val) => Named(val)'
    PROVE  ToolInv'
<1>1. Heard => Heard'
    BY DEF Heard
<1>2. (job[Tool].want # None => Regained(job[Tool].want))
      => (job[Tool].want # None => Regained(job[Tool].want))'
    BY DEF Regained
<1> QED BY <1>1, <1>2 DEF ToolInv

LEMMA AnswerStep ==
    ASSUME Safe, ToolInv, NEW d \in Devices, Answer(d)
    PROVE  Safe' /\ ToolInv'
<1>1. PICK c : c = Head(inbox[d])
    OBVIOUS
<1>2. PICK s : s = Reply(d, c.cmd, c.by)
    OBVIOUS
<1>3. /\ inbox[d] \in Seq(Request) /\ inbox[d] # <<>> /\ line \in [Ports -> Seq(Unit)]
      /\ inbox \in [Devices -> Seq(Request)] /\ UNCHANGED <<at, lock, fd, job>>
      /\ inbox' = [inbox EXCEPT ![d] = Tail(inbox[d])]
    BY DEF Answer, Safe, SharedType
<1>4. /\ Tail(inbox[d]) \in Seq(Request) /\ From(Tail(inbox[d]), inbox[d])
      /\ c \in Request /\ c = inbox[d][1] /\ 1 \in DOMAIN inbox[d]
    BY <1>1, <1>3, TailFrom
<1>5. s \in Seq(Unit) /\ \A i \in DOMAIN s : s[i].by = c.by /\ (s[i].size = 1 => s[i].val = d)
  <2>1. c.cmd \in Commands /\ c.by \in Users \cup {None}
      BY <1>4 DEF Request
  <2> QED BY <1>2, <2>1, Replied
<1>6. PICK r \in Seq(Unit) : From(r, s) /\ line' = [line EXCEPT ![at[d]] = @ \o r]
  <2>1. CASE line' = [line EXCEPT ![at[d]] = @ \o s]
      BY <1>5, <2>1, FromItself
  <2>2. ASSUME NEW i \in DOMAIN s, line' = [line EXCEPT ![at[d]] = @ \o RemoveAt(s, i)]
        PROVE  \E r \in Seq(Unit) : From(r, s) /\ line' = [line EXCEPT ![at[d]] = @ \o r]
      BY <1>5, <2>2, RemovedFrom
  <2> QED BY <1>1, <1>2, <2>1, <2>2 DEF Answer
<1>7. \A i \in DOMAIN r : r[i].by = c.by /\ (r[i].size = 1 => r[i].val = d)
    BY <1>5, <1>6 DEF From
<1>8. ASSUME NEW q \in Ports
      PROVE  /\ line'[q] \in Seq(Unit)
             /\ at[d] # q => line'[q] = line[q]
             /\ at[d] = q => FromEither(line'[q], line[q], r)
  <2>1. PICK t : t = line[q] \o r
      OBVIOUS
  <2>2. t \in Seq(Unit) /\ FromEither(t, line[q], r)
      BY <1>3, <2>1, Joined
  <2>3. line'[q] = IF at[d] = q THEN t ELSE line[q]
      BY <1>3, <1>6, <2>1
  <2> QED BY <1>3, <2>2, <2>3
<1>9. line' \in [Ports -> Seq(Unit)]
    BY <1>3, <1>6, <1>8
<1>10. inbox' \in [Devices -> Seq(Request)]
    BY <1>3, <1>4
<1>11. SharedType' /\ Distinct' /\ Attended'
    BY <1>3, <1>9, <1>10 DEF Safe, SharedType, Distinct, Attended, ListUsbDevices
<1>12. ASSUME NEW q \in Ports
       PROVE  HereOn(line'[q], q, at)
  <2>1. HereOn(line[q], q, at)
      BY DEF Safe, AllHere
  <2> QED BY <1>7, <1>8, <2>1 DEF HereOn, FromEither
<1>13. AllHere'
    BY <1>3, <1>12 DEF AllHere
<1>14. ASSUME NEW p \in Users
       PROVE  Own(p)'
  <2>1. SUFFICES ASSUME job[p].phase \in Active, job[p].quiet, Cable(p) # Dead
                 PROVE  OwnAt(p, job[p].port)'
      BY <1>3 DEF Own, Cable
  <2>2. PICK q \in Ports : q = job[p].port
      BY <2>1 DEF Safe, Mine, Held
  <2>3. /\ \A e \in Devices : at[e] = q => AllBy(inbox[e], p)
        /\ job[p].phase # "flush" => AllBy(line[q], p)
      BY <2>1, <2>2 DEF Safe, Mine, Own, OwnAt
  <2>4. ASSUME NEW e \in Devices, at[e] = q
        PROVE  AllBy(inbox'[e], p)
    <3>1. CASE e = d
        BY <1>3, <1>4, <2>3, <2>4, <3>1, FromKeeps
    <3>2. CASE e # d
        BY <1>3, <2>3, <2>4, <3>2
    <3> QED BY <3>1, <3>2
  <2>5. ASSUME job[p].phase # "flush"
        PROVE  AllBy(line'[q], p)
    <3>1. CASE at[d] = q
      <4>1. c.by = p
          BY <1>4, <2>3, <3>1 DEF AllBy
      <4> QED BY <1>7, <1>8, <2>3, <2>5, <3>1, <4>1 DEF AllBy, FromEither
    <3>2. CASE at[d] # q
        BY <1>8, <2>3, <2>5, <3>2
    <3> QED BY <3>1, <3>2
  <2> QED BY <1>3, <2>2, <2>4, <2>5 DEF OwnAt
<1>15. \A p \in Users : Cable(p)' = Cable(p)
    BY <1>3 DEF Cable
<1>16. (\A p \in Users : Mine(p)') /\ KeyRuns'
    BY <1>3, <1>14, <1>15, UsersKeep
<1>17. ToolInv'
    BY <1>3, ToolStill
<1> QED BY <1>11, <1>13, <1>16, <1>17 DEF Safe

LEMMA IgnoreStep ==
    ASSUME Safe, ToolInv, NEW d \in Devices, Ignore(d)
    PROVE  Safe' /\ ToolInv'
<1>1. /\ inbox[d] \in Seq(Request) /\ inbox[d] # <<>> /\ inbox \in [Devices -> Seq(Request)]
      /\ UNCHANGED <<at, line, lock, fd, job>>
      /\ inbox' = [inbox EXCEPT ![d] = Tail(inbox[d])]
    BY DEF Ignore, Safe, SharedType
<1>2. Tail(inbox[d]) \in Seq(Request) /\ From(Tail(inbox[d]), inbox[d])
    BY <1>1, TailFrom
<1>3. inbox' \in [Devices -> Seq(Request)]
    BY <1>1, <1>2
<1>4. SharedType' /\ Distinct' /\ Attended' /\ AllHere'
    BY <1>1, <1>3 DEF Safe, SharedType, Distinct, Attended, ListUsbDevices, AllHere
<1>5. ASSUME NEW e \in Devices, NEW p, AllBy(inbox[e], p)
      PROVE  AllBy(inbox'[e], p)
  <2>1. CASE e = d
      BY <1>1, <1>2, <1>5, <2>1, FromKeeps
  <2>2. CASE e # d
      BY <1>1, <1>5, <2>2
  <2> QED BY <2>1, <2>2
<1>6. ASSUME NEW p \in Users
      PROVE  Own(p)'
  <2>1. Own(p)
      BY DEF Safe, Mine
  <2> QED BY <1>1, <1>5, <2>1 DEF Own, OwnAt, Cable
<1>7. \A p \in Users : Cable(p)' = Cable(p)
    BY <1>1 DEF Cable
<1>8. (\A p \in Users : Mine(p)') /\ KeyRuns'
    BY <1>1, <1>6, <1>7, UsersKeep
<1>9. ToolInv'
    BY <1>1, ToolStill
<1> QED BY <1>4, <1>8, <1>9 DEF Safe

LEMMA DisconnectStep ==
    ASSUME Safe, ToolInv, NEW d \in Devices, Disconnect(d)
    PROVE  Safe' /\ ToolInv'
<1>1. PICK q : q = at[d]
    OBVIOUS
<1>2. /\ q \in Ports /\ at' = [at EXCEPT ![d] = 0] /\ inbox' = [inbox EXCEPT ![d] = <<>>]
      /\ line' = [line EXCEPT ![q] = <<>>] /\ UNCHANGED <<lock, job>>
    BY <1>1 DEF Disconnect, Safe, SharedType
<1>3. /\ at \in [Devices -> Ports \cup {0}] /\ inbox \in [Devices -> Seq(Request)]
      /\ line \in [Ports -> Seq(Unit)] /\ fd \in [Users -> [Slots -> Ports \cup {Closed, Dead}]]
    BY DEF Safe, SharedType
<1>4. <<>> \in Seq(Unit)
    OBVIOUS
<1>20. <<>> \in Seq(Request)
    BY EmptySeqOf
<1>5. /\ at' \in [Devices -> Ports \cup {0}] /\ inbox' \in [Devices -> Seq(Request)]
      /\ line' \in [Ports -> Seq(Unit)]
    BY <1>2, <1>3, <1>4, <1>20
<1>6. fd' = [p \in Users |-> [s \in DOMAIN fd[p] |-> IF fd[p][s] = q THEN Dead ELSE fd[p][s]]]
    BY <1>1 DEF Disconnect
<1>7. /\ fd' \in [Users -> [Slots -> Ports \cup {Closed, Dead}]]
      /\ \A p \in Users : \A s \in Slots : fd'[p][s] = IF fd[p][s] = q THEN Dead ELSE fd[p][s]
  <2>1. ASSUME NEW p \in Users
        PROVE  /\ fd'[p] \in [Slots -> Ports \cup {Closed, Dead}]
               /\ \A s \in Slots : fd'[p][s] = IF fd[p][s] = q THEN Dead ELSE fd[p][s]
    <3>1. fd[p] \in [Slots -> Ports \cup {Closed, Dead}] /\ DOMAIN fd[p] = Slots
        BY <1>3
    <3>2. fd'[p] = [s \in Slots |-> IF fd[p][s] = q THEN Dead ELSE fd[p][s]]
        BY <1>6, <3>1
    <3> QED BY <3>1, <3>2
  <2>2. DOMAIN fd' = Users /\ fd' = [p \in Users |-> fd'[p]]
      BY <1>6
  <2> QED BY <2>1, <2>2
<1>8. SharedType'
    BY <1>2, <1>5, <1>7 DEF Safe, SharedType
<1>9. 0 \notin Ports /\ Dead \notin Ports /\ Closed \notin Ports
    BY CableAssumption DEF Dead, Closed
<1>10. \A e \in Devices : at[e] = q => e = d
    BY <1>1, <1>2, <1>9 DEF Safe, Distinct
<1>11. \A e \in Devices : at'[e] = IF e = d THEN 0 ELSE at[e]
    BY <1>2, <1>3
<1>12. Distinct'
    BY <1>11 DEF Safe, Distinct
<1>13. Attended'
  <2>1. ASSUME NEW p \in Users, NEW s \in Slots, fd'[p][s] \in Ports
        PROVE  \E e \in Devices : at'[e] = fd'[p][s]
    <3>1. fd[p][s] # q /\ fd'[p][s] = fd[p][s]
        BY <1>7, <1>9, <2>1
    <3>2. PICK e \in Devices : at[e] = fd[p][s]
        BY <2>1, <3>1 DEF Safe, Attended, ListUsbDevices
    <3> QED BY <1>1, <1>11, <3>1, <3>2
  <2> QED BY <2>1 DEF Attended, ListUsbDevices
<1>14. AllHere'
  <2>1. ASSUME NEW r \in Ports
        PROVE  HereOn(line'[r], r, at')
    <3>1. CASE r = q
        BY <1>2, <1>3, <3>1, EmptyKeeps
    <3>2. CASE r # q
      <4>1. HereOn(line[r], r, at) /\ line'[r] = line[r]
          BY <1>2, <1>3, <3>2 DEF Safe, AllHere
      <4> QED BY <1>1, <1>11, <3>2, <4>1 DEF HereOn
    <3> QED BY <3>1, <3>2
  <2> QED BY <2>1 DEF AllHere
<1>15. \A p \in Users : job[p].slot \in Slots
    BY DEF Safe, SharedType, Job, Slots, Actors
<1>16. \A p \in Users : Cable(p)' = IF Cable(p) = q THEN Dead ELSE Cable(p)
    BY <1>2, <1>7, <1>15 DEF Cable
<1>17. ASSUME NEW p \in Users
       PROVE  Own(p)'
  <2>1. SUFFICES ASSUME job[p].phase \in Active, job[p].quiet, Cable(p)' # Dead
                 PROVE  OwnAt(p, job[p].port)'
      BY <1>2 DEF Own
  <2>2. Cable(p) # q /\ Cable(p) # Dead
      BY <1>16, <2>1
  <2>3. PICK r \in Ports : r = job[p].port /\ r = Cable(p)
      BY <2>1, <2>2 DEF Safe, Mine, Held
  <2>4. /\ \A e \in Devices : at[e] = r => AllBy(inbox[e], p)
        /\ job[p].phase # "flush" => AllBy(line[r], p)
      BY <2>1, <2>2, <2>3 DEF Safe, Mine, Own, OwnAt
  <2>5. line'[r] = line[r]
      BY <1>2, <1>3, <2>2, <2>3
  <2>6. ASSUME NEW e \in Devices, at'[e] = r
        PROVE  AllBy(inbox'[e], p)
    <3>1. e # d /\ at[e] = r
        BY <1>9, <1>11, <2>6
    <3> QED BY <1>2, <1>3, <2>4, <3>1
  <2> QED BY <1>2, <2>3, <2>4, <2>5, <2>6 DEF OwnAt
<1>18. (\A p \in Users : Mine(p)') /\ KeyRuns'
    BY <1>2, <1>16, <1>17, UsersKeep
<1>19. ToolInv'
  <2>1. fd'[Tool]["own"] = IF fd[Tool]["own"] = q THEN Dead ELSE fd[Tool]["own"]
      BY <1>7, UsersApart DEF Slots
  <2>2. ASSUME NEW val, Named(val)
        PROVE  Named(val)'
      BY <1>1, <1>9, <1>11, <2>1, <2>2 DEF Named
  <2> QED BY <1>2, <2>2, ToolKeeps
<1> QED BY <1>8, <1>12, <1>13, <1>14, <1>18, <1>19 DEF Safe

LEMMA ConnectStep ==
    ASSUME Safe, ToolInv, NEW d \in Devices, Connect(d)
    PROVE  Safe' /\ ToolInv'
<1>1. PICK q \in Ports \ ListUsbDevices : at' = [at EXCEPT ![d] = q]
    BY DEF Connect
<1>2. UNCHANGED <<inbox, line, lock, fd, job>> /\ at[d] = 0
    BY DEF Connect
<1>3. at \in [Devices -> Ports \cup {0}]
    BY DEF Safe, SharedType
<1>4. \A e \in Devices : at'[e] = IF e = d THEN q ELSE at[e]
    BY <1>1, <1>3
<1>5. \A e \in Devices : at[e] # q
    BY <1>1 DEF ListUsbDevices
<1>6. 0 \notin Ports /\ Dead \notin Ports
    BY CableAssumption DEF Dead
<1>7. SharedType' /\ Distinct'
    BY <1>1, <1>2, <1>3, <1>4, <1>5 DEF Safe, SharedType, Distinct
<1>8. \A r \in Ports : r \in ListUsbDevices => r \in ListUsbDevices'
    BY <1>2, <1>4, <1>6 DEF ListUsbDevices
<1>9. Attended'
    BY <1>2, <1>8 DEF Safe, Attended
<1>10. AllHere'
    BY <1>2, <1>4, <1>6 DEF Safe, AllHere, HereOn
<1>11. \A p \in Users : Cable(p)' = Cable(p)
    BY <1>2 DEF Cable
<1>12. ASSUME NEW p \in Users
       PROVE  Own(p)'
  <2>1. SUFFICES ASSUME job[p].phase \in Active, job[p].quiet, Cable(p) # Dead
                 PROVE  OwnAt(p, job[p].port)'
      BY <1>2, <1>11 DEF Own
  <2>2. PICK r \in Ports : r = job[p].port /\ r = Cable(p)
      BY <2>1 DEF Safe, Mine, Held
  <2>3. job[p].slot \in Slots
      BY DEF Safe, SharedType, Job, Slots, Actors
  <2>4. r # q
      BY <1>1, <2>2, <2>3 DEF Safe, Attended, Cable
  <2>5. OwnAt(p, r)
      BY <2>1, <2>2 DEF Safe, Mine, Own
  <2> QED BY <1>2, <1>4, <2>2, <2>4, <2>5 DEF OwnAt
<1>13. (\A p \in Users : Mine(p)') /\ KeyRuns'
    BY <1>2, <1>11, <1>12, UsersKeep
<1>14. ToolInv'
  <2>1. ASSUME NEW val, Named(val)
        PROVE  Named(val)'
      BY <1>2, <1>4, <1>6, <2>1 DEF Named
  <2> QED BY <1>2, <2>1, ToolKeeps
<1> QED BY <1>7, <1>9, <1>10, <1>13, <1>14 DEF Safe

-----------------------------------------------------------------------------
(* What the actors do not share *)

RestType ==
    /\ state \in [Devices -> {"up", "down", "reboot", "bootloader"}]
    /\ tag \subseteq Nfc
    /\ known \in [path: Ports \cup {0}, id: Tpms] \cup {None}
    /\ budget \in [ops: Nat, faults: Nat]

LEMMA TypeParts == TypeOK <=> SharedType /\ RestType
BY DEF TypeOK, SharedType, RestType, Slots, Actors

LEMMA FaultType ==
    ASSUME RestType, Fault \/ UNCHANGED budget
    PROVE  budget' \in [ops: Nat, faults: Nat]
BY DEF RestType, Fault

LEMMA CallType ==
    ASSUME RestType, budget.ops > 0, budget' = [budget EXCEPT !.ops = @ - 1],
           UNCHANGED <<state, tag, known>>
    PROVE  RestType'
BY DEF RestType

LEMMA RestStep ==
    ASSUME TypeOK, [Next]_vars
    PROVE  RestType'
<1>1. RestType
    BY TypeParts
<1>2. ASSUME UNCHANGED <<state, tag, known>>, Fault \/ UNCHANGED budget
      PROVE  RestType'
    BY <1>1, <1>2, FaultType DEF RestType
<1>3. CASE SdkCall \/ ToolCall \/ KeyCall
  <2>1. /\ budget.ops > 0 /\ budget' = [budget EXCEPT !.ops = @ - 1]
        /\ UNCHANGED <<state, tag, known>>
      BY <1>3 DEF SdkCall, ToolCall, KeyCall, deviceVars
  <2> QED BY <1>1, <2>1, CallType
<1>4. ASSUME NEW p \in Users, CommandStep(p)
      PROVE  RestType'
  <2>1. CASE NotOpen(p) \/ Lock(p) \/ Flush(p) \/ Write(p)
      BY <1>2, <2>1 DEF NotOpen, Lock, Flush, Write, deviceVars
  <2>2. CASE ReadHeader(p) \/ ReadData(p) \/ ReadCrc(p)
      BY <1>2, <2>2 DEF ReadHeader, ReadData, ReadCrc, deviceVars
  <2>3. CASE Timeout(p)
      BY <1>2, <2>3 DEF Timeout
  <2> QED BY <1>4, <2>1, <2>2, <2>3 DEF CommandStep
<1>5. CASE BootReason \/ Scan \/ Scanned \/ Attach \/ TagMode
    BY <1>2, <1>5 DEF BootReason, Scan, Scanned, Attach, TagMode, deviceVars
<1>6. CASE Identified \/ Restarted \/ Seek \/ Sought
    BY <1>2, <1>6 DEF Identified, Restarted, Seek, Sought, deviceVars
<1>7. CASE Copy
  <2>1. /\ UNCHANGED <<tag, known, budget>>
        /\ UNCHANGED state \/ \E d \in Devices : state' = [state EXCEPT ![d] = "down"]
      BY <1>7 DEF Copy
  <2> QED BY <1>1, <2>1 DEF RestType
<1>8. CASE \E p \in Actors : Finish(p)
    BY <1>2, <1>8 DEF Finish, deviceVars
<1>9. CASE Discover
  <2>1. UNCHANGED <<state, tag, budget>> /\ (known' = None \/ UNCHANGED known)
      BY <1>9 DEF Discover, deviceVars
  <2> QED BY <1>1, <2>1 DEF RestType
<1>10. CASE Listen \/ Sign
    BY <1>2, <1>10 DEF Listen, Sign, AtcaRetryGivesUp, deviceVars
<1>11. CASE Identity
  <2>1. UNCHANGED <<state, tag>> /\ (Fault \/ UNCHANGED budget)
      BY <1>11 DEF Identity, AtcaRetryGivesUp, deviceVars
  <2>2. PICK found : found = ReadIdentity(job[Key].port)
      OBVIOUS
  <2>3. known' = None \/ known' = IF found = {} THEN None
                                  ELSE [path |-> job[Key].port, id |-> CHOOSE d \in found : TRUE]
      BY <1>11, <2>2 DEF Identity
  <2>4. ASSUME found # {}
        PROVE  (CHOOSE d \in found : TRUE) \in Tpms
    <3>1. found \subseteq Tpms
        BY <2>2 DEF ReadIdentity, TryUsbBus
    <3> QED BY <2>4, <3>1
  <2>5. job[Key].port \in Ports \cup {0}
      BY DEF TypeOK, Job
  <2>6. known' \in [path: Ports \cup {0}, id: Tpms] \cup {None}
    <3>1. CASE found = {}
      BY <2>3, <3>1
    <3>2. CASE found # {}
      <4>1. PICK t : t = CHOOSE d \in found : TRUE
          OBVIOUS
      <4>2. t \in Tpms
          BY <2>4, <3>2, <4>1
      <4>3. [path |-> job[Key].port, id |-> t] \in [path: Ports \cup {0}, id: Tpms]
          BY <2>5, <4>2
      <4>4. known' = None \/ known' = [path |-> job[Key].port, id |-> t]
          BY <2>3, <3>2, <4>1
      <4> QED BY <4>3, <4>4
    <3> QED BY <3>1, <3>2
  <2> QED BY <1>1, <2>1, <2>6, FaultType DEF RestType
<1>12. CASE HasTpm
  <2>1. UNCHANGED <<state, tag>> /\ (Fault \/ UNCHANGED budget) /\ known' \in {known, None}
      BY <1>12 DEF HasTpm, AtcaRetryGivesUp, deviceVars
  <2> QED BY <1>1, <2>1, FaultType DEF RestType
<1>13. ASSUME NEW d \in Devices, Answer(d)
       PROVE  RestType'
  <2>1. UNCHANGED known /\ (Fault \/ UNCHANGED budget)
      BY <1>13 DEF Answer
  <2>2. tag' \subseteq Nfc
      BY <1>1, <1>13 DEF Answer, RestType
  <2>3. PICK s : /\ state' = [state EXCEPT ![d] = s]
                 /\ s = IF Head(inbox[d]).cmd \in {"reboot", "bootloader"} THEN Head(inbox[d]).cmd
                        ELSE state[d]
      BY <1>13 DEF Answer
  <2>4. s \in {"up", "down", "reboot", "bootloader"}
      BY <1>1, <2>3 DEF RestType
  <2> QED BY <1>1, <2>1, <2>2, <2>3, <2>4, FaultType DEF RestType
<1>14. ASSUME NEW d \in Devices, Ignore(d)
       PROVE  RestType'
    BY <1>2, <1>14 DEF Ignore
<1>15. ASSUME NEW d \in Devices, Disconnect(d) \/ Connect(d)
       PROVE  RestType'
  <2>1. UNCHANGED <<known, budget>> /\ tag' \subseteq Nfc
      BY <1>1, <1>15 DEF Disconnect, Connect, RestType
  <2>2. PICK s \in {"up", "down", "reboot", "bootloader"} : state' = [state EXCEPT ![d] = s]
    <3>1. CASE Connect(d)
        BY <3>1 DEF Connect
    <3>2. CASE Disconnect(d)
      <4>1. state' = [state EXCEPT ![d] = IF state[d] = "bootloader" THEN state[d] ELSE "down"]
          BY <1>1, <3>2 DEF Disconnect, RestType
      <4> QED BY <1>1, <4>1 DEF RestType
    <3> QED BY <1>15, <3>1, <3>2
  <2> QED BY <1>1, <2>1, <2>2 DEF RestType
<1>16. CASE UNCHANGED vars
    BY <1>2, <1>16 DEF vars
<1> QED
    BY <1>3, <1>4, <1>5, <1>6, <1>7, <1>8, <1>9, <1>10, <1>11, <1>12, <1>13, <1>14, <1>15, <1>16,
       UsersApart
    DEF Next, SdkStep, ToolStep, KeyStep, DeviceStep, Actors

-----------------------------------------------------------------------------
(* The theorems *)

LEMMA InitIInv == Init => IInv
<1> SUFFICES ASSUME Init PROVE IInv
    OBVIOUS
<1>1. <<>> \in Seq(Unit)
    OBVIOUS
<1>2. <<>> \in Seq(Request)
    OBVIOUS
<1>3. PICK q \in Attached : fd = [p \in Users |-> [s \in Slots |-> IF s = "own" THEN q ELSE Closed]]
    BY DEF Init, Slots
<1>4. q \in Ports \cup {Closed, Dead} /\ (q \in Ports => q \in ListUsbDevices)
    BY CableAssumption DEF Init, ListUsbDevices, Devices, Closed
<1>5. fd \in [Users -> [Slots -> Ports \cup {Closed, Dead}]]
    BY <1>3, <1>4
<1>6. SharedType
  <2>1. job \in [Actors -> Job]
      BY IdleJob DEF Init, Actors
  <2>2. at \in [Devices -> Ports \cup {0}]
      BY CableAssumption DEF Init
  <2> QED BY <1>1, <1>2, <1>5, <2>1, <2>2 DEF Init, SharedType
<1>7. RestType
  <2>1. budget \in [ops: Nat, faults: Nat]
      BY CableAssumption DEF Init
  <2>2. state \in [Devices -> {"up", "down", "reboot", "bootloader"}]
      BY DEF Init
  <2> QED BY <2>1, <2>2 DEF Init, RestType
<1>8. Distinct
    BY CableAssumption DEF Init, Distinct
<1>9. Attended
  <2>1. ASSUME NEW p \in Users, NEW s \in Slots, fd[p][s] \in Ports
        PROVE  fd[p][s] \in ListUsbDevices
    <3>1. Closed \notin Ports
        BY CableAssumption DEF Closed
    <3> QED BY <1>3, <1>4, <2>1, <3>1
  <2> QED BY <2>1 DEF Attended
<1>10. \A p \in Actors : job[p] = Idle
    BY DEF Init, Actors
<1>11. (\A p \in Users : Mine(p)) /\ KeyRuns
  <2>1. \A p \in Actors : job[p].phase = "run" /\ job[p].got = <<>>
      BY <1>10, IdleJob
  <2>2. ASSUME NEW p \in Users
        PROVE  Mine(p)
    <3>1. job[p].phase \notin Active /\ job[p].got = <<>>
        BY <2>1 DEF Active, Actors
    <3> QED BY <3>1, EmptyKeeps DEF Mine, Held, GotOwn, Own
  <2> QED BY <2>1, <2>2 DEF KeyRuns, Actors
<1>12. AllHere
    BY EmptyKeeps DEF Init, AllHere
<1>13. ToolInv
  <2>1. job[Tool] = Idle
      BY <1>10, UsersApart DEF Actors
  <2> QED BY <2>1, IdleJob DEF ToolInv, Active
<1> QED BY <1>6, <1>7, <1>8, <1>9, <1>11, <1>12, <1>13, TypeParts DEF IInv, Safe

LEMMA Invariance == Spec => []IInv
<1>1. IInv /\ [Next]_vars => IInv'
  <2> SUFFICES ASSUME IInv, [Next]_vars PROVE IInv'
      OBVIOUS
  <2>1. TypeOK /\ Safe /\ ToolInv
      BY DEF IInv
  <2>2. Safe' /\ ToolInv'
    <3>1. ASSUME Thinks(Sdk)
          PROVE  Safe' /\ ToolInv'
      <4>1. Sdk \in Actors /\ Sdk # Tool /\ Sdk # Key
          BY UsersApart DEF Actors
      <4> QED BY <2>1, <3>1, <4>1, ThinkStep, OthersTool DEF Thinks
    <3>2. ASSUME Thinks(Key), job'[Key].phase = "run"
          PROVE  Safe' /\ ToolInv'
      <4>1. Key \in Actors /\ Tool # Key
          BY UsersApart DEF Actors
      <4> QED BY <2>1, <3>2, <4>1, ThinkStep, OthersTool DEF Thinks
    <3>3. ASSUME Thinks(Tool)
          PROVE  Safe'
      <4>1. Tool \in Actors /\ Tool # Key
          BY UsersApart DEF Actors
      <4> QED BY <2>1, <3>3, <4>1, ThinkStep
    <3>4. CASE SdkCall \/ BootReason \/ Scan \/ Scanned \/ Attach \/ TagMode \/ Finish(Sdk)
        BY <2>1, <3>1, <3>4, SdkThinks
    <3>5. CASE ToolCall \/ Identified \/ Restarted \/ Copy \/ Seek \/ Sought \/ Finish(Tool)
        BY <2>1, <3>3, <3>5, ToolThinks
    <3>6. CASE KeyCall \/ Discover \/ Listen \/ Identity \/ HasTpm \/ Sign \/ Finish(Key)
        BY <2>1, <3>2, <3>6, KeyThinks
    <3>7. CASE CommandStep(Sdk) \/ CommandStep(Tool)
        BY <2>1, <3>7, CommandsStep, UsersApart
    <3>8. CASE \E d \in Devices : DeviceStep(d)
        BY <2>1, <3>8, AnswerStep, IgnoreStep, DisconnectStep, ConnectStep DEF DeviceStep
    <3>9. CASE UNCHANGED vars
      <4>1. UNCHANGED <<at, inbox, line, lock, fd, job>>
          BY <3>9 DEF vars
      <4>2. SharedType' /\ Distinct' /\ Attended' /\ AllHere'
          BY <2>1, <4>1 DEF Safe, SharedType, Distinct, Attended, ListUsbDevices, AllHere
      <4>3. \A p \in Users : Cable(p)' = Cable(p)
          BY <4>1 DEF Cable
      <4>4. \A p \in Users : Own(p)'
          BY <2>1, <4>1, <4>3 DEF Safe, Mine, Own, OwnAt
      <4>5. (\A p \in Users : Mine(p)') /\ KeyRuns'
          BY <2>1, <4>1, <4>3, <4>4, UsersKeep
      <4>6. ToolInv'
          BY <2>1, <4>1, ToolStill
      <4> QED BY <4>2, <4>5, <4>6 DEF Safe
    <3> QED
        BY <3>4, <3>5, <3>6, <3>7, <3>8, <3>9 DEF Next, SdkStep, ToolStep, KeyStep
  <2>3. RestType'
      BY <2>1, RestStep
  <2>4. TypeOK'
    <3>1. SharedType'
        BY <2>2 DEF Safe
    <3> QED BY <2>3, <3>1 DEF TypeOK, SharedType, RestType, Slots, Actors
  <2> QED BY <2>2, <2>4 DEF IInv
<1> QED BY <1>1, InitIInv, PTL DEF Spec

\* Every variable has its type, for any ports, devices and bounds.
THEOREM TypeCorrect == Spec => []TypeOK
<1>1. IInv => TypeOK
    BY DEF IInv
<1> QED BY <1>1, Invariance, PTL

\* A command that succeeds and found nothing of others at its port has the answer to itself,
\* for any ports, faults and interleavings of the SDK, the tool and the key's thread
\* (Command, CommandRead, WaitForReply, InterprocessLock).
THEOREM RepliesAreOwn == Spec => []ReplyIsOwn
<1>1. IInv => ReplyIsOwn
    BY DEF IInv, Safe, Mine, GotOwn, AllBy, ReplyIsOwn
<1> QED BY <1>1, Invariance, PTL

\* The tool goes on with the probe it restarted, at whatever port that has come back and
\* whatever other probes are there, or with an NFC probe if the restarted one has no UID
\* (Reboot, UploadFirmware, FindProbe).
THEOREM ReconnectsToSame == Spec => []ReconnectedIsSame
<1>1. IInv => ReconnectedIsSame
    BY DEF IInv, ToolInv, Regained, Named, ReconnectedIsSame
<1> QED BY <1>1, Invariance, PTL

=============================================================================
